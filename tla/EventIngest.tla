----------------------------- MODULE EventIngest -----------------------------
(***************************************************************************)
(* How a change of an order gets into the outbox: by the platform's        *)
(* webhook (src/api/routers/webhooks.py), which is delivered again until   *)
(* it is answered and is checked for replays against Redis or, when Redis  *)
(* is down, against the event log; and by the poll that beat starts every  *)
(* ten minutes (polling_fallback in src/workers/scheduled.py), which       *)
(* remembers the orders it has seen in one Redis set.                      *)
(***************************************************************************)
EXTENDS Naturals, FiniteSets

CONSTANTS Events,        \* changes of orders, in order; each has its webhook and signature
          Orders,
          OrderOf,       \* the order an event is about
          Unknown,       \* events whose code is not in EVENT_TYPE_MAP
          Handlers,      \* requests the API handles at a time
          Pollers,       \* runs of polling_fallback at a time
          NonceTTL,      \* expiry of a nonce (five minutes), in ticks
          Window,        \* how far back a poll asks (15 minutes)
          SeenTTL,       \* expiry of the set of seen orders (30 minutes)
          MaxDeliveries, \* bound: deliveries of webhooks
          MaxPolls,      \* bound: polls
          MaxTicks,      \* bound: ticks of the clock
          MaxFaults      \* bound: crashes, outages of Redis, failed commits, lost answers

ASSUME EventIngestAssumption ==
    /\ Events \subseteq Nat
    /\ OrderOf \in [Events -> Orders]
    /\ Unknown \subseteq Events
    /\ Handlers \intersect Pollers = {}
    /\ {NonceTTL, Window, SeenTTL} \subseteq Nat \ {0} /\ Window < SeenTTL
    /\ {MaxDeliveries, MaxPolls, MaxTicks, MaxFaults} \subseteq Nat

VARIABLES happened,   \* the events that have happened
          age,        \* ticks since then, up to Window + 1
          log,        \* signatures with a valid row in webhook_event_log
          nonce,      \* ticks until the nonce of each signature expires
          pc,         \* what each handler and poller does next
          event,      \* the events of the request a handler works on, or of the page polled
          todo,       \* orders of its page a poller has not looked at yet
          adding,     \* orders it has added rows for and not committed
          seen,       \* polling_fallback:shopee:seen
          seenFor,    \* ticks until that key expires; SeenTTL + 1: it has no expiry
          redisUp,
          now,        \* ticks so far
          deliveries, \* how much of each bound is used up
          polls,
          faults,
          acked,      \* history: the webhook of the event has been answered
          rows,       \* history: outbox rows inserted for the webhook
          seeds,      \* history: rows a poll inserted for the latest event of its order
          excused,    \* history: why the event may have been inserted again
          lapsed      \* history: the set of seen orders expired in the middle of a poll

eventVars   == <<happened, age, now>>
requestVars == <<pc, event, todo, adding>>
redisVars   == <<nonce, seen, seenFor, redisUp>>
boundVars   == <<deliveries, polls, faults>>
historyVars == <<acked, rows, seeds, excused, lapsed>>
vars == <<eventVars, log, requestVars, redisVars, boundVars, historyVars>>

Processes == Handlers \union Pollers
Places    == {"idle", "check", "insert", "mark", "reply", "add", "commit", "expire"}
Polling   == {"add", "commit", "expire"}
Flags     == [Events -> BOOLEAN]

TypeOK ==
    /\ happened \in SUBSET Events
    /\ age \in [Events -> 0 .. Window + 1]
    /\ log \in SUBSET happened
    /\ nonce \in [Events -> 0 .. NonceTTL]
    /\ pc \in [Processes -> Places]
    /\ event \in [Processes -> SUBSET happened]
    /\ todo \in [Pollers -> SUBSET Orders]
    /\ adding \in [Pollers -> SUBSET Orders]
    /\ seen \in SUBSET Orders
    /\ seenFor \in 0 .. SeenTTL + 1 /\ (seen = {} <=> seenFor = 0)
    /\ redisUp \in BOOLEAN
    /\ now \in 0 .. MaxTicks
    /\ deliveries \in 0 .. MaxDeliveries
    /\ polls \in 0 .. MaxPolls
    /\ faults \in 0 .. MaxFaults
    /\ {rows, seeds} \subseteq [Events -> Nat]
    /\ {acked, excused} \subseteq Flags
    /\ lapsed \in BOOLEAN

Init ==
    /\ happened = {} /\ age = [e \in Events |-> 0]
    /\ log = {} /\ nonce = [e \in Events |-> 0]
    /\ pc = [p \in Processes |-> "idle"]
    /\ event = [p \in Processes |-> {}]
    /\ todo = [p \in Pollers |-> {}]
    /\ adding = [p \in Pollers |-> {}]
    /\ seen = {} /\ seenFor = 0 /\ redisUp = TRUE
    /\ now = 0 /\ deliveries = 0 /\ polls = 0 /\ faults = 0
    /\ rows = [e \in Events |-> 0]
    /\ seeds = [e \in Events |-> 0]
    /\ acked = [e \in Events |-> FALSE]
    /\ excused = [e \in Events |-> FALSE]
    /\ lapsed = FALSE

Fault == faults < MaxFaults /\ faults' = faults + 1

Move(p, place) ==
    /\ pc' = [pc EXCEPT ![p] = place]
    /\ UNCHANGED <<event, todo, adding>>

Stop(p) ==
    /\ pc' = [pc EXCEPT ![p] = "idle"]
    /\ event' = [event EXCEPT ![p] = {}]
    /\ todo' = [q \in Pollers |-> IF q = p THEN {} ELSE todo[q]]
    /\ adding' = [q \in Pollers |-> IF q = p THEN {} ELSE adding[q]]

(* The event a handler works on. *)
EventOf(h) == CHOOSE e \in event[h] : TRUE

Latest(e) == \A f \in happened : OrderOf[f] = OrderOf[e] => f <= e

----------------------------------------------------------------------------
(* The webhook *)

(* The platform delivers a webhook, again if it was not answered in time. *)
Receive(h, e) ==
    /\ pc[h] = "idle"
    /\ e \in happened
    /\ deliveries < MaxDeliveries
    /\ deliveries' = deliveries + 1
    /\ pc' = [pc EXCEPT ![h] = "check"]
    /\ event' = [event EXCEPT ![h] = {e}]
    /\ excused' = [excused EXCEPT ![e] = @ \/ \E g \in Handlers : e \in event[g]]
    /\ UNCHANGED <<todo, adding, eventVars, log, redisVars, polls, faults,
                   acked, rows, seeds, lapsed>>

(* A bug: without Redis every event counts as new. *)
IsReplayFailingOpen(e) == redisUp /\ nonce[e] > 0

(* _is_replay: the nonce, or the event log when Redis is down. *)
IsReplay(e) == IF redisUp THEN nonce[e] > 0 ELSE e \in log

(* A bug: the check is a SET NX of the nonce. *)
CheckMarking(h) ==
    /\ pc[h] = "check"
    /\ LET e == EventOf(h) IN
        /\ Move(h, IF IsReplay(e) THEN "reply" ELSE "insert")
        /\ nonce' = IF redisUp THEN [nonce EXCEPT ![e] = NonceTTL] ELSE nonce
    /\ UNCHANGED <<eventVars, log, seen, seenFor, redisUp, boundVars, historyVars>>

Check(h) ==
    /\ pc[h] = "check"
    /\ Move(h, IF IsReplay(EventOf(h)) THEN "reply" ELSE "insert")
    /\ UNCHANGED <<eventVars, log, redisVars, boundVars, historyVars>>

(* One commit: the event log, and the outbox row of a known event. *)
Insert(h) ==
    /\ pc[h] = "insert"
    /\ LET e == EventOf(h)
       IN  /\ log' = log \union {e}
           /\ rows' = [rows EXCEPT ![e] = IF e \in Unknown THEN @ ELSE @ + 1]
    /\ Move(h, "mark")
    /\ UNCHANGED <<eventVars, redisVars, boundVars, acked, seeds, excused, lapsed>>

(* The commit fails: the request is answered with an error. *)
InsertFails(h) ==
    /\ pc[h] = "insert"
    /\ Fault
    /\ Stop(h)
    /\ UNCHANGED <<eventVars, log, redisVars, deliveries, polls, historyVars>>

(* _mark_processed *)
Mark(h) ==
    /\ pc[h] = "mark"
    /\ Move(h, "reply")
    /\ LET e == EventOf(h) IN
        /\ nonce' = IF redisUp THEN [nonce EXCEPT ![e] = NonceTTL] ELSE nonce
        /\ excused' = [excused EXCEPT ![e] = @ \/ ~redisUp]
    /\ UNCHANGED <<eventVars, log, seen, seenFor, redisUp, boundVars,
                   acked, rows, seeds, lapsed>>

(* The answer reaches the platform, or not. *)
Reply(h) ==
    /\ pc[h] = "reply"
    /\ Stop(h)
    /\ \/ acked' = [acked EXCEPT ![EventOf(h)] = TRUE] /\ UNCHANGED faults
       \/ Fault /\ UNCHANGED acked
    /\ UNCHANGED <<eventVars, log, redisVars, deliveries, polls,
                   rows, seeds, excused, lapsed>>

HandlerCrash(h) ==
    /\ pc[h] # "idle"
    /\ Fault
    /\ Stop(h)
    /\ excused' = [excused EXCEPT ![EventOf(h)] = @ \/ pc[h] = "mark"]
    /\ UNCHANGED <<eventVars, log, redisVars, deliveries, polls,
                   acked, rows, seeds, lapsed>>

----------------------------------------------------------------------------
(* polling_fallback *)

(* The orders changed in the last fifteen minutes; none ends the run. *)
List(p) ==
    /\ pc[p] = "idle"
    /\ polls < MaxPolls
    /\ polls' = polls + 1
    /\ LET page == {e \in happened : age[e] <= Window} IN
        /\ page # {}
        /\ event' = [event EXCEPT ![p] = page]
        /\ todo' = [todo EXCEPT ![p] = {OrderOf[e] : e \in page}]
    /\ pc' = [pc EXCEPT ![p] = "add"]
    /\ UNCHANGED <<adding, eventVars, log, redisVars, deliveries, faults, historyVars>>

(* A bug: the answer of SADD is not looked at. *)
AddAlways(p, o) ==
    /\ pc[p] = "add" /\ redisUp
    /\ o \in todo[p]
    /\ todo' = [todo EXCEPT ![p] = @ \ {o}]
    /\ adding' = [adding EXCEPT ![p] = @ \union {o}]
    /\ seen' = seen \union {o}
    /\ seenFor' = IF seen = {} THEN SeenTTL + 1 ELSE seenFor
    /\ UNCHANGED <<pc, event, eventVars, log, nonce, redisUp, boundVars, historyVars>>

(* SADD, and a row in the session for an order the set did not have.  A    *)
(* command that creates a key gives it no expiry.                          *)
Add(p, o) ==
    /\ pc[p] = "add" /\ redisUp
    /\ o \in todo[p]
    /\ todo' = [todo EXCEPT ![p] = @ \ {o}]
    /\ adding' = [adding EXCEPT ![p] = IF o \in seen THEN @ ELSE @ \union {o}]
    /\ seen' = seen \union {o}
    /\ seenFor' = IF seen = {} THEN SeenTTL + 1 ELSE seenFor
    /\ UNCHANGED <<pc, event, eventVars, log, nonce, redisUp, boundVars, historyVars>>

AllAdded(p) ==
    /\ pc[p] = "add"
    /\ todo[p] = {}
    /\ Move(p, "commit")
    /\ UNCHANGED <<eventVars, log, redisVars, boundVars, historyVars>>

Commit(p) ==
    /\ pc[p] = "commit"
    /\ Move(p, "expire")
    /\ seeds' = [e \in Events |->
          IF e \in happened /\ Latest(e) /\ OrderOf[e] \in adding[p] THEN seeds[e] + 1 ELSE seeds[e]]
    /\ UNCHANGED <<eventVars, log, redisVars, boundVars, acked, rows, excused, lapsed>>

(* A bug: the key is taken to exist still. *)
ExpireMissing(p) ==
    /\ pc[p] = "expire" /\ redisUp
    /\ seenFor' = SeenTTL
    /\ Stop(p)
    /\ UNCHANGED <<eventVars, log, nonce, seen, redisUp, boundVars, historyVars>>

(* EXPIRE renews the expiry of the whole set. *)
Expire(p) ==
    /\ pc[p] = "expire" /\ redisUp
    /\ seenFor' = IF seen = {} THEN 0 ELSE SeenTTL
    /\ Stop(p)
    /\ UNCHANGED <<eventVars, log, nonce, seen, redisUp, boundVars, historyVars>>

(* A command to Redis raises, the commit fails, or the worker is lost: the *)
(* rows of the session are gone, the members of the set are not.           *)
PollFails(p) ==
    /\ pc[p] # "idle"
    /\ \/ Fault
       \/ pc[p] \in {"add", "expire"} /\ ~redisUp /\ UNCHANGED faults
    /\ Stop(p)
    /\ lapsed' = (lapsed \/ pc[p] = "expire")
    /\ UNCHANGED <<eventVars, log, redisVars, deliveries, polls,
                   acked, rows, seeds, excused>>

----------------------------------------------------------------------------
(* The environment *)

Happen(e) ==
    /\ e \notin happened
    /\ \A f \in Events : f < e => f \in happened
    /\ happened' = happened \union {e}
    /\ UNCHANGED <<age, now, log, requestVars, redisVars, boundVars, historyVars>>

RedisChanges ==
    /\ \/ redisUp /\ Fault
       \/ ~redisUp /\ UNCHANGED faults
    /\ redisUp' = ~redisUp
    /\ UNCHANGED <<eventVars, log, requestVars, nonce, seen, seenFor, deliveries, polls, historyVars>>

Less(n) == IF n = 0 THEN 0 ELSE n - 1

Tick ==
    /\ now < MaxTicks
    /\ now' = now + 1
    /\ age' = [e \in Events |-> IF e \in happened /\ age[e] <= Window THEN age[e] + 1 ELSE age[e]]
    /\ nonce' = [e \in Events |-> Less(nonce[e])]
    /\ excused' = [e \in Events |-> excused[e] \/ nonce[e] = 1]
    /\ seenFor' = IF seenFor = SeenTTL + 1 THEN seenFor ELSE Less(seenFor)
    /\ seen' = IF seenFor = 1 THEN {} ELSE seen
    /\ lapsed' = (lapsed \/ (seenFor = 1 /\ \E p \in Pollers : pc[p] \in Polling))
    /\ UNCHANGED <<happened, log, requestVars, redisUp, boundVars, acked, rows, seeds>>

----------------------------------------------------------------------------
Handle(h) == Check(h) \/ Insert(h) \/ InsertFails(h) \/ Mark(h) \/ Reply(h) \/ HandlerCrash(h)

Poll(p) ==
    \/ List(p) \/ AllAdded(p) \/ Commit(p) \/ Expire(p) \/ PollFails(p)
    \/ \E o \in Orders : Add(p, o)

Next ==
    \/ \E h \in Handlers : Handle(h) \/ \E e \in Events : Receive(h, e)
    \/ \E p \in Pollers : Poll(p)
    \/ \E e \in Events : Happen(e)
    \/ RedisChanges \/ Tick

Spec == Init /\ [][Next]_vars

----------------------------------------------------------------------------
(* Properties *)

(* No silent loss: a webhook that was answered, even as a replay, has its  *)
(* row in the outbox (and its line in the log, if it has no consumer),     *)
(* whatever crashed or was down in between.                                *)
AckedIsStored ==
    \A e \in Events : acked[e] => e \in log /\ (e \notin Unknown => rows[e] > 0)

(* A webhook is inserted twice only for a reason the code accepts: two     *)
(* deliveries at a time, a crash or an outage between commit and mark, or  *)
(* a delivery after the nonce expired.  An outage of Redis when the        *)
(* webhook is checked is no reason: the event log takes over.              *)
InsertedOnce == \A e \in Events : ~excused[e] => rows[e] <= 1

(* The overlap of polls, or two polls at a time, do not seed an order      *)
(* twice for one change (scheduled.py:127-130), unless the set expires     *)
(* while a poll is between its SADD and its EXPIRE, or a poll never came   *)
(* to its EXPIRE.                                                          *)
SeededOnce == ~lapsed => \A e \in Events : seeds[e] <= 1
=============================================================================
