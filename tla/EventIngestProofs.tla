-------------------------- MODULE EventIngestProofs --------------------------
(***************************************************************************)
(* TLAPS proofs about the webhook of EventIngest, for any events, handlers *)
(* and pollers, any expiry of the nonce and any value of the bounds.       *)
(***************************************************************************)
EXTENDS EventIngest, TLAPS

(* A handler that is not idle works on the one event of its request. *)
Shape ==
    \A h \in Handlers :
        /\ pc[h] \in {"idle", "check", "insert", "mark", "reply"}
        /\ pc[h] # "idle" => \E e \in happened : event[h] = {e}
        /\ pc[h] = "idle" => event[h] = {}

TInv == TypeOK /\ Shape

(* The event of a busy handler. *)
LEMMA EventOfHandler ==
    ASSUME TypeOK, Shape, NEW h \in Handlers, pc[h] # "idle"
    PROVE  EventOf(h) \in Events /\ EventOf(h) \in happened /\ event[h] = {EventOf(h)}
<1>1. PICK e \in happened : event[h] = {e}
  BY DEF Shape
<1>2. EventOf(h) = e
  BY <1>1 DEF EventOf
<1> QED
  BY <1>1, <1>2 DEF TypeOK

(* Nothing is inserted, marked or polled before the first event. *)
LEMMA TypeInit == Init => TInv
<1> SUFFICES ASSUME Init PROVE TypeOK /\ Shape
  BY DEF TInv
<1>1. TypeOK
  <2>1. /\ NonceTTL \in Nat /\ Window \in Nat /\ SeenTTL \in Nat /\ MaxDeliveries \in Nat
        /\ MaxPolls \in Nat /\ MaxTicks \in Nat /\ MaxFaults \in Nat
    BY EventIngestAssumption
  <2>2. /\ {rows, seeds} \subseteq [Events -> Nat]
        /\ {acked, excused} \subseteq Flags
    BY DEF Init, Flags
  <2>3. /\ age \in [Events -> 0 .. Window + 1] /\ nonce \in [Events -> 0 .. NonceTTL]
        /\ seenFor \in 0 .. SeenTTL + 1 /\ (seen = {} <=> seenFor = 0)
        /\ now \in 0 .. MaxTicks /\ deliveries \in 0 .. MaxDeliveries
        /\ polls \in 0 .. MaxPolls /\ faults \in 0 .. MaxFaults
    BY <2>1 DEF Init
  <2>4. /\ pc \in [Processes -> Places] /\ event \in [Processes -> SUBSET happened]
        /\ todo \in [Pollers -> SUBSET Orders] /\ adding \in [Pollers -> SUBSET Orders]
    BY DEF Init, Places
  <2> QED
    BY <2>2, <2>3, <2>4 DEF Init, TypeOK
<1>2. Shape
  BY DEF Init, Shape, Processes
<1> QED
  BY <1>1, <1>2

(* A process that moves on or stops keeps the types of the requests. *)
RequestTypes ==
    /\ pc \in [Processes -> Places]
    /\ event \in [Processes -> SUBSET happened]
    /\ todo \in [Pollers -> SUBSET Orders]
    /\ adding \in [Pollers -> SUBSET Orders]

(* A process that only moves keeps the types of the variables of requests. *)
LEMMA MoveType ==
    ASSUME TypeOK, Shape, NEW p \in Processes, NEW place \in Places, Move(p, place),
           UNCHANGED happened,
           p \in Handlers => /\ pc[p] # "idle"
                             /\ place \in {"check", "insert", "mark", "reply"}
    PROVE  RequestTypes' /\ Shape'
<1>1. RequestTypes'
  BY DEF TypeOK, RequestTypes, Move
<1>2. Shape'
  BY DEF TypeOK, Shape, Move
<1> QED
  BY <1>1, <1>2

(* A process that ends keeps the types of the variables of requests. *)
LEMMA StopType ==
    ASSUME TypeOK, Shape, NEW p \in Processes, Stop(p), UNCHANGED happened
    PROVE  RequestTypes' /\ Shape'
<1>1. RequestTypes'
  BY DEF TypeOK, RequestTypes, Stop, Places
<1>2. Shape'
  BY DEF TypeOK, Shape, Stop, Processes
<1> QED
  BY <1>1, <1>2

(* Every step keeps the types and the shape of the handlers. *)
LEMMA TypeStep == TInv /\ [Next]_vars => TInv'
<1> SUFFICES ASSUME TypeOK, Shape, [Next]_vars PROVE TypeOK' /\ Shape'
  BY DEF TInv
<1> USE EventIngestAssumption
    DEF eventVars, requestVars, redisVars, boundVars, historyVars
<1>0. /\ Handlers \subseteq Processes /\ Pollers \subseteq Processes
      /\ {"check", "insert", "mark", "reply", "add", "commit", "expire"} \subseteq Places
  BY DEF Processes, Places
<1>1. ASSUME NEW h \in Handlers, NEW e \in Events, Receive(h, e) PROVE TypeOK' /\ Shape'
  <2>1. Shape'
    BY <1>0, <1>1 DEF TypeOK, Shape, Receive
  <2>2. /\ deliveries' \in 0 .. MaxDeliveries
        /\ excused' \in Flags
    BY <1>1 DEF TypeOK, Receive, Flags
  <2>3. /\ pc' \in [Processes -> Places]
        /\ event' \in [Processes -> SUBSET happened]
    BY <1>0, <1>1 DEF TypeOK, Receive
  <2> QED
    BY <1>1, <2>1, <2>2, <2>3 DEF TypeOK, Receive
<1>2. ASSUME NEW h \in Handlers, Check(h) PROVE TypeOK' /\ Shape'
  <2>1. RequestTypes' /\ Shape'
    <3>1. CASE IsReplay(EventOf(h))
      BY <1>0, <1>2, <3>1, MoveType DEF Check
    <3>2. CASE ~IsReplay(EventOf(h))
      BY <1>0, <1>2, <3>2, MoveType DEF Check
    <3> QED
      BY <3>1, <3>2
  <2> QED
    BY <1>2, <2>1 DEF TypeOK, RequestTypes, Check
<1>3. ASSUME NEW h \in Handlers, Insert(h) PROVE TypeOK' /\ Shape'
  <2>1. EventOf(h) \in Events /\ EventOf(h) \in happened
    BY <1>3, EventOfHandler DEF Insert
  <2>2. RequestTypes' /\ Shape'
    BY <1>0, <1>3, MoveType DEF Insert
  <2>3. /\ log' \in SUBSET happened /\ rows' \in [Events -> Nat]
    BY <1>3, <2>1 DEF TypeOK, Insert
  <2> QED
    BY <1>3, <2>2, <2>3 DEF TypeOK, RequestTypes, Insert
<1>4. ASSUME NEW h \in Handlers, InsertFails(h) PROVE TypeOK' /\ Shape'
  <2>1. RequestTypes' /\ Shape'
    BY <1>0, <1>4, StopType DEF InsertFails
  <2> QED
    BY <1>4, <2>1 DEF TypeOK, RequestTypes, InsertFails, Fault
<1>5. ASSUME NEW h \in Handlers, Mark(h) PROVE TypeOK' /\ Shape'
  <2>1. EventOf(h) \in Events
    BY <1>5, EventOfHandler DEF Mark
  <2>2. RequestTypes' /\ Shape'
    BY <1>0, <1>5, MoveType DEF Mark
  <2>3. nonce' \in [Events -> 0 .. NonceTTL] /\ excused' \in Flags
    BY <1>5, <2>1 DEF TypeOK, Mark, Flags
  <2> QED
    BY <1>5, <2>2, <2>3 DEF TypeOK, RequestTypes, Mark
<1>6. ASSUME NEW h \in Handlers, Reply(h) PROVE TypeOK' /\ Shape'
  <2>1. EventOf(h) \in Events
    BY <1>6, EventOfHandler DEF Reply
  <2>2. RequestTypes' /\ Shape'
    BY <1>0, <1>6, StopType DEF Reply
  <2>3. acked' \in Flags
    BY <1>6, <2>1 DEF TypeOK, Reply, Flags
  <2>4. faults' \in 0 .. MaxFaults
    BY <1>6 DEF TypeOK, Reply, Fault
  <2> QED
    BY <1>6, <2>2, <2>3, <2>4 DEF TypeOK, RequestTypes, Reply
<1>7. ASSUME NEW h \in Handlers, HandlerCrash(h) PROVE TypeOK' /\ Shape'
  <2>1. EventOf(h) \in Events
    BY <1>7, EventOfHandler DEF HandlerCrash
  <2>2. RequestTypes' /\ Shape'
    BY <1>0, <1>7, StopType DEF HandlerCrash
  <2>3. excused' \in Flags /\ faults' \in 0 .. MaxFaults
    BY <1>7, <2>1 DEF TypeOK, HandlerCrash, Fault, Flags
  <2> QED
    BY <1>7, <2>2, <2>3 DEF TypeOK, RequestTypes, HandlerCrash
<1>8. ASSUME NEW p \in Pollers, List(p) PROVE TypeOK' /\ Shape'
  <2>1. polls' \in 0 .. MaxPolls
    BY <1>8 DEF TypeOK, List
  <2>2. pc' \in [Processes -> Places] /\ event' \in [Processes -> SUBSET happened]
    BY <1>0, <1>8 DEF TypeOK, List
  <2>3. todo' \in [Pollers -> SUBSET Orders]
    <3>1. {OrderOf[e] : e \in {f \in happened : age[f] <= Window}} \subseteq Orders
      BY DEF TypeOK
    <3> QED
      BY <1>8, <3>1 DEF TypeOK, List
  <2>4. Shape'
    BY <1>0, <1>8 DEF TypeOK, Shape, List
  <2> QED
    BY <1>8, <2>1, <2>2, <2>3, <2>4 DEF TypeOK, List
<1>9. ASSUME NEW p \in Pollers, NEW o \in Orders, Add(p, o) PROVE TypeOK' /\ Shape'
  <2>1. todo' \in [Pollers -> SUBSET Orders] /\ adding' \in [Pollers -> SUBSET Orders]
    BY <1>9 DEF TypeOK, Add
  <2>2. /\ seen' \in SUBSET Orders
        /\ seenFor' \in 0 .. SeenTTL + 1 /\ (seen' = {} <=> seenFor' = 0)
    BY <1>9 DEF TypeOK, Add
  <2> QED
    BY <1>9, <2>1, <2>2 DEF TypeOK, Shape, Add
<1>10. ASSUME NEW p \in Pollers, AllAdded(p) PROVE TypeOK' /\ Shape'
  <2>1. RequestTypes' /\ Shape'
    BY <1>0, <1>10, MoveType DEF AllAdded
  <2> QED
    BY <1>10, <2>1 DEF TypeOK, RequestTypes, AllAdded
<1>11. ASSUME NEW p \in Pollers, Commit(p) PROVE TypeOK' /\ Shape'
  <2>1. RequestTypes' /\ Shape'
    BY <1>0, <1>11, MoveType DEF Commit
  <2>2. seeds' \in [Events -> Nat]
    BY <1>11 DEF TypeOK, Commit
  <2> QED
    BY <1>11, <2>1, <2>2 DEF TypeOK, RequestTypes, Commit
<1>12. ASSUME NEW p \in Pollers, Expire(p) PROVE TypeOK' /\ Shape'
  <2>1. RequestTypes' /\ Shape'
    BY <1>0, <1>12, StopType DEF Expire
  <2>2. seenFor' \in 0 .. SeenTTL + 1 /\ (seen' = {} <=> seenFor' = 0)
    BY <1>12 DEF TypeOK, Expire
  <2> QED
    BY <1>12, <2>1, <2>2 DEF TypeOK, RequestTypes, Expire
<1>13. ASSUME NEW p \in Pollers, PollFails(p) PROVE TypeOK' /\ Shape'
  <2>1. RequestTypes' /\ Shape'
    BY <1>0, <1>13, StopType DEF PollFails
  <2> QED
    BY <1>13, <2>1 DEF TypeOK, RequestTypes, PollFails, Fault
<1>14. ASSUME NEW e \in Events, Happen(e) PROVE TypeOK' /\ Shape'
  <2>1. happened \subseteq happened' /\ happened' \subseteq Events
    BY <1>14 DEF TypeOK, Happen
  <2>2. Shape'
    BY <1>14, <2>1 DEF Shape, Happen
  <2>3. event' \in [Processes -> SUBSET happened']
    BY <1>14, <2>1 DEF TypeOK, Happen
  <2> QED
    BY <1>14, <2>1, <2>2, <2>3 DEF TypeOK, Happen
<1>15. ASSUME RedisChanges PROVE TypeOK' /\ Shape'
  BY <1>15 DEF TypeOK, Shape, RedisChanges, Fault
<1>16. ASSUME Tick PROVE TypeOK' /\ Shape'
  <2>1. now' \in 0 .. MaxTicks /\ age' \in [Events -> 0 .. Window + 1]
    BY <1>16 DEF TypeOK, Tick
  <2>2. nonce' \in [Events -> 0 .. NonceTTL]
    BY <1>16 DEF TypeOK, Tick, Less
  <2>3. /\ seen' \in SUBSET Orders
        /\ seenFor' \in 0 .. SeenTTL + 1 /\ (seen' = {} <=> seenFor' = 0)
    BY <1>16 DEF TypeOK, Tick, Less
  <2>4. excused' \in Flags /\ lapsed' \in BOOLEAN
    BY <1>16 DEF TypeOK, Tick, Flags
  <2> QED
    BY <1>16, <2>1, <2>2, <2>3, <2>4 DEF TypeOK, Shape, Tick
<1>17. CASE UNCHANGED vars
  BY <1>17 DEF TypeOK, Shape, vars
<1> QED
  BY <1>1, <1>2, <1>3, <1>4, <1>5, <1>6, <1>7, <1>8, <1>9, <1>10, <1>11, <1>12, <1>13,
     <1>14, <1>15, <1>16, <1>17 DEF Next, Handle, Poll

(* The types and the shape hold in every state. *)
LEMMA TypeKept == Spec => []TInv
<1> QED
  BY TypeInit, TypeStep, PTL DEF Spec

(* Type correctness of the webhook, the poll, Redis and the history.  *)
THEOREM TypeCorrect == Spec => []TypeOK
<1>1. TInv => TypeOK
  BY DEF TInv
<1> QED
  BY <1>1, TypeKept, PTL

----------------------------------------------------------------------------
(* What is in the log has its row, and whatever can make the service       *)
(* answer, the log, a nonce or a handler past its commit, is in the log.   *)
StoredInv ==
    \A e \in Events :
        /\ e \in log /\ e \notin Unknown => rows[e] > 0
        /\ nonce[e] > 0 => e \in log
        /\ acked[e] => e \in log
        /\ \A h \in Handlers : pc[h] \in {"mark", "reply"} /\ e \in event[h] => e \in log

(* Every step keeps what handlers answer for in the log and the outbox. *)
LEMMA StoredStep == TInv /\ TInv' /\ StoredInv /\ [Next]_vars => StoredInv'
<1> SUFFICES ASSUME TypeOK, Shape, TypeOK', StoredInv, [Next]_vars PROVE StoredInv'
  BY DEF TInv
<1> USE EventIngestAssumption
    DEF eventVars, requestVars, redisVars, boundVars, historyVars
<1>0. Handlers \subseteq Processes /\ Pollers \subseteq Processes
  BY DEF Processes
<1>1. ASSUME NEW h \in Handlers, NEW e \in Events, Receive(h, e) PROVE StoredInv'
  BY <1>0, <1>1 DEF TypeOK, StoredInv, Receive
<1>2. ASSUME NEW h \in Handlers, Check(h) PROVE StoredInv'
  <2> DEFINE e == EventOf(h)
  <2>1. e \in Events /\ event[h] = {e}
    BY <1>2, EventOfHandler DEF Check
  <2>2. IsReplay(e) => e \in log
    BY <2>1 DEF StoredInv, IsReplay
  <2>3. /\ pc' = [pc EXCEPT ![h] = IF IsReplay(e) THEN "reply" ELSE "insert"]
        /\ UNCHANGED <<event, log, rows, nonce, acked>>
    BY <1>2 DEF Check, Move
  <2> HIDE DEF e
  <2> QED
    BY <1>0, <2>1, <2>2, <2>3 DEF TypeOK, StoredInv
<1>3. ASSUME NEW h \in Handlers, Insert(h) PROVE StoredInv'
  <2> DEFINE e == EventOf(h)
  <2>1. e \in Events /\ event[h] = {e}
    BY <1>3, EventOfHandler DEF Insert
  <2>2. /\ log' = log \union {e}
        /\ rows' = [rows EXCEPT ![e] = IF e \in Unknown THEN @ ELSE @ + 1]
        /\ pc' = [pc EXCEPT ![h] = "mark"]
        /\ UNCHANGED <<event, nonce, acked>>
    BY <1>3 DEF Insert, Move
  <2>3. rows \in [Events -> Nat] /\ pc \in [Processes -> Places]
    BY DEF TypeOK
  <2> HIDE DEF e
  <2>4. ASSUME NEW f \in Events, f # e
        PROVE  rows'[f] = rows[f] /\ (f \in log' <=> f \in log)
    BY <2>1, <2>2, <2>3, <2>4
  <2>5. e \notin Unknown => rows'[e] > 0
    <3>1. rows'[e] = IF e \in Unknown THEN rows[e] ELSE rows[e] + 1
      BY <2>1, <2>2, <2>3
    <3>2. rows[e] \in Nat
      BY <2>1, <2>3
    <3> QED
      BY <3>1, <3>2
  <2>6. \A g \in Handlers : pc'[g] = pc[g] \/ g = h
    BY <1>0, <2>2, <2>3
  <2> QED
    BY <1>0, <2>1, <2>2, <2>4, <2>5, <2>6 DEF StoredInv
<1>4. ASSUME NEW h \in Handlers, InsertFails(h) PROVE StoredInv'
  BY <1>0, <1>4 DEF TypeOK, StoredInv, InsertFails, Stop
<1>5. ASSUME NEW h \in Handlers, Mark(h) PROVE StoredInv'
  <2> DEFINE e == EventOf(h)
  <2>1. e \in Events /\ event[h] = {e} /\ e \in log
    BY <1>5, EventOfHandler DEF Mark, StoredInv
  <2>2. /\ nonce' = IF redisUp THEN [nonce EXCEPT ![e] = NonceTTL] ELSE nonce
        /\ pc' = [pc EXCEPT ![h] = "reply"]
        /\ UNCHANGED <<event, log, rows, acked>>
    BY <1>5 DEF Mark, Move
  <2> HIDE DEF e
  <2> QED
    BY <1>0, <2>1, <2>2 DEF TypeOK, StoredInv
<1>6. ASSUME NEW h \in Handlers, Reply(h) PROVE StoredInv'
  <2> DEFINE e == EventOf(h)
  <2>1. e \in Events /\ event[h] = {e} /\ e \in log
    BY <1>6, EventOfHandler DEF Reply, StoredInv
  <2>2. /\ acked' = [acked EXCEPT ![e] = TRUE] \/ UNCHANGED acked
        /\ pc' = [pc EXCEPT ![h] = "idle"]
        /\ event' = [event EXCEPT ![h] = {}]
        /\ UNCHANGED <<log, nonce, rows>>
    BY <1>6 DEF Reply, Stop
  <2>3. acked \in [Events -> BOOLEAN]
    BY DEF TypeOK, Flags
  <2> HIDE DEF e
  <2> QED
    BY <1>0, <2>1, <2>2, <2>3 DEF TypeOK, StoredInv
<1>7. ASSUME NEW h \in Handlers, HandlerCrash(h) PROVE StoredInv'
  BY <1>0, <1>7 DEF TypeOK, StoredInv, HandlerCrash, Stop
<1>8. ASSUME NEW p \in Pollers, Poll(p) PROVE StoredInv'
  <2>1. /\ UNCHANGED <<log, nonce, acked, rows>>
        /\ \A h \in Handlers : pc'[h] = pc[h] /\ event'[h] = event[h]
    BY <1>0, <1>8
    DEF TypeOK, Poll, List, Add, AllAdded, Commit, Expire, PollFails, Move, Stop
  <2> QED
    BY <2>1 DEF StoredInv
<1>9. ASSUME NEW e \in Events, Happen(e) PROVE StoredInv'
  BY <1>9 DEF StoredInv, Happen
<1>10. ASSUME RedisChanges PROVE StoredInv'
  BY <1>10 DEF StoredInv, RedisChanges
<1>11. ASSUME Tick PROVE StoredInv'
  <2>1. \A e \in Events : nonce'[e] > 0 => nonce[e] > 0
    BY <1>11 DEF TypeOK, Tick, Less
  <2> QED
    BY <1>11, <2>1 DEF StoredInv, Tick
<1>12. CASE UNCHANGED vars
  BY <1>12 DEF StoredInv, vars
<1> QED
  BY <1>1, <1>2, <1>3, <1>4, <1>5, <1>6, <1>7, <1>8, <1>9, <1>10, <1>11, <1>12
  DEF Next, Handle

(* No silent loss: whatever crashes, whatever fails and however often      *)
(* Redis is down, an answered webhook has its row in the outbox.           *)
THEOREM AnsweredIsStored == Spec => []AckedIsStored
<1>1. Init => StoredInv
  BY DEF Init, StoredInv, Processes
<1>2. StoredInv => AckedIsStored
  BY DEF StoredInv, AckedIsStored
<1> QED
  BY <1>1, <1>2, TypeKept, StoredStep, PTL DEF Spec

----------------------------------------------------------------------------
(* An event without an excuse is in the hands of at most one handler, and  *)
(* once it is in the log a check would find it: by its nonce, unless the   *)
(* handler that inserted it has not marked it yet, or by the log.          *)
OnceInv ==
    \A e \in Events : ~excused[e] =>
        /\ rows[e] <= 1
        /\ e \notin log => rows[e] = 0
        /\ \A g, h \in Handlers : e \in event[g] /\ e \in event[h] => g = h
        /\ \A h \in Handlers : pc[h] = "insert" /\ e \in event[h] => e \notin log
        /\ e \in log => nonce[e] > 0 \/ \E h \in Handlers : pc[h] = "mark" /\ e \in event[h]

(* Every step keeps an event that has no excuse from being inserted again. *)
LEMMA OnceStep == TInv /\ TInv' /\ OnceInv /\ [Next]_vars => OnceInv'
<1> SUFFICES ASSUME TypeOK, Shape, TypeOK', OnceInv, [Next]_vars PROVE OnceInv'
  BY DEF TInv
<1> USE EventIngestAssumption
    DEF eventVars, requestVars, redisVars, boundVars, historyVars
<1>0. /\ Handlers \subseteq Processes /\ Pollers \subseteq Processes
      /\ nonce \in [Events -> 0 .. NonceTTL] /\ rows \in [Events -> Nat]
      /\ excused \in [Events -> BOOLEAN] /\ NonceTTL > 0
      /\ pc \in [Processes -> Places] /\ event \in [Processes -> SUBSET happened]
  BY DEF Processes, TypeOK, Flags
<1>1. ASSUME NEW h \in Handlers, NEW e \in Events, Receive(h, e) PROVE OnceInv'
  <2>1. /\ pc[h] = "idle" /\ pc' = [pc EXCEPT ![h] = "check"]
        /\ event' = [event EXCEPT ![h] = {e}]
        /\ excused' = [excused EXCEPT ![e] = @ \/ \E g \in Handlers : e \in event[g]]
        /\ UNCHANGED <<log, nonce, rows>>
    BY <1>1 DEF Receive
  <2>2. event[h] = {}
    BY <2>1 DEF Shape
  <2>3. \A g \in Handlers, f \in Events :
           f \in event'[g] <=> f \in event[g] \/ (g = h /\ f = e)
    BY <1>0, <2>1, <2>2
  <2>4. /\ \A f \in Events : ~excused'[f] => ~excused[f]
        /\ ~excused'[e] => \A g \in Handlers : e \notin event[g]
    BY <1>0, <2>1
  <2>5. \A g \in Handlers : pc'[g] = IF g = h THEN "check" ELSE pc[g]
    BY <1>0, <2>1
  <2> QED
    BY <2>1, <2>3, <2>4, <2>5 DEF OnceInv
<1>2. ASSUME NEW h \in Handlers, Check(h) PROVE OnceInv'
  <2> DEFINE e == EventOf(h)
  <2>1. e \in Events /\ event[h] = {e}
    BY <1>2, EventOfHandler DEF Check
  <2>2. /\ pc[h] = "check"
        /\ pc' = [pc EXCEPT ![h] = IF IsReplay(e) THEN "reply" ELSE "insert"]
        /\ UNCHANGED <<event, log, rows, nonce, excused>>
    BY <1>2 DEF Check, Move
  <2>3. ~excused[e] /\ ~IsReplay(e) => e \notin log
    BY <1>0, <2>1, <2>2 DEF OnceInv, IsReplay
  <2> HIDE DEF e
  <2> QED
    BY <1>0, <2>1, <2>2, <2>3 DEF OnceInv
<1>3. ASSUME NEW h \in Handlers, Insert(h) PROVE OnceInv'
  <2> DEFINE e == EventOf(h)
  <2>1. e \in Events /\ event[h] = {e}
    BY <1>3, EventOfHandler DEF Insert
  <2>2. /\ pc[h] = "insert" /\ pc' = [pc EXCEPT ![h] = "mark"]
        /\ log' = log \union {e}
        /\ rows' = [rows EXCEPT ![e] = IF e \in Unknown THEN @ ELSE @ + 1]
        /\ UNCHANGED <<event, nonce, excused>>
    BY <1>3 DEF Insert, Move
  <2> HIDE DEF e
  <2>3. ~excused[e] => rows[e] = 0
    BY <2>1, <2>2 DEF OnceInv
  <2>4. ~excused[e] => rows'[e] <= 1
    BY <1>0, <2>1, <2>2, <2>3
  <2> QED
    BY <1>0, <2>1, <2>2, <2>4 DEF OnceInv
<1>4. ASSUME NEW h \in Handlers, InsertFails(h) \/ Reply(h) PROVE OnceInv'
  <2>1. /\ pc[h] # "mark" /\ pc' = [pc EXCEPT ![h] = "idle"]
        /\ event' = [event EXCEPT ![h] = {}]
        /\ UNCHANGED <<log, rows, nonce, excused>>
    BY <1>4 DEF InsertFails, Reply, Stop
  <2> QED
    BY <1>0, <2>1 DEF OnceInv
<1>5. ASSUME NEW h \in Handlers, Mark(h) PROVE OnceInv'
  <2> DEFINE e == EventOf(h)
  <2>1. e \in Events /\ event[h] = {e}
    BY <1>5, EventOfHandler DEF Mark
  <2>2. /\ pc[h] = "mark" /\ pc' = [pc EXCEPT ![h] = "reply"]
        /\ nonce' = IF redisUp THEN [nonce EXCEPT ![e] = NonceTTL] ELSE nonce
        /\ excused' = [excused EXCEPT ![e] = @ \/ ~redisUp]
        /\ UNCHANGED <<event, log, rows>>
    BY <1>5 DEF Mark, Move
  <2> HIDE DEF e
  <2>3. ASSUME NEW f \in Events, ~excused'[f], f \in log
        PROVE  nonce'[f] > 0 \/ \E g \in Handlers : pc'[g] = "mark" /\ f \in event'[g]
    <3>1. ~excused[f]
      BY <1>0, <2>1, <2>2, <2>3
    <3>2. CASE f = e
      BY <1>0, <2>1, <2>2, <2>3, <3>2
    <3>3. CASE f # e
      BY <1>0, <2>1, <2>2, <2>3, <3>1, <3>3 DEF OnceInv
    <3> QED
      BY <3>2, <3>3
  <2> QED
    BY <1>0, <2>1, <2>2, <2>3 DEF OnceInv
<1>6. ASSUME NEW h \in Handlers, HandlerCrash(h) PROVE OnceInv'
  <2> DEFINE e == EventOf(h)
  <2>1. e \in Events /\ event[h] = {e}
    BY <1>6, EventOfHandler DEF HandlerCrash
  <2>2. /\ pc' = [pc EXCEPT ![h] = "idle"] /\ event' = [event EXCEPT ![h] = {}]
        /\ excused' = [excused EXCEPT ![e] = @ \/ pc[h] = "mark"]
        /\ UNCHANGED <<log, rows, nonce>>
    BY <1>6 DEF HandlerCrash, Stop
  <2> HIDE DEF e
  <2> QED
    BY <1>0, <2>1, <2>2 DEF OnceInv
<1>7. ASSUME NEW p \in Pollers, Poll(p) PROVE OnceInv'
  <2>1. /\ UNCHANGED <<log, nonce, excused, rows>>
        /\ \A h \in Handlers : pc'[h] = pc[h] /\ event'[h] = event[h]
    BY <1>0, <1>7
    DEF TypeOK, Poll, List, Add, AllAdded, Commit, Expire, PollFails, Move, Stop
  <2> QED
    BY <2>1 DEF OnceInv
<1>8. ASSUME NEW e \in Events, Happen(e) PROVE OnceInv'
  BY <1>8 DEF OnceInv, Happen
<1>9. ASSUME RedisChanges PROVE OnceInv'
  BY <1>9 DEF OnceInv, RedisChanges
<1>10. ASSUME Tick PROVE OnceInv'
  <2>1. \A e \in Events : ~excused'[e] => ~excused[e] /\ (nonce[e] > 0 => nonce'[e] > 0)
    <3> SUFFICES ASSUME NEW e \in Events, ~excused'[e]
                 PROVE  ~excused[e] /\ (nonce[e] > 0 => nonce'[e] > 0)
      OBVIOUS
    <3>1. ~(excused[e] \/ nonce[e] = 1) /\ nonce'[e] = Less(nonce[e])
      BY <1>10 DEF Tick
    <3>2. ~excused[e] /\ nonce[e] # 1
      BY <3>1, ZenonT(30)
    <3>3. nonce[e] \in Nat
      BY <1>0, SMTT(30)
    <3> QED
      BY <3>1, <3>2, <3>3, SMTT(30) DEF Less
  <2>2. UNCHANGED <<pc, event, log, rows>>
    BY <1>10 DEF Tick
  <2> QED
    BY <2>1, <2>2 DEF OnceInv
<1>11. CASE UNCHANGED vars
  BY <1>11 DEF OnceInv, vars
<1> QED
  BY <1>1, <1>2, <1>3, <1>4, <1>5, <1>6, <1>7, <1>8, <1>9, <1>10, <1>11
  DEF Next, Handle

(* No duplicate without an excuse: the nonce and the event log together    *)
(* catch every delivery that is not concurrent with, or interrupted by a   *)
(* crash or an outage in, an earlier one, while the nonce lives.           *)
THEOREM InsertedAtMostOnce == Spec => []InsertedOnce
<1>1. Init => OnceInv
  BY DEF Init, OnceInv, Processes
<1>2. OnceInv => InsertedOnce
  BY DEF OnceInv, InsertedOnce
<1> QED
  BY <1>1, <1>2, TypeKept, OnceStep, PTL DEF Spec

----------------------------------------------------------------------------
(* The poll.  Events of one order are polled as if they were the latest,   *)
(* so the invariant speaks of the latest event of an order only.           *)
Current(e) == e \in happened /\ Latest(e)
Uncommitted(p) == pc[p] \in {"add", "commit"}

(* Events happen in order, so an earlier one is no younger.                *)
AgeInv ==
    /\ \A e \in happened, f \in Events : f < e => f \in happened
    /\ \A e, f \in happened : f <= e => age[e] <= age[f]
    /\ \A e \in Events : e \notin happened => seeds[e] = 0 /\ age[e] = 0

(* A poller that is idle holds nothing.                                    *)
PollerInv ==
    \A p \in Pollers :
        /\ pc[p] \in {"idle"} \union Polling
        /\ pc[p] = "idle" => todo[p] = {} /\ adding[p] = {}

(* An order is in the set from its SADD on, and in one session at most.    *)
AddingInv ==
    /\ \A p \in Pollers : adding[p] \subseteq seen
    /\ \A p, q \in Pollers, o \in Orders :
           Uncommitted(p) /\ Uncommitted(q) /\ o \in adding[p] /\ o \in adding[q] => p = q

(* A seeded event is in no session any more; it stays in the set, by a     *)
(* renewal that is still to come or for long enough, until no poll asks    *)
(* for it; after that no poll has it.                                      *)
RenewInv ==
    \A e \in Events : Current(e) =>
        /\ seeds[e] <= 1
        /\ seeds[e] > 0 => \A p \in Pollers : Uncommitted(p) => OrderOf[e] \notin adding[p]
        /\ seeds[e] > 0 /\ OrderOf[e] \notin seen =>
              age[e] > Window /\ \A p \in Pollers : OrderOf[e] \notin todo[p]
        /\ seeds[e] > 0 /\ OrderOf[e] \in seen =>
              \/ age[e] + seenFor > Window
              \/ \E p \in Pollers : pc[p] = "expire" /\ OrderOf[e] \in adding[p]

(* An event that is not the latest any more is not seeded again.           *)
PastInv == \A e \in Events : seeds[e] <= 1

SeedInv == AgeInv /\ PollerInv /\ (~lapsed => AddingInv /\ RenewInv /\ PastInv)

(* Nothing has been polled in the initial states. *)
LEMMA SeedInit == Init => SeedInv
<1> SUFFICES ASSUME Init PROVE SeedInv
  OBVIOUS
<1>1. AgeInv
  BY DEF Init, AgeInv
<1>2. PollerInv
  BY DEF Init, PollerInv, Processes
<1>3. AddingInv
  BY DEF Init, AddingInv
<1>4. RenewInv /\ PastInv
  BY DEF Init, RenewInv, PastInv, Current
<1> QED
  BY <1>1, <1>2, <1>3, <1>4 DEF SeedInv

(* Pollers that a step leaves alone, and those that renew, add and commit  *)
(* nothing in it.                                                          *)
SamePoller(p) == pc'[p] = pc[p] /\ todo'[p] = todo[p] /\ adding'[p] = adding[p]

LesserPoller(p) ==
    /\ pc'[p] \in {"idle", "add", "commit"} /\ adding'[p] \subseteq adding[p]
    /\ pc'[p] # "idle" => Uncommitted(p) \/ adding'[p] = {}
    /\ pc'[p] = "idle" => adding'[p] = {} /\ todo'[p] = {}
    /\ pc[p] # "expire"
    /\ \A e \in Events : ~lapsed /\ Current(e) /\ seeds[e] > 0 /\ OrderOf[e] \notin seen
                              => OrderOf[e] \notin todo'[p]

(* A step that leaves the poll and the clock alone keeps the invariant. *)
LEMMA SeedFrame ==
    ASSUME TypeOK, SeedInv,
           UNCHANGED <<happened, age, seen, seenFor, seeds, lapsed>>,
           \A p \in Pollers : SamePoller(p) \/ LesserPoller(p)
    PROVE  SeedInv'
<1>1. AgeInv'
  BY DEF SeedInv, AgeInv
<1>2. PollerInv'
  BY DEF SeedInv, PollerInv, Polling, SamePoller, LesserPoller
<1> SUFFICES ASSUME ~lapsed PROVE AddingInv' /\ RenewInv' /\ PastInv'
  BY <1>1, <1>2 DEF SeedInv
<1>3. AddingInv /\ RenewInv /\ PastInv
  BY DEF SeedInv
<1>4. \A p \in Pollers : adding'[p] \subseteq adding[p]
  BY DEF SamePoller, LesserPoller
<1>5. \A p \in Pollers : Uncommitted(p)' => Uncommitted(p) \/ adding'[p] = {}
  BY DEF Uncommitted, SamePoller, LesserPoller
<1>6. AddingInv'
  BY <1>3, <1>4, <1>5 DEF AddingInv
<1>7. \A e : Current(e)' <=> Current(e)
  BY DEF Current, Latest
<1>8. RenewInv'
  <2> SUFFICES ASSUME NEW e \in Events, Current(e)
               PROVE  /\ seeds[e] <= 1
                      /\ seeds[e] > 0 => \A p \in Pollers : Uncommitted(p)' => OrderOf[e] \notin adding'[p]
                      /\ seeds[e] > 0 /\ OrderOf[e] \notin seen =>
                            age[e] > Window /\ \A p \in Pollers : OrderOf[e] \notin todo'[p]
                      /\ seeds[e] > 0 /\ OrderOf[e] \in seen =>
                            \/ age[e] + seenFor > Window
                            \/ \E p \in Pollers : pc'[p] = "expire" /\ OrderOf[e] \in adding'[p]
    BY <1>7 DEF RenewInv
  <2>1. seeds[e] > 0 => \A p \in Pollers : Uncommitted(p)' => OrderOf[e] \notin adding'[p]
    BY <1>3, <1>4, <1>5 DEF RenewInv
  <2>2. seeds[e] > 0 /\ OrderOf[e] \notin seen =>
            age[e] > Window /\ \A p \in Pollers : OrderOf[e] \notin todo'[p]
    BY <1>3 DEF RenewInv, SamePoller, LesserPoller
  <2>3. ASSUME NEW p \in Pollers, pc[p] = "expire", OrderOf[e] \in adding[p]
        PROVE  pc'[p] = "expire" /\ OrderOf[e] \in adding'[p]
    BY <2>3 DEF SamePoller, LesserPoller
  <2> QED
    BY <1>3, <2>1, <2>2, <2>3 DEF RenewInv
<1> QED
  BY <1>3, <1>6, <1>8 DEF PastInv

(* The orders of a page are not those of an event whose time is over.      *)
LEMMA PageIsRecent ==
    ASSUME TypeOK, AgeInv, NEW e \in Events, Current(e), age[e] > Window
    PROVE  OrderOf[e] \notin {OrderOf[f] : f \in {g \in happened : age[g] <= Window}}
<1> SUFFICES ASSUME NEW f \in happened, age[f] <= Window, OrderOf[f] = OrderOf[e] PROVE FALSE
  OBVIOUS
<1>1. f <= e /\ e \in happened
  BY DEF Current, Latest
<1>2. age[e] <= age[f]
  BY <1>1 DEF AgeInv
<1>3. age[e] \in Nat /\ age[f] \in Nat /\ Window \in Nat
  BY <1>1, EventIngestAssumption DEF TypeOK
<1> QED
  BY <1>2, <1>3

(* SADD puts an order in a session only if the set did not have it: then   *)
(* no other session has it, and it has no row the poll inserted.           *)
LEMMA SeedAdd ==
    ASSUME TypeOK, SeedInv, NEW p \in Pollers, NEW o \in Orders, Add(p, o)
    PROVE  SeedInv'
<1>1. /\ pc[p] = "add" /\ o \in todo[p]
      /\ todo' = [todo EXCEPT ![p] = @ \ {o}]
      /\ adding' = [adding EXCEPT ![p] = IF o \in seen THEN @ ELSE @ \union {o}]
      /\ seen' = seen \union {o}
      /\ seenFor' = IF seen = {} THEN SeenTTL + 1 ELSE seenFor
      /\ UNCHANGED <<pc, happened, age, seeds, lapsed>>
  BY DEF Add, eventVars, historyVars
<1>2. CASE o \in seen
  <2>1. seen' = seen /\ seenFor' = seenFor /\ adding' = adding
    BY <1>1, <1>2 DEF TypeOK
  <2>2. todo'[p] \subseteq todo[p]
    BY <1>1 DEF TypeOK
  <2>3. \A e \in Events : ~lapsed /\ Current(e) /\ seeds[e] > 0 /\ OrderOf[e] \notin seen
                                => OrderOf[e] \notin todo'[p]
    BY <2>2 DEF SeedInv, RenewInv
  <2>4. \A q \in Pollers : q # p => SamePoller(q)
    BY <1>1, <2>1 DEF TypeOK, SamePoller
  <2>5. LesserPoller(p)
    BY <1>1, <2>1, <2>3 DEF LesserPoller, Uncommitted
  <2> QED
    BY <1>1, <2>1, <2>4, <2>5, SeedFrame
<1>3. CASE o \notin seen
  <2>1. AgeInv'
    BY <1>1 DEF SeedInv, AgeInv
  <2>2. PollerInv'
    BY <1>1 DEF SeedInv, PollerInv, TypeOK
  <2> SUFFICES ASSUME ~lapsed PROVE AddingInv' /\ RenewInv' /\ PastInv'
    BY <1>1, <2>1, <2>2 DEF SeedInv
  <2>3. AddingInv /\ RenewInv /\ PastInv
    BY DEF SeedInv
  <2>4. \A q \in Pollers : /\ adding'[q] = IF q = p THEN adding[q] \union {o} ELSE adding[q]
                           /\ todo'[q] \subseteq todo[q]
                           /\ o \notin adding[q]
    BY <1>1, <1>3, <2>3 DEF TypeOK, AddingInv
  <2>5. AddingInv'
    BY <1>1, <2>3, <2>4 DEF AddingInv, Uncommitted
  <2>6. RenewInv'
    <3> SUFFICES ASSUME NEW e \in Events, Current(e), seeds[e] > 0
                 PROVE  /\ \A q \in Pollers : Uncommitted(q) => OrderOf[e] \notin adding'[q]
                        /\ OrderOf[e] \notin seen' =>
                              age[e] > Window /\ \A q \in Pollers : OrderOf[e] \notin todo'[q]
                        /\ OrderOf[e] \in seen' =>
                              \/ age[e] + seenFor' > Window
                              \/ \E q \in Pollers : pc[q] = "expire" /\ OrderOf[e] \in adding'[q]
      BY <1>1, <2>3 DEF RenewInv, Current, Latest, Uncommitted, TypeOK
    <3>1. OrderOf[e] # o
      BY <1>1, <1>3, <2>3 DEF RenewInv
    <3>2. ASSUME NEW q \in Pollers, Uncommitted(q) PROVE OrderOf[e] \notin adding'[q]
      <4>1. OrderOf[e] \notin adding[q]
        BY <2>3, <3>2 DEF RenewInv
      <4> QED
        BY <2>4, <3>1, <4>1
    <3>3. OrderOf[e] \in seen' <=> OrderOf[e] \in seen
      BY <1>1, <3>1
    <3>4. OrderOf[e] \in seen => seenFor' = seenFor
      BY <1>1
    <3>5. OrderOf[e] \notin seen' =>
              age[e] > Window /\ \A q \in Pollers : OrderOf[e] \notin todo'[q]
      BY <2>3, <2>4, <3>3 DEF RenewInv
    <3>6. OrderOf[e] \in seen' =>
              \/ age[e] + seenFor' > Window
              \/ \E q \in Pollers : pc[q] = "expire" /\ OrderOf[e] \in adding'[q]
      BY <2>3, <2>4, <3>3, <3>4 DEF RenewInv
    <3> QED
      BY <3>2, <3>5, <3>6
  <2> QED
    BY <1>1, <2>3, <2>5, <2>6 DEF PastInv
<1> QED
  BY <1>2, <1>3

(* A commit gives the latest event of an order its one row. *)
LEMMA SeedCommit ==
    ASSUME TypeOK, SeedInv, NEW p \in Pollers, Commit(p)
    PROVE  SeedInv'
<1>1. /\ pc[p] = "commit" /\ pc' = [pc EXCEPT ![p] = "expire"]
      /\ UNCHANGED <<todo, adding, happened, age, seen, seenFor, lapsed>>
      /\ seeds' = [e \in Events |->
            IF Current(e) /\ OrderOf[e] \in adding[p] THEN seeds[e] + 1 ELSE seeds[e]]
  BY DEF Commit, Move, eventVars, redisVars, Current
<1>2. \A q \in Pollers : pc'[q] = IF q = p THEN "expire" ELSE pc[q]
  BY <1>1 DEF TypeOK, Processes
<1>3. seeds \in [Events -> Nat]
  BY DEF TypeOK
<1>4. AgeInv'
  BY <1>1 DEF SeedInv, AgeInv, Current
<1>5. PollerInv'
  BY <1>1, <1>2 DEF SeedInv, PollerInv, Polling
<1> SUFFICES ASSUME ~lapsed PROVE AddingInv' /\ RenewInv' /\ PastInv'
  BY <1>1, <1>4, <1>5 DEF SeedInv
<1>6. AddingInv /\ RenewInv /\ PastInv
  BY DEF SeedInv
<1>7. \A q \in Pollers : Uncommitted(q)' => q # p /\ Uncommitted(q)
  BY <1>2 DEF Uncommitted
<1>8. AddingInv'
  BY <1>1, <1>6, <1>7 DEF AddingInv
<1>9. \A e \in Events : Current(e) /\ OrderOf[e] \in adding[p] => seeds[e] = 0
  BY <1>1, <1>3, <1>6 DEF RenewInv, Uncommitted
<1>10. PastInv'
  BY <1>1, <1>3, <1>6, <1>9 DEF PastInv
<1>11. \A e \in Events : OrderOf[e] \in adding[p] => OrderOf[e] \in seen
  BY <1>6 DEF AddingInv
<1>12. RenewInv'
  <2> SUFFICES ASSUME NEW e \in Events, Current(e), seeds'[e] > 0
               PROVE  /\ \A q \in Pollers : Uncommitted(q)' => OrderOf[e] \notin adding[q]
                      /\ OrderOf[e] \notin seen =>
                            age[e] > Window /\ \A q \in Pollers : OrderOf[e] \notin todo[q]
                      /\ OrderOf[e] \in seen =>
                            \/ age[e] + seenFor > Window
                            \/ \E q \in Pollers : pc'[q] = "expire" /\ OrderOf[e] \in adding[q]
    BY <1>1, <1>10 DEF RenewInv, PastInv, Current, Latest
  <2>1. CASE OrderOf[e] \in adding[p]
    <3>1. \A q \in Pollers : Uncommitted(q)' => OrderOf[e] \notin adding[q]
      <4> SUFFICES ASSUME NEW q \in Pollers, Uncommitted(q)', OrderOf[e] \in adding[q]
                   PROVE  FALSE
        OBVIOUS
      <4>1. q # p /\ Uncommitted(q) /\ Uncommitted(p)
        BY <1>1, <1>7 DEF Uncommitted
      <4>2. OrderOf[e] \in Orders
        BY EventIngestAssumption
      <4> QED
        BY <1>6, <2>1, <4>1, <4>2 DEF AddingInv
    <3> QED
      BY <1>2, <1>11, <2>1, <3>1
  <2>2. CASE OrderOf[e] \notin adding[p]
    <3>1. seeds[e] > 0
      BY <1>1, <2>2
    <3> QED
      BY <1>2, <1>6, <1>7, <3>1 DEF RenewInv
  <2> QED
    BY <2>1, <2>2
<1> QED
  BY <1>8, <1>10, <1>12

(* EXPIRE makes the set outlive the window of every event that is seeded.  *)
LEMMA SeedExpire ==
    ASSUME TypeOK, SeedInv, NEW p \in Pollers, Expire(p)
    PROVE  SeedInv'
<1>1. /\ pc[p] = "expire" /\ pc' = [pc EXCEPT ![p] = "idle"]
      /\ seenFor' = IF seen = {} THEN 0 ELSE SeenTTL
      /\ \A q \in Pollers : /\ todo'[q] = IF q = p THEN {} ELSE todo[q]
                            /\ adding'[q] = IF q = p THEN {} ELSE adding[q]
      /\ UNCHANGED <<happened, age, seen, seeds, lapsed>>
  BY DEF Expire, Stop, eventVars, historyVars
<1>2. \A q \in Pollers : pc'[q] = IF q = p THEN "idle" ELSE pc[q]
  BY <1>1 DEF TypeOK, Processes
<1>3. AgeInv'
  BY <1>1 DEF SeedInv, AgeInv
<1>4. PollerInv'
  BY <1>1, <1>2 DEF SeedInv, PollerInv
<1> SUFFICES ASSUME ~lapsed PROVE AddingInv' /\ RenewInv' /\ PastInv'
  BY <1>1, <1>3, <1>4 DEF SeedInv
<1>5. AddingInv /\ RenewInv /\ PastInv
  BY DEF SeedInv
<1>6. \A q \in Pollers : adding'[q] \subseteq adding[q] /\ todo'[q] \subseteq todo[q]
  BY <1>1
<1>7. \A q \in Pollers : Uncommitted(q)' => Uncommitted(q)
  BY <1>2 DEF Uncommitted
<1>8. AddingInv'
  BY <1>1, <1>5, <1>6, <1>7 DEF AddingInv
<1>9. ASSUME NEW e \in Events, OrderOf[e] \in seen PROVE age[e] + seenFor' > Window
  <2>1. age[e] \in Nat /\ SeenTTL \in Nat /\ Window \in Nat /\ Window < SeenTTL
    BY EventIngestAssumption DEF TypeOK
  <2> QED
    BY <1>1, <1>9, <2>1
<1>10. RenewInv'
  BY <1>1, <1>5, <1>6, <1>7, <1>9 DEF RenewInv, Current, Latest
<1> QED
  BY <1>1, <1>5, <1>8, <1>10 DEF PastInv

(* A tick of the clock takes the window of an event to its end before the  *)
(* set expires.                                                            *)
LEMMA SeedTick ==
    ASSUME TypeOK, SeedInv, Tick
    PROVE  SeedInv'
<1>1. /\ age' = [e \in Events |-> IF e \in happened /\ age[e] <= Window THEN age[e] + 1 ELSE age[e]]
      /\ seenFor' = IF seenFor = SeenTTL + 1 THEN seenFor ELSE Less(seenFor)
      /\ seen' = IF seenFor = 1 THEN {} ELSE seen
      /\ lapsed' = (lapsed \/ (seenFor = 1 /\ \E p \in Pollers : pc[p] \in Polling))
      /\ UNCHANGED <<happened, pc, todo, adding, seeds>>
  BY DEF Tick, requestVars
<1>2. /\ Window \in Nat /\ SeenTTL \in Nat /\ Window < SeenTTL
      /\ \A e \in Events : age[e] \in 0 .. Window + 1
      /\ seenFor \in 0 .. SeenTTL + 1 /\ (seen = {} <=> seenFor = 0)
      /\ happened \subseteq Events
  BY EventIngestAssumption DEF TypeOK
<1>3. AgeInv'
  <2>1. \A e, f \in happened : f <= e => age'[e] <= age'[f]
    BY <1>1, <1>2 DEF SeedInv, AgeInv
  <2> QED
    BY <1>1, <2>1 DEF SeedInv, AgeInv
<1>4. PollerInv'
  BY <1>1 DEF SeedInv, PollerInv
<1> SUFFICES ASSUME ~lapsed' PROVE AddingInv' /\ RenewInv' /\ PastInv'
  BY <1>3, <1>4 DEF SeedInv
<1>5. /\ ~lapsed /\ AddingInv /\ RenewInv /\ PastInv
      /\ seenFor = 1 => \A p \in Pollers : pc[p] = "idle" /\ todo[p] = {} /\ adding[p] = {}
  BY <1>1 DEF SeedInv, PollerInv
<1>6. AddingInv'
  BY <1>1, <1>5 DEF AddingInv, Uncommitted
<1>7. RenewInv'
  <2> SUFFICES ASSUME NEW e \in Events, Current(e), seeds[e] > 0
               PROVE  /\ OrderOf[e] \notin seen' =>
                            age'[e] > Window /\ \A p \in Pollers : OrderOf[e] \notin todo[p]
                      /\ OrderOf[e] \in seen' =>
                            \/ age'[e] + seenFor' > Window
                            \/ \E p \in Pollers : pc[p] = "expire" /\ OrderOf[e] \in adding[p]
    BY <1>1, <1>5 DEF RenewInv, Current, Latest, Uncommitted
  <2>1. age'[e] = IF age[e] <= Window THEN age[e] + 1 ELSE age[e]
    BY <1>1 DEF Current
  <2>2. CASE OrderOf[e] \notin seen
    <3>1. age[e] > Window /\ \A p \in Pollers : OrderOf[e] \notin todo[p]
      BY <1>5, <2>2 DEF RenewInv
    <3>2. OrderOf[e] \notin seen'
      BY <1>1, <2>2
    <3> QED
      BY <1>2, <2>1, <3>1, <3>2
  <2>3. CASE OrderOf[e] \in seen /\ seenFor = 1
    <3>1. age[e] + 1 > Window
      BY <1>5, <2>3 DEF RenewInv
    <3> QED
      BY <1>1, <1>2, <1>5, <2>1, <2>3, <3>1
  <2>4. CASE OrderOf[e] \in seen /\ seenFor # 1
    <3>1. \/ age[e] + seenFor > Window
          \/ \E p \in Pollers : pc[p] = "expire" /\ OrderOf[e] \in adding[p]
      BY <1>5, <2>4 DEF RenewInv
    <3>2. seen' = seen /\ seenFor # 0
      BY <1>1, <1>2, <2>4
    <3>3. seenFor' = IF seenFor = SeenTTL + 1 THEN seenFor ELSE seenFor - 1
      BY <1>1, <3>2 DEF Less
    <3>4. age[e] + seenFor > Window => age'[e] + seenFor' > Window
      BY <1>2, <2>1, <3>2, <3>3
    <3> QED
      BY <2>4, <3>1, <3>2, <3>4
  <2> QED
    BY <2>2, <2>3, <2>4
<1> QED
  BY <1>1, <1>5, <1>6, <1>7 DEF PastInv

(* A new event has no rows, and takes the place of the latest event of its *)
(* order.                                                                  *)
LEMMA SeedHappen ==
    ASSUME TypeOK, SeedInv, NEW e \in Events, Happen(e)
    PROVE  SeedInv'
<1>1. /\ e \notin happened /\ happened' = happened \union {e}
      /\ \A f \in Events : f < e => f \in happened
      /\ UNCHANGED <<age, pc, todo, adding, seen, seenFor, seeds, lapsed>>
  BY DEF Happen, requestVars, redisVars, historyVars
<1>2. Events \subseteq Nat /\ happened \subseteq Events /\ age[e] = 0 /\ seeds[e] = 0
      /\ \A f \in Events : age[f] \in Nat
  BY <1>1, EventIngestAssumption DEF TypeOK, SeedInv, AgeInv
<1>3. AgeInv'
  <2>1. ASSUME NEW f \in happened PROVE f < e
    <3>1. f # e /\ f \in Nat /\ e \in Nat
      BY <1>1, <1>2
    <3>2. ~(e < f)
      BY <1>1, <1>2 DEF SeedInv, AgeInv
    <3> QED
      BY <3>1, <3>2
  <2>2. \A f, g \in happened' : g <= f => age[f] <= age[g]
    <3> SUFFICES ASSUME NEW f \in happened', NEW g \in happened', g <= f
                 PROVE  age[f] <= age[g]
      OBVIOUS
    <3>1. CASE f = e
      BY <1>1, <1>2, <3>1
    <3>2. CASE f # e
      <4>1. f \in happened /\ g # e
        BY <1>1, <1>2, <2>1, <3>2
      <4> QED
        BY <1>1, <4>1 DEF SeedInv, AgeInv
    <3> QED
      BY <3>1, <3>2
  <2>3. \A f \in happened', g \in Events : g < f => g \in happened'
    BY <1>1 DEF SeedInv, AgeInv
  <2> QED
    BY <1>1, <2>2, <2>3 DEF SeedInv, AgeInv
<1>4. PollerInv'
  BY <1>1 DEF SeedInv, PollerInv
<1> SUFFICES ASSUME ~lapsed PROVE AddingInv' /\ RenewInv' /\ PastInv'
  BY <1>1, <1>3, <1>4 DEF SeedInv
<1>5. AddingInv /\ RenewInv /\ PastInv
  BY DEF SeedInv
<1>6. AddingInv'
  BY <1>1, <1>5 DEF AddingInv, Uncommitted
<1>7. \A f \in Events : Current(f)' => Current(f) \/ f = e
  BY <1>1 DEF Current, Latest
<1>8. RenewInv'
  BY <1>1, <1>2, <1>5, <1>7 DEF RenewInv, Uncommitted
<1> QED
  BY <1>1, <1>5, <1>6, <1>8 DEF PastInv

(* A page has recent events only. *)
LEMMA SeedList ==
    ASSUME TypeOK, SeedInv, NEW p \in Pollers, List(p)
    PROVE  SeedInv'
<1>1. /\ pc[p] = "idle" /\ pc' = [pc EXCEPT ![p] = "add"]
      /\ todo' = [todo EXCEPT ![p] = {OrderOf[f] : f \in {g \in happened : age[g] <= Window}}]
      /\ UNCHANGED <<adding, happened, age, seen, seenFor, seeds, lapsed>>
  BY DEF List, eventVars, redisVars, historyVars
<1>2. adding'[p] = {}
  BY <1>1 DEF SeedInv, PollerInv
<1>3. ASSUME NEW e \in Events, ~lapsed, Current(e), seeds[e] > 0, OrderOf[e] \notin seen
      PROVE  OrderOf[e] \notin todo'[p]
  <2>1. age[e] > Window
    BY <1>3 DEF SeedInv, RenewInv
  <2>2. todo'[p] = {OrderOf[f] : f \in {g \in happened : age[g] <= Window}}
    BY <1>1 DEF TypeOK
  <2> QED
    BY <1>3, <2>1, <2>2, PageIsRecent DEF SeedInv
<1>4. \A q \in Pollers : q # p => SamePoller(q)
  BY <1>1 DEF TypeOK, Processes, SamePoller
<1>5. pc'[p] = "add"
  BY <1>1 DEF TypeOK, Processes
<1>6. LesserPoller(p)
  BY <1>1, <1>2, <1>3, <1>5 DEF LesserPoller
<1> QED
  BY <1>1, <1>4, <1>6, SeedFrame

(* A poll that goes on to its commit has looked at all its orders. *)
LEMMA SeedAllAdded ==
    ASSUME TypeOK, SeedInv, NEW p \in Pollers, AllAdded(p)
    PROVE  SeedInv'
<1>1. /\ pc[p] = "add" /\ todo[p] = {} /\ pc' = [pc EXCEPT ![p] = "commit"]
      /\ UNCHANGED <<todo, adding, happened, age, seen, seenFor, seeds, lapsed>>
  BY DEF AllAdded, Move, eventVars, redisVars, historyVars
<1>2. \A q \in Pollers : pc'[q] = IF q = p THEN "commit" ELSE pc[q]
  BY <1>1 DEF TypeOK, Processes
<1>3. \A q \in Pollers : q # p => SamePoller(q)
  BY <1>1, <1>2 DEF SamePoller
<1>4. LesserPoller(p)
  BY <1>1, <1>2 DEF LesserPoller, Uncommitted
<1> QED
  BY <1>1, <1>3, <1>4, SeedFrame

(* A poll that fails before its commit forgets its session; one that fails *)
(* after it has not renewed the set.                                       *)
LEMMA SeedFails ==
    ASSUME TypeOK, SeedInv, NEW p \in Pollers, PollFails(p)
    PROVE  SeedInv'
<1>1. /\ pc' = [pc EXCEPT ![p] = "idle"]
      /\ \A q \in Pollers : /\ todo'[q] = IF q = p THEN {} ELSE todo[q]
                            /\ adding'[q] = IF q = p THEN {} ELSE adding[q]
      /\ lapsed' = (lapsed \/ pc[p] = "expire")
      /\ UNCHANGED <<happened, age, seen, seenFor, seeds>>
  BY DEF PollFails, Stop, eventVars, redisVars
<1>2. \A q \in Pollers : pc'[q] = IF q = p THEN "idle" ELSE pc[q]
  BY <1>1 DEF TypeOK, Processes
<1>3. CASE pc[p] = "expire" \/ lapsed
  <2>1. AgeInv' /\ PollerInv'
    BY <1>1, <1>2 DEF SeedInv, AgeInv, PollerInv
  <2> QED
    BY <1>1, <1>3, <2>1 DEF SeedInv
<1>4. CASE pc[p] # "expire" /\ ~lapsed
  <2>1. lapsed' = lapsed
    BY <1>1, <1>4 DEF TypeOK
  <2>2. \A q \in Pollers : q # p => SamePoller(q)
    BY <1>1, <1>2 DEF SamePoller
  <2>3. LesserPoller(p)
    BY <1>1, <1>2, <1>4 DEF LesserPoller
  <2> QED
    BY <1>1, <2>1, <2>2, <2>3, SeedFrame
<1> QED
  BY <1>3, <1>4

(* A step of a handler touches nothing of the poll.                        *)
LEMMA SeedOthers ==
    ASSUME TypeOK, SeedInv, UNCHANGED <<happened, age, seen, seenFor, seeds, lapsed>>,
           \A p \in Pollers : SamePoller(p)
    PROVE  SeedInv'
  BY SeedFrame

(* Every step keeps the invariant of the poll: the ages, the sessions, the *)
(* set and its expiry.                                                     *)
LEMMA SeedStep == TInv /\ SeedInv /\ [Next]_vars => SeedInv'
<1> SUFFICES ASSUME TypeOK, Shape, SeedInv, [Next]_vars PROVE SeedInv'
  BY DEF TInv
<1> USE DEF eventVars, requestVars, redisVars, boundVars, historyVars
<1>0. Handlers \subseteq Processes /\ \A h \in Handlers : h \notin Pollers
  BY EventIngestAssumption DEF Processes
<1>1. ASSUME NEW h \in Handlers, Handle(h) \/ \E e \in Events : Receive(h, e) PROVE SeedInv'
  <2>1. UNCHANGED <<happened, age, seen, seenFor, seeds, lapsed>>
    BY <1>1 DEF Handle, Receive, Check, Insert, InsertFails, Mark, Reply, HandlerCrash
  <2>2. /\ \E place : pc' = [pc EXCEPT ![h] = place]
        /\ \A p \in Pollers : p # h => todo'[p] = todo[p] /\ adding'[p] = adding[p]
    BY <1>1
    DEF Handle, Receive, Check, Insert, InsertFails, Mark, Reply, HandlerCrash, Move, Stop
  <2>3. \A p \in Pollers : SamePoller(p)
    BY <1>0, <2>2 DEF TypeOK, SamePoller, Processes
  <2> QED
    BY <2>1, <2>3, SeedOthers
<1>2. ASSUME NEW p \in Pollers, Poll(p) PROVE SeedInv'
  BY <1>2, SeedList, SeedAllAdded, SeedCommit, SeedExpire, SeedFails, SeedAdd DEF Poll
<1>3. ASSUME NEW e \in Events, Happen(e) PROVE SeedInv'
  BY <1>3, SeedHappen
<1>4. ASSUME RedisChanges PROVE SeedInv'
  BY <1>4, SeedOthers DEF RedisChanges, SamePoller
<1>5. ASSUME Tick PROVE SeedInv'
  BY <1>5, SeedTick
<1>6. CASE UNCHANGED vars
  BY <1>6, SeedOthers DEF vars, SamePoller
<1> QED
  BY <1>1, <1>2, <1>3, <1>4, <1>5, <1>6 DEF Next

(* A change is seeded by one poll, however polls overlap and fail, as long *)
(* as the set of seen orders lives while a poll needs it: the window of a  *)
(* poll being shorter than the life of the set is what the proof rests on. *)
THEOREM SeededAtMostOnce == Spec => []SeededOnce
<1>1. SeedInv => SeededOnce
  BY DEF SeedInv, PastInv, SeededOnce
<1> QED
  BY <1>1, SeedInit, TypeKept, SeedStep, PTL DEF Spec
=============================================================================
