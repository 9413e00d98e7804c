---------------------------- MODULE TokenRefresh ----------------------------
(***************************************************************************)
(* Shopee's tokens (src/connectors/shopee/auth.py), the connector's call   *)
(* that refreshes them when one is rejected (client.py), beat's refresh    *)
(* every three hours and the OAuth callback (oauth.py).  Every command to  *)
(* Redis, to Shopee and to the database is a step.  A token is the number  *)
(* of the pair, access and refresh token, that Shopee issued it in.        *)
(***************************************************************************)
EXTENDS Naturals, FiniteSets

CONSTANTS Users,       \* coroutines of workers and of the API that use the tokens
          MaxIssued,   \* bound: pairs Shopee issues
          MaxBegins,   \* bound: requests, refreshes and authorisations that begin
          MaxFaults    \* bound: crashes, lost answers and early ends of the lock

ASSUME TokenRefreshAssumption == {MaxIssued, MaxBegins, MaxFaults} \subseteq Nat

VARIABLES access,    \* the access key in Redis (a set of at most one token, as the next three)
          refresh,   \* the refresh key
          backup,    \* the refresh token in platform_config.credentials
          lock,      \* lock:shopee_refresh: who set it
          pc,        \* what each coroutine does next
          goal,      \* what it does it for
          tok,       \* the access token it signs its request with
          pair,      \* the pair it is about to trade in, or to store
          issued,    \* pairs Shopee has issued
          good,      \* refresh tokens Shopee accepts
          live,      \* access tokens Shopee accepts
          begins,    \* how much of each bound is used up
          faults,
          lapsed,    \* history: the lock ended while the refresh it protects went on
          spoilt     \* history: the newest pair was lost or overwritten since the last
                     \* authorisation nobody disturbed

redisVars   == <<access, refresh, lock>>
userVars    == <<pc, goal, tok, pair>>
shopeeVars  == <<issued, good, live>>
boundVars   == <<begins, faults>>
historyVars == <<lapsed, spoilt>>
vars == <<redisVars, backup, userVars, shopeeVars, boundVars, historyVars>>

Tokens  == 0 .. MaxIssued
AtMostOne(S) == {{}} \union {{x} : x \in S}
Storing == {"backup", "access", "refresh"}
Locked  == {"read", "post", "access", "refresh", "unlock", "abort"}
Places  == {"idle", "get", "call", "drop", "lock", "wait", "exchange"} \union Storing \union Locked
Goals   == {"none", "first", "forced", "second", "beat", "oauth"}

TypeOK ==
    /\ {access, refresh, backup} \subseteq AtMostOne(Tokens)
    /\ lock \in AtMostOne(Users)
    /\ pc \in [Users -> Places]
    /\ goal \in [Users -> Goals]
    /\ \A u \in Users : /\ pc[u] = "idle" <=> goal[u] = "none"
                        /\ pc[u] \in {"get", "call"} => goal[u] \in {"first", "second"}
    /\ tok \in [Users -> AtMostOne(Tokens)]
    /\ pair \in [Users -> AtMostOne(Tokens)]
    /\ issued \in Tokens
    /\ good \in SUBSET Tokens
    /\ live \in SUBSET Tokens
    /\ begins \in 0 .. MaxBegins
    /\ faults \in 0 .. MaxFaults
    /\ {lapsed, spoilt} \subseteq BOOLEAN

(* Nobody has authorised the shop yet, or a pair is stored. *)
Init ==
    /\ refresh \in {{}, {0}} /\ access = refresh /\ backup = refresh
    /\ lock = {}
    /\ pc = [u \in Users |-> "idle"]
    /\ goal = [u \in Users |-> "none"]
    /\ tok = [u \in Users |-> {}]
    /\ pair = [u \in Users |-> {}]
    /\ issued = 0 /\ good = {0} /\ live = {0}
    /\ begins = 0 /\ faults = 0
    /\ lapsed = FALSE /\ spoilt = FALSE

----------------------------------------------------------------------------
(* The ways of a coroutine *)

Move(u, place) ==
    /\ pc' = [pc EXCEPT ![u] = place]
    /\ UNCHANGED <<goal, tok, pair>>

Become(u, place, g, t) ==
    /\ pc' = [pc EXCEPT ![u] = place]
    /\ goal' = [goal EXCEPT ![u] = g]
    /\ tok' = [tok EXCEPT ![u] = t]
    /\ pair' = [pair EXCEPT ![u] = {}]

Leave(u) == Become(u, "idle", "none", {})

(* A bug: the refresh of beat goes on as a request does. *)
ReturnAlways(u, t) ==
    \/ goal[u] # "forced" /\ Become(u, "call", goal[u], t)
    \/ goal[u] = "forced" /\ Become(u, "get", "second", tok[u])

(* refresh returns a token t: the request is sent, or _request starts its  *)
(* second attempt.                                                         *)
Return(u, t) ==
    \/ goal[u] \in {"first", "second"} /\ Become(u, "call", goal[u], t)
    \/ goal[u] = "forced" /\ Become(u, "get", "second", tok[u])
    \/ goal[u] = "beat" /\ Leave(u)

(* A bug: the rejected token stays in Redis. *)
RejectKeeping(u) ==
    \/ goal[u] = "first" /\ Become(u, "lock", "forced", tok[u])
    \/ goal[u] # "first" /\ Leave(u)

(* A ShopeeAuthError: _request catches the one of its first attempt. *)
Reject(u) ==
    \/ goal[u] = "first" /\ Become(u, "drop", "forced", tok[u])
    \/ goal[u] # "first" /\ Leave(u)

----------------------------------------------------------------------------
(* ShopeeConnector._request *)

Begin(u) ==
    /\ pc[u] = "idle"
    /\ begins < MaxBegins
    /\ begins' = begins + 1
    /\ \/ Become(u, "get", "first", {})
       \/ Become(u, "lock", "beat", {})
       \/ Become(u, "exchange", "oauth", {})
    /\ UNCHANGED <<redisVars, backup, shopeeVars, faults, historyVars>>

(* get_access_token *)
GetAccess(u) ==
    /\ pc[u] = "get"
    /\ \/ access # {} /\ Become(u, "call", goal[u], access)
       \/ access = {} /\ Move(u, "lock")
    /\ UNCHANGED <<redisVars, backup, shopeeVars, boundVars, historyVars>>

(* The request succeeds, fails for another reason, or the breaker is open. *)
CallEnds(u) ==
    /\ pc[u] = "call"
    /\ Leave(u)
    /\ UNCHANGED <<redisVars, backup, shopeeVars, boundVars, historyVars>>

CallRejected(u) ==
    /\ pc[u] = "call"
    /\ tok[u] \intersect live = {}
    /\ Reject(u)
    /\ UNCHANGED <<redisVars, backup, shopeeVars, boundVars, historyVars>>

Drop(u) ==
    /\ pc[u] = "drop"
    /\ access' = {}
    /\ Move(u, "lock")
    /\ UNCHANGED <<refresh, lock, backup, shopeeVars, boundVars, historyVars>>

----------------------------------------------------------------------------
(* refresh *)

(* SET NX EX 60 *)
Acquire(u) ==
    /\ pc[u] = "lock"
    /\ \/ lock = {} /\ lock' = {u} /\ Move(u, "read")
       \/ lock # {} /\ Move(u, "wait") /\ UNCHANGED lock
    /\ UNCHANGED <<access, refresh, backup, shopeeVars, boundVars, historyVars>>

(* A bug: the finally clause covers the waiting too. *)
WaitUnlocking(u) ==
    /\ pc[u] = "wait"
    /\ \/ access # {} /\ Return(u, access)
       \/ access = {} /\ Reject(u)
    /\ lock' = {}
    /\ UNCHANGED <<access, refresh, backup, shopeeVars, boundVars, historyVars>>

(* Twenty looks at the access key, half a second apart. *)
Wait(u) ==
    /\ pc[u] = "wait"
    /\ \/ access # {} /\ Return(u, access)
       \/ access = {} /\ Reject(u)
    /\ UNCHANGED <<redisVars, backup, shopeeVars, boundVars, historyVars>>

ReadRefresh(u) ==
    /\ pc[u] = "read"
    /\ pc' = [pc EXCEPT ![u] = IF refresh = {} THEN "unlock" ELSE "post"]
    /\ pair' = [pair EXCEPT ![u] = refresh]
    /\ UNCHANGED <<goal, tok, redisVars, backup, shopeeVars, boundVars, historyVars>>

(* Shopee trades the refresh token in for a new pair; it may or may not    *)
(* accept the old one again.                                               *)
Issue(old) ==
    /\ issued < MaxIssued
    /\ issued' = issued + 1
    /\ live' = live \union {issued'}
    /\ \E kept \in {good, good \ old} : good' = kept \union {issued'}

Answer(u) ==
    /\ pc[u] = "post"
    /\ pair[u] \subseteq good
    /\ Issue(pair[u])
    /\ pc' = [pc EXCEPT ![u] = "access"]
    /\ pair' = [pair EXCEPT ![u] = {issued'}]
    /\ UNCHANGED <<goal, tok, redisVars, backup, boundVars, historyVars>>

Refuse(u) ==
    /\ pc[u] = "post"
    /\ pc' = [pc EXCEPT ![u] = "unlock"]
    /\ pair' = [pair EXCEPT ![u] = {}]
    /\ UNCHANGED <<goal, tok, redisVars, backup, shopeeVars, boundVars, historyVars>>

(* The POST raises before Shopee has seen it, or after it has answered. *)
PostFails(u) ==
    /\ pc[u] = "post"
    /\ Move(u, "abort")
    /\ \/ UNCHANGED <<shopeeVars, faults, spoilt>>
       \/ /\ faults < MaxFaults
          /\ faults' = faults + 1
          /\ pair[u] \subseteq good
          /\ Issue(pair[u])
          /\ spoilt' = TRUE
    /\ UNCHANGED <<redisVars, backup, begins, lapsed>>

(* store_tokens: two keys, one command each. *)
StoreAccess(u) ==
    /\ pc[u] = "access"
    /\ access' = pair[u]
    /\ Move(u, "refresh")
    /\ UNCHANGED <<refresh, lock, backup, shopeeVars, boundVars, historyVars>>

(* A bug: the refresh token that was traded in stays. *)
StoreRefreshNever(u) ==
    /\ pc[u] = "refresh"
    /\ IF goal[u] = "oauth" THEN Leave(u) ELSE Move(u, "unlock")
    /\ UNCHANGED <<redisVars, backup, shopeeVars, boundVars, historyVars>>

StoreRefresh(u) ==
    /\ pc[u] = "refresh"
    /\ refresh' = pair[u]
    /\ IF goal[u] = "oauth" THEN Leave(u) ELSE Move(u, "unlock")
    /\ UNCHANGED <<access, lock, backup, shopeeVars, boundVars, historyVars>>

(* finally: the key is deleted, whoever set it. *)
Unlock(u) ==
    /\ pc[u] \in {"unlock", "abort"}
    /\ lock' = {}
    /\ \/ pc[u] = "unlock" /\ pair[u] # {} /\ Return(u, pair[u])
       \/ pc[u] = "unlock" /\ pair[u] = {} /\ Reject(u)
       \/ pc[u] = "abort" /\ Leave(u)
    /\ UNCHANGED <<access, refresh, backup, shopeeVars, boundVars, historyVars>>

----------------------------------------------------------------------------
(* oauth_callback *)

OthersStore(u) == \E v \in Users \ {u} : pc[v] \in Storing

(* exchange_code_for_tokens: a new authorisation may end the earlier ones; *)
(* its answer may be lost, as that of a refresh may.                       *)
Exchange(u) ==
    /\ pc[u] = "exchange"
    /\ \/ /\ Issue(good)
          /\ spoilt' = OthersStore(u)
          /\ pc' = [pc EXCEPT ![u] = "backup"]
          /\ pair' = [pair EXCEPT ![u] = {issued'}]
          /\ UNCHANGED <<goal, tok>>
          /\ UNCHANGED faults
       \/ /\ faults < MaxFaults
          /\ faults' = faults + 1
          /\ Issue(good)
          /\ spoilt' = TRUE
          /\ Leave(u)
       \/ /\ Leave(u)
          /\ UNCHANGED <<shopeeVars, faults, spoilt>>
    /\ UNCHANGED <<redisVars, backup, begins, lapsed>>

(* _backup_to_db; an error ends the callback before Redis is written. *)
Backup(u) ==
    /\ pc[u] = "backup"
    /\ \/ /\ backup' = pair[u]
          /\ Move(u, "access")
          /\ UNCHANGED <<faults, spoilt>>
       \/ /\ faults < MaxFaults
          /\ faults' = faults + 1
          /\ spoilt' = TRUE
          /\ Leave(u)
          /\ UNCHANGED backup
    /\ UNCHANGED <<redisVars, shopeeVars, begins, lapsed>>

----------------------------------------------------------------------------
(* The environment *)

(* An access token ends four hours after it was issued, so the oldest one  *)
(* first; its key in Redis has an expiry of its own.                       *)
AccessEnds ==
    /\ \/ access # {} /\ access' = {} /\ UNCHANGED live
       \/ /\ \E t \in live : live' = {s \in live : s > t}
          /\ UNCHANGED access
    /\ UNCHANGED <<refresh, lock, backup, userVars, issued, good, boundVars, historyVars>>

(* A bug: the lock is set without an expiry. *)
LockLasts == FALSE

LockEnds ==
    \E u \in lock :
        /\ lock' = {}
        /\ IF pc[u] \in Locked /\ goal[u] # "oauth"
           THEN faults < MaxFaults /\ faults' = faults + 1 /\ lapsed' = TRUE
           ELSE UNCHANGED <<faults, lapsed>>
        /\ UNCHANGED <<access, refresh, backup, userVars, shopeeVars, begins, spoilt>>

Crash(u) ==
    /\ pc[u] # "idle"
    /\ faults < MaxFaults
    /\ faults' = faults + 1
    /\ spoilt' = (spoilt \/ pc[u] \in Storing)
    /\ Leave(u)
    /\ UNCHANGED <<redisVars, backup, shopeeVars, begins, lapsed>>

----------------------------------------------------------------------------
Go(u) ==
    \/ GetAccess(u) \/ CallEnds(u) \/ CallRejected(u) \/ Drop(u)
    \/ Acquire(u) \/ Wait(u) \/ ReadRefresh(u) \/ Answer(u) \/ Refuse(u) \/ PostFails(u)
    \/ StoreAccess(u) \/ StoreRefresh(u) \/ Unlock(u)
    \/ Exchange(u) \/ Backup(u)

Next ==
    \/ \E u \in Users : Begin(u) \/ Go(u) \/ Crash(u)
    \/ AccessEnds \/ LockEnds

Spec == Init /\ [][Next]_vars

(* Calls end (each has a timeout) and keys with an expiry expire. *)
Fairness ==
    /\ \A u \in Users : WF_vars(Go(u))
    /\ WF_vars(LockEnds)

FairSpec == Spec /\ Fairness

----------------------------------------------------------------------------
(* Properties *)

Refreshing(u) == pc[u] \in Locked /\ goal[u] # "oauth"

(* At most one coroutine trades the refresh token in, as long as none is   *)
(* slower than the lock's sixty seconds: not those that wait, time out or  *)
(* crash, nor beat, let a second one in.                                   *)
SingleRefresher == ~lapsed => \A u, v \in Users : Refreshing(u) /\ Refreshing(v) => u = v

(* The refresh token in Redis is one Shopee accepts, or somebody is about  *)
(* to store one: no interleaving of refreshes, even of several at a time   *)
(* after the lock lapsed, leaves a used-up token behind.  It takes a crash *)
(* or a lost answer between trade and store, or an authorisation granted   *)
(* meanwhile; the next authorisation repairs it.                           *)
RefreshTokenKept ==
    ~spoilt => \/ refresh \subseteq good
               \/ \E u \in Users : pc[u] \in Storing /\ pair[u] \subseteq good

(* The second attempt of a rejected request is never signed with the token *)
(* that was rejected (the comment at client.py:106-110), whoever refreshes.*)
FreshRetry ==
    [][\A u \in Users :
         goal[u] = "second" /\ pc[u] # "call" /\ pc'[u] = "call" => tok[u] \intersect tok'[u] = {}]_vars

(* Everything ends: refreshes, waits and retries, and after a crash the    *)
(* lock, so that the next refresh can begin.                               *)
Ends == <>[](lock = {} /\ \A u \in Users : pc[u] = "idle")
=============================================================================
