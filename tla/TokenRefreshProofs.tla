------------------------- MODULE TokenRefreshProofs -------------------------
(***************************************************************************)
(* TLAPS proofs about TokenRefresh, for any number of coroutines and any   *)
(* value of the bounds.                                                    *)
(***************************************************************************)
EXTENDS TokenRefresh, TLAPS

(* What a coroutine can be doing at each place.                            *)
Shape ==
    \A u \in Users :
        /\ pc[u] = "drop" => goal[u] = "forced"
        /\ pc[u] \in {"exchange", "backup"} => goal[u] = "oauth"
        /\ pc[u] \in {"lock", "wait", "read", "post", "unlock", "abort"} => goal[u] # "oauth"
        /\ pc[u] \in {"access", "refresh"} => goal[u] # "none"
        /\ pc[u] \in Storing \union {"post"} => pair[u] # {}

TInv == TypeOK /\ Shape

(* A set of at most one token, of no token. *)
LEMMA NoneOrOne ==
    /\ {} \in AtMostOne(Tokens)
    /\ \A t \in Tokens : {t} \in AtMostOne(Tokens)
    /\ {} \in AtMostOne(Users)
    /\ \A u \in Users : {u} \in AtMostOne(Users)
  BY DEF AtMostOne

(* Whatever way a coroutine goes, its variables keep their types.          *)
UserTypes ==
    /\ pc \in [Users -> Places]
    /\ goal \in [Users -> Goals]
    /\ tok \in [Users -> AtMostOne(Tokens)]
    /\ pair \in [Users -> AtMostOne(Tokens)]
    /\ \A u \in Users : /\ pc[u] = "idle" <=> goal[u] = "none"
                        /\ pc[u] \in {"get", "call"} => goal[u] \in {"first", "second"}
    /\ Shape

(* A coroutine that only moves keeps the types, if the place suits its     *)
(* goal and its pair.                                                      *)
LEMMA MoveType ==
    ASSUME TInv, NEW u \in Users, NEW place \in Places, Move(u, place),
           pc[u] # "idle", place \notin {"idle", "get", "call", "drop", "exchange"},
           place = "backup" => goal[u] = "oauth",
           place \in {"lock", "wait", "read", "post", "unlock", "abort"} => goal[u] # "oauth",
           place \in Storing \union {"post"} => pair[u] # {}
    PROVE  UserTypes'
<1>1. /\ pc' = [pc EXCEPT ![u] = place]
      /\ UNCHANGED <<goal, tok, pair>>
  BY DEF Move
<1>2. \A v \in Users : pc'[v] = IF v = u THEN place ELSE pc[v]
  BY <1>1 DEF TInv, TypeOK
<1>3. Shape'
  BY <1>1, <1>2 DEF TInv, TypeOK, Shape
<1>4. pc' \in [Users -> Places]
  BY <1>1 DEF TInv, TypeOK
<1> QED
  BY <1>1, <1>2, <1>3, <1>4 DEF TInv, TypeOK, UserTypes

(* A coroutine that drops its pair and starts something else keeps the     *)
(* types, if the place suits the goal.                                     *)
LEMMA BecomeType ==
    ASSUME TInv, NEW u \in Users, NEW place \in Places, NEW g \in Goals,
           NEW t \in AtMostOne(Tokens), Become(u, place, g, t),
           place = "idle" <=> g = "none",
           place \in {"get", "call"} => g \in {"first", "second"},
           place = "drop" => g = "forced",
           place = "exchange" => g = "oauth",
           place = "lock" => g # "oauth",
           place \in {"idle", "get", "call", "drop", "exchange", "lock"}
    PROVE  UserTypes'
<1>1. /\ pc' = [pc EXCEPT ![u] = place] /\ goal' = [goal EXCEPT ![u] = g]
      /\ tok' = [tok EXCEPT ![u] = t] /\ pair' = [pair EXCEPT ![u] = {}]
  BY DEF Become
<1>2. /\ pc' \in [Users -> Places] /\ goal' \in [Users -> Goals]
      /\ tok' \in [Users -> AtMostOne(Tokens)] /\ pair' \in [Users -> AtMostOne(Tokens)]
  BY <1>1, NoneOrOne DEF TInv, TypeOK
<1>3. \A v \in Users : /\ pc'[v] = IF v = u THEN place ELSE pc[v]
                       /\ goal'[v] = IF v = u THEN g ELSE goal[v]
                       /\ v # u => pair'[v] = pair[v]
  BY <1>1 DEF TInv, TypeOK
<1>4. Shape'
  BY <1>3 DEF TInv, Shape, Storing
<1>5. \A v \in Users : /\ pc'[v] = "idle" <=> goal'[v] = "none"
                       /\ pc'[v] \in {"get", "call"} => goal'[v] \in {"first", "second"}
  BY <1>3 DEF TInv, TypeOK
<1> QED
  BY <1>2, <1>4, <1>5 DEF UserTypes

(* A coroutine that ends keeps the types. *)
LEMMA LeaveType == ASSUME TInv, NEW u \in Users, Leave(u) PROVE UserTypes'
  BY BecomeType, NoneOrOne DEF Leave, Places, Goals

(* A coroutine that gets a token from refresh keeps the types. *)
LEMMA ReturnType ==
    ASSUME TInv, NEW u \in Users, NEW t \in AtMostOne(Tokens), Return(u, t)
    PROVE  UserTypes'
<1>1. "call" \in Places /\ "get" \in Places /\ goal[u] \in Goals /\ "second" \in Goals
      /\ tok[u] \in AtMostOne(Tokens)
  BY DEF Places, Goals, TInv, TypeOK
<1>2. CASE goal[u] \in {"first", "second"} /\ Become(u, "call", goal[u], t)
  BY <1>1, <1>2, BecomeType
<1>3. CASE Become(u, "get", "second", tok[u])
  BY <1>1, <1>3, BecomeType
<1>4. CASE Leave(u)
  BY <1>4, LeaveType
<1> QED
  BY <1>2, <1>3, <1>4 DEF Return

(* A coroutine whose refresh or request is rejected keeps the types. *)
LEMMA RejectType ==
    ASSUME TInv, NEW u \in Users, Reject(u)
    PROVE  UserTypes'
<1>1. "drop" \in Places /\ "forced" \in Goals /\ tok[u] \in AtMostOne(Tokens)
  BY DEF Places, Goals, TInv, TypeOK
<1>2. CASE Become(u, "drop", "forced", tok[u])
  BY <1>1, <1>2, BecomeType
<1>3. CASE Leave(u)
  BY <1>3, LeaveType
<1> QED
  BY <1>2, <1>3 DEF Reject

(* What Shopee issues is a token. *)
LEMMA IssueType ==
    ASSUME TypeOK, NEW old, Issue(old)
    PROVE  /\ issued' \in Tokens /\ issued' = issued + 1
           /\ good' \in SUBSET Tokens /\ live' \in SUBSET Tokens
           /\ issued' \in good' /\ good' \subseteq good \union {issued'}
           /\ good \ old \subseteq good'
<1>1. issued' = issued + 1 /\ issued < MaxIssued /\ issued \in 0 .. MaxIssued
      /\ live' = live \union {issued'} /\ MaxIssued \in Nat
  BY TokenRefreshAssumption DEF Issue, TypeOK, Tokens
<1>2. issued' \in Tokens
  BY <1>1 DEF Tokens
<1> QED
  BY <1>1, <1>2 DEF Issue, TypeOK

(* The initial states have the types and the shape. *)
LEMMA TypeInit == Init => TInv
<1> SUFFICES ASSUME Init PROVE TypeOK /\ Shape
  BY DEF TInv
<1>1. 0 \in Tokens /\ MaxBegins \in Nat /\ MaxFaults \in Nat
  BY TokenRefreshAssumption DEF Tokens
<1>2. {} \in AtMostOne(Tokens) /\ {0} \in AtMostOne(Tokens) /\ {} \in AtMostOne(Users)
  BY <1>1, NoneOrOne
<1>3. Shape
  BY DEF Init, Shape, Storing
<1>4. /\ pc \in [Users -> Places] /\ goal \in [Users -> Goals]
      /\ tok \in [Users -> AtMostOne(Tokens)] /\ pair \in [Users -> AtMostOne(Tokens)]
  BY <1>2 DEF Init, Places, Goals
<1>5. {access, refresh, backup} \subseteq AtMostOne(Tokens) /\ lock \in AtMostOne(Users)
  BY <1>2 DEF Init
<1>6. issued \in Tokens /\ good \in SUBSET Tokens /\ live \in SUBSET Tokens
  BY <1>1 DEF Init
<1>7. begins \in 0 .. MaxBegins /\ faults \in 0 .. MaxFaults
  BY <1>1 DEF Init
<1>8. \A u \in Users : pc[u] = "idle" /\ goal[u] = "none"
  BY DEF Init
<1> QED
  BY <1>3, <1>4, <1>5, <1>6, <1>7, <1>8 DEF Init, TypeOK

(* Every step keeps the types and the shape. *)
LEMMA TypeStep == TInv /\ [Next]_vars => TInv'
<1> SUFFICES ASSUME TInv, [Next]_vars PROVE TInv'
  OBVIOUS
<1> USE DEF redisVars, userVars, shopeeVars, boundVars, historyVars
<1>a. /\ access \in AtMostOne(Tokens) /\ refresh \in AtMostOne(Tokens)
      /\ {} \in AtMostOne(Tokens) /\ {} \in AtMostOne(Users)
      /\ \A u \in Users : {u} \in AtMostOne(Users)
      /\ \A t \in Tokens : {t} \in AtMostOne(Tokens)
      /\ \A u \in Users : pair[u] \in AtMostOne(Tokens)
  BY NoneOrOne DEF TInv, TypeOK
<1>b. /\ {"lock", "wait", "read", "post", "access", "refresh", "unlock", "abort", "backup"}
            \subseteq Places
      /\ {"get", "call", "drop", "exchange", "idle"} \subseteq Places
      /\ {"none", "first", "forced", "second", "beat", "oauth"} \subseteq Goals
  BY DEF Places, Storing, Locked, Goals
<1>c. ASSUME UserTypes', UNCHANGED <<redisVars, backup, shopeeVars, boundVars, historyVars>>
      PROVE  TInv'
  BY <1>c DEF TInv, TypeOK, UserTypes
<1>1. ASSUME NEW u \in Users, Begin(u) PROVE TInv'
  <2>1. UserTypes'
    <3>1. CASE Become(u, "get", "first", {})
      BY <1>a, <1>b, <3>1, BecomeType
    <3>2. CASE Become(u, "lock", "beat", {})
      BY <1>a, <1>b, <3>2, BecomeType
    <3>3. CASE Become(u, "exchange", "oauth", {})
      BY <1>a, <1>b, <3>3, BecomeType
    <3> QED
      BY <1>1, <3>1, <3>2, <3>3 DEF Begin
  <2>2. begins' \in 0 .. MaxBegins
    BY <1>1, TokenRefreshAssumption DEF Begin, TInv, TypeOK
  <2> QED
    BY <1>1, <2>1, <2>2 DEF Begin, TInv, TypeOK, UserTypes
<1>2. ASSUME NEW u \in Users, GetAccess(u) PROVE TInv'
  <2>1. pc[u] = "get" /\ goal[u] \in {"first", "second"}
    BY <1>2 DEF GetAccess, TInv, TypeOK
  <2>2. CASE Become(u, "call", goal[u], access)
    BY <1>2, <1>a, <1>b, <1>c, <2>1, <2>2, BecomeType DEF GetAccess
  <2>3. CASE Move(u, "lock")
    <3>1. UserTypes'
      BY <1>b, <2>1, <2>3, MoveType DEF Storing
    <3> QED
      BY <1>2, <1>c, <3>1 DEF GetAccess
  <2> QED
    BY <1>2, <2>2, <2>3 DEF GetAccess
<1>3. ASSUME NEW u \in Users, CallEnds(u) PROVE TInv'
  BY <1>3, <1>c, LeaveType DEF CallEnds
<1>4. ASSUME NEW u \in Users, CallRejected(u) PROVE TInv'
  BY <1>4, <1>c, RejectType DEF CallRejected
<1>5. ASSUME NEW u \in Users, Drop(u) PROVE TInv'
  <2>1. goal[u] = "forced" /\ pc[u] = "drop"
    BY <1>5 DEF Drop, TInv, Shape
  <2>2. UserTypes'
    BY <1>5, <1>b, <2>1, MoveType DEF Drop, Storing
  <2> QED
    BY <1>5, <1>a, <2>2 DEF Drop, TInv, TypeOK, UserTypes
<1>6. ASSUME NEW u \in Users, Acquire(u) PROVE TInv'
  <2>1. pc[u] = "lock" /\ goal[u] # "oauth"
    BY <1>6 DEF Acquire, TInv, Shape
  <2>2. CASE lock' = {u} /\ Move(u, "read")
    <3>1. UserTypes'
      BY <1>b, <2>1, <2>2, MoveType DEF Storing
    <3> QED
      BY <1>6, <1>a, <2>2, <3>1 DEF Acquire, TInv, TypeOK, UserTypes
  <2>3. CASE Move(u, "wait") /\ UNCHANGED lock
    <3>1. UserTypes'
      BY <1>b, <2>1, <2>3, MoveType DEF Storing
    <3> QED
      BY <1>6, <1>c, <2>3, <3>1 DEF Acquire
  <2> QED
    BY <1>6, <2>2, <2>3 DEF Acquire
<1>7. ASSUME NEW u \in Users, Wait(u) PROVE TInv'
  BY <1>7, <1>a, <1>c, ReturnType, RejectType DEF Wait
<1>8. ASSUME NEW u \in Users, ReadRefresh(u) PROVE TInv'
  <2>1. /\ pc[u] = "read" /\ goal[u] # "oauth" /\ goal[u] # "none"
        /\ pc' = [pc EXCEPT ![u] = IF refresh = {} THEN "unlock" ELSE "post"]
        /\ pair' = [pair EXCEPT ![u] = refresh]
        /\ UNCHANGED <<goal, tok>>
    BY <1>8 DEF ReadRefresh, TInv, TypeOK, Shape
  <2>2. /\ pc' \in [Users -> Places] /\ pair' \in [Users -> AtMostOne(Tokens)]
    BY <1>a, <1>b, <2>1 DEF TInv, TypeOK
  <2>3. \A v \in Users : /\ pc'[v] = IF v = u THEN (IF refresh = {} THEN "unlock" ELSE "post") ELSE pc[v]
                         /\ pair'[v] = IF v = u THEN refresh ELSE pair[v]
    BY <2>1 DEF TInv, TypeOK
  <2>4. Shape'
    BY <2>1, <2>3 DEF TInv, Shape, Storing
  <2>5. UserTypes'
    BY <2>1, <2>2, <2>3, <2>4 DEF TInv, TypeOK, UserTypes
  <2> QED
    BY <1>8, <1>c, <2>5 DEF ReadRefresh
<1>9. ASSUME NEW u \in Users, NEW place \in {"access", "backup"}, goal[u] # "none",
             place = "backup" => goal[u] = "oauth", issued' \in Tokens, UNCHANGED <<goal, tok>>,
             pc' = [pc EXCEPT ![u] = place], pair' = [pair EXCEPT ![u] = {issued'}]
      PROVE  UserTypes'
  <2>1. /\ pc' \in [Users -> Places] /\ pair' \in [Users -> AtMostOne(Tokens)]
    BY <1>9, <1>a, <1>b DEF TInv, TypeOK
  <2>2. \A v \in Users : /\ pc'[v] = IF v = u THEN place ELSE pc[v]
                         /\ pair'[v] = IF v = u THEN {issued'} ELSE pair[v]
    BY <1>9 DEF TInv, TypeOK
  <2>3. Shape'
    BY <1>9, <2>2 DEF TInv, Shape, Storing
  <2> QED
    BY <1>9, <2>1, <2>2, <2>3 DEF TInv, TypeOK, UserTypes
<1>10. ASSUME NEW u \in Users, Answer(u) PROVE TInv'
  <2>1. issued' \in Tokens /\ good' \in SUBSET Tokens /\ live' \in SUBSET Tokens
    BY <1>10, IssueType DEF Answer, TInv
  <2>2. pc[u] = "post" /\ goal[u] # "none"
    BY <1>10 DEF Answer, TInv, TypeOK
  <2>3. UserTypes'
    BY <1>9, <1>10, <2>1, <2>2 DEF Answer
  <2> QED
    BY <1>10, <2>1, <2>3 DEF Answer, TInv, TypeOK, UserTypes
<1>11. ASSUME NEW u \in Users, Refuse(u) PROVE TInv'
  <2>1. /\ pc[u] = "post" /\ goal[u] # "oauth" /\ goal[u] # "none"
        /\ pc' = [pc EXCEPT ![u] = "unlock"]
        /\ pair' = [pair EXCEPT ![u] = {}]
        /\ UNCHANGED <<goal, tok>>
    BY <1>11 DEF Refuse, TInv, TypeOK, Shape
  <2>2. /\ pc' \in [Users -> Places] /\ pair' \in [Users -> AtMostOne(Tokens)]
    BY <1>a, <1>b, <2>1 DEF TInv, TypeOK
  <2>3. \A v \in Users : /\ pc'[v] = IF v = u THEN "unlock" ELSE pc[v]
                         /\ pair'[v] = IF v = u THEN {} ELSE pair[v]
    BY <2>1 DEF TInv, TypeOK
  <2>4. Shape'
    BY <2>1, <2>3 DEF TInv, Shape, Storing
  <2>5. UserTypes'
    BY <2>1, <2>2, <2>3, <2>4 DEF TInv, TypeOK, UserTypes
  <2> QED
    BY <1>11, <1>c, <2>5 DEF Refuse
<1>12. ASSUME NEW u \in Users, PostFails(u) PROVE TInv'
  <2>1. pc[u] = "post" /\ goal[u] # "oauth"
    BY <1>12 DEF PostFails, TInv, Shape
  <2>2. UserTypes'
    BY <1>12, <1>b, <2>1, MoveType DEF PostFails, Storing
  <2>3. CASE UNCHANGED <<shopeeVars, faults, spoilt>>
    BY <1>12, <2>2, <2>3 DEF PostFails, TInv, TypeOK, UserTypes
  <2>4. CASE faults < MaxFaults /\ faults' = faults + 1 /\ Issue(pair[u]) /\ spoilt' = TRUE
    <3>1. issued' \in Tokens /\ good' \in SUBSET Tokens /\ live' \in SUBSET Tokens
      BY <2>4, IssueType DEF TInv
    <3>2. faults' \in 0 .. MaxFaults
      BY <2>4, TokenRefreshAssumption DEF TInv, TypeOK
    <3> QED
      BY <1>12, <2>2, <2>4, <3>1, <3>2 DEF PostFails, TInv, TypeOK, UserTypes
  <2> QED
    BY <1>12, <2>3, <2>4 DEF PostFails
<1>13. ASSUME NEW u \in Users, StoreAccess(u) PROVE TInv'
  <2>1. pc[u] = "access" /\ pair[u] # {}
    BY <1>13 DEF StoreAccess, TInv, Shape, Storing
  <2>2. UserTypes'
    BY <1>13, <1>b, <2>1, MoveType DEF StoreAccess, Storing
  <2> QED
    BY <1>13, <1>a, <2>2 DEF StoreAccess, TInv, TypeOK, UserTypes
<1>14. ASSUME NEW u \in Users, StoreRefresh(u) PROVE TInv'
  <2>1. UserTypes'
    <3>1. CASE Leave(u)
      BY <3>1, LeaveType
    <3>2. CASE goal[u] # "oauth" /\ Move(u, "unlock")
      BY <1>14, <1>b, <3>2, MoveType DEF StoreRefresh, Storing
    <3> QED
      BY <1>14, <3>1, <3>2 DEF StoreRefresh
  <2> QED
    BY <1>14, <1>a, <2>1 DEF StoreRefresh, TInv, TypeOK, UserTypes
<1>15. ASSUME NEW u \in Users, Unlock(u) PROVE TInv'
  <2>1. UserTypes'
    BY <1>15, <1>a, ReturnType, RejectType, LeaveType DEF Unlock
  <2> QED
    BY <1>15, <1>a, <2>1 DEF Unlock, TInv, TypeOK, UserTypes
<1>16. ASSUME NEW u \in Users, Exchange(u) PROVE TInv'
  <2>1. CASE Leave(u) /\ UNCHANGED <<shopeeVars, faults, spoilt>>
    <3>1. UserTypes'
      BY <2>1, LeaveType
    <3> QED
      BY <1>16, <1>c, <2>1, <3>1 DEF Exchange
  <2>2. CASE /\ Issue(good) /\ spoilt' = OthersStore(u)
             /\ pc' = [pc EXCEPT ![u] = "backup"] /\ pair' = [pair EXCEPT ![u] = {issued'}]
             /\ UNCHANGED <<goal, tok, faults>>
    <3>1. issued' \in Tokens /\ good' \in SUBSET Tokens /\ live' \in SUBSET Tokens
      BY <2>2, IssueType DEF TInv
    <3>2. goal[u] = "oauth"
      BY <1>16 DEF Exchange, TInv, Shape
    <3>3. UserTypes'
      BY <1>9, <2>2, <3>1, <3>2
    <3>4. spoilt' \in BOOLEAN
      BY <2>2 DEF OthersStore
    <3>5. UNCHANGED <<access, refresh, backup, lock, begins, faults, lapsed>>
      BY <1>16, <2>2 DEF Exchange
    <3> QED
      BY <3>1, <3>3, <3>4, <3>5 DEF TInv, TypeOK, UserTypes
  <2>3. CASE /\ Leave(u) /\ Issue(good) /\ spoilt' = TRUE
             /\ faults < MaxFaults /\ faults' = faults + 1
    <3>1. UserTypes'
      BY <2>3, LeaveType
    <3>2. issued' \in Tokens /\ good' \in SUBSET Tokens /\ live' \in SUBSET Tokens
      BY <2>3, IssueType DEF TInv
    <3>3. faults' \in 0 .. MaxFaults
      BY <2>3, TokenRefreshAssumption DEF TInv, TypeOK
    <3>4. UNCHANGED <<access, refresh, backup, lock, begins, lapsed>>
      BY <1>16 DEF Exchange
    <3> QED
      BY <2>3, <3>1, <3>2, <3>3, <3>4 DEF TInv, TypeOK, UserTypes
  <2> QED
    BY <1>16, <2>1, <2>2, <2>3 DEF Exchange
<1>17. ASSUME NEW u \in Users, Backup(u) PROVE TInv'
  <2>1. pc[u] = "backup" /\ pair[u] # {}
    BY <1>17 DEF Backup, TInv, Shape, Storing
  <2>2. CASE backup' = pair[u] /\ Move(u, "access") /\ UNCHANGED <<faults, spoilt>>
    <3>1. UserTypes'
      BY <1>b, <2>1, <2>2, MoveType
    <3> QED
      BY <1>17, <1>a, <2>2, <3>1 DEF Backup, TInv, TypeOK, UserTypes
  <2>3. CASE /\ faults < MaxFaults /\ faults' = faults + 1 /\ spoilt' = TRUE
             /\ Leave(u) /\ UNCHANGED backup
    <3>1. UserTypes'
      BY <2>3, LeaveType
    <3>2. faults' \in 0 .. MaxFaults
      BY <2>3, TokenRefreshAssumption DEF TInv, TypeOK
    <3> QED
      BY <1>17, <2>3, <3>1, <3>2 DEF Backup, TInv, TypeOK, UserTypes
  <2> QED
    BY <1>17, <2>2, <2>3 DEF Backup
<1>18. ASSUME NEW u \in Users, Crash(u) PROVE TInv'
  <2>1. UserTypes'
    BY <1>18, LeaveType DEF Crash
  <2>2. faults' \in 0 .. MaxFaults /\ spoilt' \in BOOLEAN
    BY <1>18, TokenRefreshAssumption DEF Crash, TInv, TypeOK
  <2> QED
    BY <1>18, <2>1, <2>2 DEF Crash, TInv, TypeOK, UserTypes
<1>19. ASSUME AccessEnds PROVE TInv'
  <2>1. {access', refresh', backup'} \subseteq AtMostOne(Tokens) /\ live' \in SUBSET Tokens
    BY <1>19, <1>a DEF AccessEnds, TInv, TypeOK
  <2> QED
    BY <1>19, <2>1 DEF AccessEnds, TInv, TypeOK, Shape
<1>20. ASSUME LockEnds PROVE TInv'
  <2>1. /\ lock' = {} /\ faults' \in 0 .. MaxFaults /\ lapsed' \in BOOLEAN
        /\ UNCHANGED <<access, refresh, backup, userVars, shopeeVars, begins, spoilt>>
    <3>1. PICK u \in lock :
               /\ lock' = {}
               /\ \/ faults < MaxFaults /\ faults' = faults + 1 /\ lapsed' = TRUE
                  \/ UNCHANGED <<faults, lapsed>>
               /\ UNCHANGED <<access, refresh, backup, userVars, shopeeVars, begins, spoilt>>
      BY <1>20 DEF LockEnds
    <3>2. faults \in 0 .. MaxFaults /\ MaxFaults \in Nat /\ lapsed \in BOOLEAN
      BY TokenRefreshAssumption DEF TInv, TypeOK
    <3>3. faults' \in 0 .. MaxFaults
      BY <3>1, <3>2
    <3>4. lapsed' \in BOOLEAN
      BY <3>1, <3>2, Zenon
    <3> QED
      BY <3>1, <3>3, <3>4
  <2> QED
    BY <1>a, <2>1 DEF TInv, TypeOK, Shape
<1>21. CASE UNCHANGED vars
  BY <1>21 DEF vars, TInv, TypeOK, Shape
<1> QED
  BY <1>1, <1>2, <1>3, <1>4, <1>5, <1>6, <1>7, <1>8, <1>10, <1>11, <1>12, <1>13, <1>14,
     <1>15, <1>16, <1>17, <1>18, <1>19, <1>20, <1>21 DEF Next, Go

(* The types and the shape hold in every state. *)
LEMMA TypeKept == Spec => []TInv
<1> QED
  BY TypeInit, TypeStep, PTL DEF Spec

(* Type correctness of the keys, the coroutines and Shopee's side.         *)
THEOREM TypeCorrect == Spec => []TypeOK
<1>1. TInv => TypeOK
  BY DEF TInv
<1> QED
  BY <1>1, TypeKept, PTL

----------------------------------------------------------------------------
(* A coroutine between SET NX and DELETE is the one that set the lock,     *)
(* until the lock ends under it.                                           *)
LockInv == ~lapsed => \A u \in Users : Refreshing(u) => lock = {u}

(* What the ways of a coroutine mean for its place.                        *)
LEMMA WayOut ==
    ASSUME TInv, NEW u \in Users, NEW t,
           Leave(u) \/ Return(u, t) \/ Reject(u)
    PROVE  /\ pc'[u] \in {"idle", "call", "get", "drop"}
           /\ \A v \in Users : v # u => pc'[v] = pc[v] /\ goal'[v] = goal[v]
  BY DEF TInv, TypeOK, Leave, Return, Reject, Become

(* Every step keeps the lock with the coroutine that is refreshing. *)
LEMMA LockStep == TInv /\ LockInv /\ [Next]_vars => LockInv'
<1> SUFFICES ASSUME TInv, LockInv, [Next]_vars, ~lapsed'
             PROVE  \A u \in Users : Refreshing(u)' => lock' = {u}
  BY DEF LockInv
<1> USE DEF redisVars, userVars, shopeeVars, boundVars, historyVars
<1>a. ASSUME NEW u \in Users, lock' = lock, lapsed' = lapsed,
             Refreshing(u)' => Refreshing(u),
             \A v \in Users : v # u => pc'[v] = pc[v] /\ goal'[v] = goal[v]
      PROVE  \A v \in Users : Refreshing(v)' => lock' = {v}
  BY <1>a DEF LockInv, Refreshing
<1>b. \A v \in Users : Refreshing(v) <=> pc[v] \in Locked /\ goal[v] # "oauth"
  BY DEF Refreshing
<1>c. Locked = {"read", "post", "access", "refresh", "unlock", "abort"}
  BY DEF Locked
<1>1. ASSUME NEW u \in Users, Begin(u) PROVE \A v \in Users : Refreshing(v)' => lock' = {v}
  BY <1>1, <1>a DEF Begin, Become, TInv, TypeOK, Refreshing, Locked
<1>2. ASSUME NEW u \in Users,
             GetAccess(u) \/ CallEnds(u) \/ CallRejected(u) \/ Drop(u) \/ Wait(u)
      PROVE  \A v \in Users : Refreshing(v)' => lock' = {v}
  <2>1. /\ lock' = lock /\ lapsed' = lapsed
        /\ pc'[u] \in {"idle", "call", "get", "drop", "lock"}
        /\ \A v \in Users : v # u => pc'[v] = pc[v] /\ goal'[v] = goal[v]
    BY <1>2, WayOut
    DEF GetAccess, CallEnds, CallRejected, Drop, Wait, Move, Become, TInv, TypeOK
  <2> QED
    BY <1>a, <1>c, <2>1 DEF Refreshing
<1>3. ASSUME NEW u \in Users, Acquire(u) PROVE \A v \in Users : Refreshing(v)' => lock' = {v}
  <2>1. CASE lock = {} /\ lock' = {u}
    <3>1. \A v \in Users : v # u => ~Refreshing(v)'
      BY <1>3, <2>1 DEF Acquire, LockInv, Refreshing, Move, TInv, TypeOK
    <3> QED
      BY <2>1, <3>1
  <2>2. CASE lock' = lock /\ Move(u, "wait")
    BY <1>3, <1>a, <2>2 DEF Acquire, Refreshing, Locked, Move, TInv, TypeOK
  <2> QED
    BY <1>3, <2>1, <2>2 DEF Acquire
<1>4. ASSUME NEW u \in Users,
             \/ ReadRefresh(u) \/ Answer(u) \/ Refuse(u) \/ PostFails(u)
             \/ StoreAccess(u) \/ StoreRefresh(u)
      PROVE  \A v \in Users : Refreshing(v)' => lock' = {v}
  <2>1. /\ lock' = lock /\ lapsed' = lapsed /\ pc[u] \in Locked
        /\ \A v \in Users : v # u => pc'[v] = pc[v] /\ goal'[v] = goal[v]
    BY <1>4 DEF ReadRefresh, Answer, Refuse, PostFails, StoreAccess, StoreRefresh,
                Move, Leave, Become, Locked, TInv, TypeOK
  <2>2. Refreshing(u)' => goal[u] # "oauth"
    BY <1>4 DEF ReadRefresh, Answer, Refuse, PostFails, StoreAccess, StoreRefresh,
                Move, Leave, Become, Locked, TInv, TypeOK, Refreshing
  <2> QED
    BY <1>a, <2>1, <2>2 DEF Refreshing
<1>5. ASSUME NEW u \in Users, Unlock(u) PROVE \A v \in Users : Refreshing(v)' => lock' = {v}
  <2>1. Refreshing(u) /\ lapsed' = lapsed
    BY <1>5 DEF Unlock, Refreshing, Locked, TInv, Shape
  <2>2. \A v \in Users : v # u => ~Refreshing(v)
    BY <2>1 DEF LockInv
  <2>3. /\ pc'[u] \in {"idle", "call", "get", "drop"}
        /\ \A v \in Users : v # u => pc'[v] = pc[v] /\ goal'[v] = goal[v]
    BY <1>5, WayOut DEF Unlock
  <2> QED
    BY <1>c, <2>2, <2>3 DEF Refreshing
<1>6. ASSUME NEW u \in Users, Exchange(u) \/ Backup(u) PROVE \A v \in Users : Refreshing(v)' => lock' = {v}
  <2>1. goal[u] = "oauth"
    BY <1>6 DEF Exchange, Backup, TInv, Shape
  <2>2. /\ lock' = lock /\ lapsed' = lapsed /\ ~Refreshing(u)'
        /\ \A v \in Users : v # u => pc'[v] = pc[v] /\ goal'[v] = goal[v]
    BY <1>6, <2>1 DEF Exchange, Backup, Move, Leave, Become, Locked, Refreshing, TInv, TypeOK
  <2> QED
    BY <1>a, <2>2
<1>7. ASSUME NEW u \in Users, Crash(u) PROVE \A v \in Users : Refreshing(v)' => lock' = {v}
  <2>1. /\ lock' = lock /\ lapsed' = lapsed /\ ~Refreshing(u)'
        /\ \A v \in Users : v # u => pc'[v] = pc[v] /\ goal'[v] = goal[v]
    BY <1>7 DEF Crash, Leave, Become, Locked, Refreshing, TInv, TypeOK
  <2> QED
    BY <1>a, <2>1
<1>8. ASSUME AccessEnds PROVE \A v \in Users : Refreshing(v)' => lock' = {v}
  BY <1>8 DEF AccessEnds, LockInv, Refreshing
<1>9. ASSUME LockEnds PROVE \A v \in Users : Refreshing(v)' => lock' = {v}
  <2>1. PICK u \in lock :
             /\ ~(pc[u] \in Locked /\ goal[u] # "oauth")
             /\ UNCHANGED <<pc, goal, lapsed>>
    BY <1>9 DEF LockEnds
  <2>2. \A v \in Users : ~Refreshing(v)
    BY <2>1 DEF LockInv, Refreshing
  <2> QED
    BY <2>1, <2>2 DEF Refreshing
<1>10. CASE UNCHANGED vars
  BY <1>10 DEF vars, LockInv, Refreshing
<1> QED
  BY <1>1, <1>2, <1>3, <1>4, <1>5, <1>6, <1>7, <1>8, <1>9, <1>10 DEF Next, Go

(* The refresh lock excludes: however many coroutines find the access      *)
(* token missing or rejected, one at a time trades the refresh token in.   *)
THEOREM OneRefresher == Spec => []SingleRefresher
<1>1. Init => LockInv
  BY DEF Init, LockInv, Refreshing, Locked
<1>2. LockInv => SingleRefresher
  BY DEF LockInv, SingleRefresher
<1> QED
  BY <1>1, <1>2, TypeKept, LockStep, PTL DEF Spec

----------------------------------------------------------------------------
(* Nothing holds a token Shopee has not issued yet.                        *)
IssuedInv ==
    /\ access \union refresh \union good \subseteq 0 .. issued
    /\ \A u \in Users : tok[u] \union pair[u] \subseteq 0 .. issued
    /\ issued \in good

(* A coroutine that holds the pair it was given, and has not returned.     *)
Holds(u) == pc[u] \in Storing \union {"unlock"} /\ pair[u] # {}

(* A new pair has one holder.                                              *)
HolderInv == \A u, v \in Users : Holds(u) /\ Holds(v) /\ pair[u] = pair[v] => u = v

(* A pair on its way to Redis is good, is not there yet and is not being   *)
(* traded in; the token in Redis is good or on its way out.                *)
KeptInv ==
    ~spoilt =>
        /\ \A u \in Users : pc[u] \in Storing =>
              /\ pair[u] \subseteq good /\ pair[u] # refresh
              /\ \A v \in Users : pc[v] = "post" => pair[v] # pair[u]
        /\ refresh \subseteq good \/ \E u \in Users : pc[u] \in Storing

(* A pair that is not published is nobody's access token, and a rejected   *)
(* token never comes back.                                                 *)
FreshInv ==
    /\ \A u \in Users : pc[u] \in {"backup", "access"} =>
          /\ access \intersect pair[u] = {}
          /\ \A v \in Users : tok[v] \intersect pair[u] = {}
    /\ \A u \in Users : goal[u] \in {"forced", "second"} /\ pc[u] \notin {"drop", "call"} =>
          /\ access \intersect tok[u] = {}
          /\ Holds(u) => pair[u] \intersect tok[u] = {}

(* What a pair that Shopee issues changes. *)
LEMMA IssueFacts ==
    ASSUME TInv, NEW old, Issue(old)
    PROVE  /\ issued \in Nat /\ issued' = issued + 1
           /\ issued' \in good' /\ good' \subseteq good \union {issued'} /\ good \ old \subseteq good'
  BY IssueType, TokenRefreshAssumption DEF TInv, TypeOK, Tokens

(* A set of at most one token that is not empty is that token.             *)
LEMMA OneToken ==
    ASSUME NEW S \in AtMostOne(Tokens), S # {}
    PROVE  \E t \in Tokens : S = {t}
  BY DEF AtMostOne

(* Every step uses only tokens that were issued before it or in it. *)
LEMMA IssuedStep == TInv /\ IssuedInv /\ [Next]_vars => IssuedInv'
<1> SUFFICES ASSUME TInv, IssuedInv, [Next]_vars PROVE IssuedInv'
  OBVIOUS
<1> USE DEF redisVars, userVars, shopeeVars, boundVars, historyVars
<1>0. /\ tok \in [Users -> AtMostOne(Tokens)] /\ pair \in [Users -> AtMostOne(Tokens)]
      /\ issued \in Nat /\ pc \in [Users -> Places]
  BY TokenRefreshAssumption DEF TInv, TypeOK, Tokens
<1>1. ASSUME NEW u \in Users,
             UNCHANGED <<issued, good>>,
             access' \subseteq access \union pair[u], refresh' \subseteq refresh \union pair[u],
             tok'[u] \subseteq tok[u] \union access \union pair[u],
             pair'[u] \subseteq pair[u] \union refresh,
             \A v \in Users : v # u => tok'[v] = tok[v] /\ pair'[v] = pair[v]
      PROVE  IssuedInv'
  BY <1>1 DEF IssuedInv
<1>2. ASSUME NEW u \in Users, Begin(u) \/ CallEnds(u) \/ CallRejected(u) \/ Drop(u)
                                \/ Acquire(u) \/ Refuse(u) \/ Crash(u)
      PROVE  IssuedInv'
  BY <1>0, <1>1, <1>2 DEF Begin, CallEnds, CallRejected, Drop, Acquire, Refuse, Crash,
                          Move, Leave, Become, Reject
<1>3. ASSUME NEW u \in Users, GetAccess(u) \/ Wait(u) \/ ReadRefresh(u)
      PROVE  IssuedInv'
  BY <1>0, <1>1, <1>3 DEF GetAccess, Wait, ReadRefresh, Move, Leave, Become, Return, Reject
<1>4. ASSUME NEW u \in Users, StoreAccess(u) \/ StoreRefresh(u) \/ Unlock(u)
      PROVE  IssuedInv'
  BY <1>0, <1>1, <1>4 DEF StoreAccess, StoreRefresh, Unlock, Move, Leave, Become, Return, Reject
<1>5. ASSUME NEW u \in Users, NEW old, Issue(old),
             UNCHANGED <<access, refresh>>,
             tok' = tok \/ tok' = [tok EXCEPT ![u] = {}],
             pair' = pair \/ pair' = [pair EXCEPT ![u] = {issued'}]
                          \/ pair' = [pair EXCEPT ![u] = {}]
      PROVE  IssuedInv'
  <2>1. /\ issued' = issued + 1 /\ issued' \in good' /\ good' \subseteq good \union {issued'}
        /\ 0 .. issued \subseteq 0 .. issued' /\ issued' \in 0 .. issued'
    BY <1>0, <1>5, IssueFacts
  <2>2. \A v \in Users : tok'[v] \subseteq tok[v] /\ pair'[v] \subseteq pair[v] \union {issued'}
    BY <1>0, <1>5
  <2> QED
    BY <1>5, <2>1, <2>2 DEF IssuedInv
<1>6. ASSUME NEW u \in Users, Answer(u) PROVE IssuedInv'
  BY <1>5, <1>6 DEF Answer
<1>7. ASSUME NEW u \in Users, PostFails(u) PROVE IssuedInv'
  <2>1. CASE Issue(pair[u])
    BY <1>5, <1>7, <2>1 DEF PostFails, Move
  <2>2. CASE UNCHANGED shopeeVars
    BY <1>0, <1>1, <1>7, <2>2 DEF PostFails, Move
  <2> QED
    BY <1>7, <2>1, <2>2 DEF PostFails
<1>8. ASSUME NEW u \in Users, Exchange(u) PROVE IssuedInv'
  <2>1. CASE Issue(good) /\ pair' = [pair EXCEPT ![u] = {issued'}] /\ tok' = tok
    BY <1>5, <1>8, <2>1 DEF Exchange
  <2>2. CASE Leave(u) /\ UNCHANGED shopeeVars
    BY <1>0, <1>1, <1>8, <2>2 DEF Exchange, Leave, Become
  <2>3. CASE Issue(good) /\ Leave(u)
    BY <1>5, <1>8, <2>3 DEF Exchange, Leave, Become
  <2> QED
    BY <1>8, <2>1, <2>2, <2>3 DEF Exchange
<1>9. ASSUME NEW u \in Users, Backup(u) PROVE IssuedInv'
  BY <1>0, <1>1, <1>9 DEF Backup, Move, Leave, Become
<1>10. ASSUME AccessEnds \/ LockEnds PROVE IssuedInv'
  BY <1>10 DEF AccessEnds, LockEnds, IssuedInv
<1>11. CASE UNCHANGED vars
  BY <1>11 DEF vars, IssuedInv
<1> QED
  BY <1>2, <1>3, <1>4, <1>6, <1>7, <1>8, <1>9, <1>10, <1>11 DEF Next, Go

(* A step of one coroutine leaves the others where they are.               *)
Alone(u) ==
    \A v \in Users : v # u => /\ pc'[v] = pc[v] /\ goal'[v] = goal[v]
                              /\ tok'[v] = tok[v] /\ pair'[v] = pair[v]

(* A coroutine's step changes its own variables only. *)
LEMMA StepAlone ==
    ASSUME TInv, NEW u \in Users, Begin(u) \/ Go(u) \/ Crash(u)
    PROVE  Alone(u)
<1> USE DEF Alone, TInv, TypeOK, Move, Leave, Become
<1>1. ASSUME Begin(u) \/ Crash(u) PROVE Alone(u)
  BY <1>1 DEF Begin, Crash
<1>2. ASSUME GetAccess(u) \/ CallEnds(u) \/ CallRejected(u) \/ Drop(u) PROVE Alone(u)
  BY <1>2 DEF GetAccess, CallEnds, CallRejected, Drop, Reject
<1>3. ASSUME Acquire(u) \/ Wait(u) \/ ReadRefresh(u) PROVE Alone(u)
  BY <1>3 DEF Acquire, Wait, ReadRefresh, Return, Reject
<1>4. ASSUME Answer(u) \/ Refuse(u) \/ PostFails(u) PROVE Alone(u)
  BY <1>4, Zenon DEF Answer, Refuse, PostFails, userVars
<1>5. ASSUME StoreAccess(u) \/ StoreRefresh(u) \/ Unlock(u) PROVE Alone(u)
  BY <1>5 DEF StoreAccess, StoreRefresh, Unlock, Return, Reject
<1>6. ASSUME Exchange(u) \/ Backup(u) PROVE Alone(u)
  BY <1>6 DEF Exchange, Backup
<1> QED
  BY <1>1, <1>2, <1>3, <1>4, <1>5, <1>6 DEF Go

(* A coroutine that holds a pair after a step held it before, unless       *)
(* Shopee has just issued it.                                              *)
Keeps(u)   == Holds(u)' => Holds(u) /\ pair'[u] = pair[u]
Obtains(u) == /\ issued' = issued + 1 /\ pair'[u] = {issued'}
              /\ pc[u] \in {"post", "exchange"} /\ pc'[u] \in {"access", "backup"}
              /\ goal'[u] = goal[u] /\ tok'[u] = tok[u]

(* After its step a coroutine holds what it held, or the pair Shopee has   *)
(* issued in that step.                                                    *)
LEMMA StepHolds ==
    ASSUME TInv, NEW u \in Users, Begin(u) \/ Go(u) \/ Crash(u)
    PROVE  Keeps(u) \/ Obtains(u)
<1> USE DEF Keeps, Holds, Storing, TInv, TypeOK, Move, Leave, Become
<1>1. ASSUME Begin(u) \/ Crash(u) PROVE Keeps(u)
  BY <1>1 DEF Begin, Crash
<1>2. ASSUME GetAccess(u) \/ CallEnds(u) \/ CallRejected(u) \/ Drop(u) PROVE Keeps(u)
  BY <1>2 DEF GetAccess, CallEnds, CallRejected, Drop, Reject
<1>3. ASSUME Acquire(u) \/ Wait(u) \/ ReadRefresh(u) PROVE Keeps(u)
  BY <1>3 DEF Acquire, Wait, ReadRefresh, Return, Reject
<1>4. ASSUME Answer(u) PROVE Obtains(u)
  BY <1>4, IssueFacts DEF Answer, Obtains
<1>5. ASSUME Refuse(u) \/ PostFails(u) PROVE Keeps(u)
  BY <1>5 DEF Refuse, PostFails
<1>6. ASSUME StoreAccess(u) \/ StoreRefresh(u) \/ Unlock(u) PROVE Keeps(u)
  BY <1>6 DEF StoreAccess, StoreRefresh, Unlock, Return, Reject
<1>7. ASSUME Exchange(u) PROVE Keeps(u) \/ Obtains(u)
  BY <1>7, IssueFacts DEF Exchange, Obtains
<1>8. ASSUME Backup(u) PROVE Keeps(u)
  BY <1>8 DEF Backup
<1> QED
  BY <1>1, <1>2, <1>3, <1>4, <1>5, <1>6, <1>7, <1>8 DEF Go

(* Every step keeps the holders of pairs apart. *)
LEMMA HolderStep == TInv /\ IssuedInv /\ HolderInv /\ [Next]_vars => HolderInv'
<1> SUFFICES ASSUME TInv, IssuedInv, HolderInv, [Next]_vars PROVE HolderInv'
  OBVIOUS
<1>0. issued \in Nat /\ \A v \in Users : issued + 1 \notin pair[v]
  BY TokenRefreshAssumption DEF TInv, TypeOK, Tokens, IssuedInv
<1>1. ASSUME NEW u \in Users, Begin(u) \/ Go(u) \/ Crash(u) PROVE HolderInv'
  <2>1. Alone(u)
    BY <1>1, StepAlone
  <2>2. CASE Keeps(u)
    BY <2>1, <2>2 DEF Alone, Keeps, Holds, HolderInv
  <2>3. CASE Obtains(u)
    <3>1. \A v \in Users : v # u => pair'[v] # pair'[u]
      BY <1>0, <2>1, <2>3 DEF Alone, Obtains
    <3> QED
      BY <2>1, <3>1 DEF Alone, Holds, HolderInv
  <2> QED
    BY <1>1, <2>2, <2>3, StepHolds
<1>2. CASE AccessEnds \/ LockEnds \/ UNCHANGED vars
  BY <1>2 DEF AccessEnds, LockEnds, vars, userVars, HolderInv, Holds
<1> QED
  BY <1>1, <1>2 DEF Next

----------------------------------------------------------------------------
(* Every step keeps a good refresh token in Redis or on its way there, and *)
(* every pair on its way unlike the one in Redis.                          *)
LEMMA KeptStep ==
    ASSUME TInv, IssuedInv, HolderInv, KeptInv, [Next]_vars
    PROVE  KeptInv'
<1> USE DEF redisVars, userVars, shopeeVars, boundVars, historyVars
<1>0. /\ issued \in Nat /\ access \union refresh \union good \subseteq 0 .. issued
      /\ \A v \in Users : tok[v] \union pair[v] \subseteq 0 .. issued
      /\ \A v \in Users : pc[v] \in Storing \union {"post"} => \E t : pair[v] = {t}
  <2>1. \A v \in Users : pair[v] \in AtMostOne(Tokens)
    BY DEF TInv, TypeOK
  <2>2. \A v \in Users : pc[v] \in Storing \union {"post"} => pair[v] # {}
    BY DEF TInv, Shape
  <2>3. \A v \in Users : pc[v] \in Storing \union {"post"} => \E t : pair[v] = {t}
    BY <2>1, <2>2, OneToken
  <2>4. issued \in Nat
    BY TokenRefreshAssumption DEF TInv, TypeOK, Tokens
  <2> QED
    BY <2>3, <2>4 DEF IssuedInv
(* A step that stores nothing and trades nothing in. *)
<1>a. ASSUME NEW u \in Users, Alone(u), UNCHANGED <<good, refresh, spoilt>>,
             pc'[u] \in Storing <=> pc[u] \in Storing,
             pc'[u] \in Storing => pair'[u] = pair[u],
             pc'[u] = "post" => pair'[u] = refresh
      PROVE  KeptInv'
  <2> SUFFICES ASSUME ~spoilt
               PROVE  /\ \A v \in Users : pc'[v] \in Storing =>
                            /\ pair'[v] \subseteq good /\ pair'[v] # refresh
                            /\ \A w \in Users : pc'[w] = "post" => pair'[w] # pair'[v]
                      /\ refresh \subseteq good \/ \E v \in Users : pc'[v] \in Storing
    BY <1>a DEF KeptInv
  <2>1. \A v \in Users : pc'[v] \in Storing => pc[v] \in Storing /\ pair'[v] = pair[v]
    BY <1>a DEF Alone
  <2>2. \A v \in Users : pc[v] \in Storing => pc'[v] \in Storing
    BY <1>a DEF Alone
  <2>3. \A w \in Users : pc'[w] = "post" => pair'[w] = refresh \/ (pc[w] = "post" /\ pair'[w] = pair[w])
    BY <1>a DEF Alone
  <2> QED
    BY <2>1, <2>2, <2>3 DEF KeptInv
<1>1. ASSUME NEW u \in Users, Begin(u) PROVE KeptInv'
  <2>1. Alone(u)
    BY <1>1, StepAlone
  <2>2. pc[u] = "idle" /\ pc'[u] \in {"get", "lock", "exchange"} /\ UNCHANGED <<good, refresh, spoilt>>
    BY <1>1 DEF Begin, Become, TInv, TypeOK
  <2> QED
    BY <1>a, <2>1, <2>2 DEF Storing
<1>2. ASSUME NEW u \in Users, GetAccess(u) \/ CallEnds(u) \/ CallRejected(u) \/ Drop(u)
      PROVE  KeptInv'
  <2>1. Alone(u)
    BY <1>2, StepAlone DEF Go
  <2>2. /\ pc[u] \in {"get", "call", "drop"} /\ pc'[u] \in {"idle", "call", "lock", "drop"}
        /\ UNCHANGED <<good, refresh, spoilt>>
    BY <1>2 DEF GetAccess, CallEnds, CallRejected, Drop, Move, Become, Reject, Leave, TInv, TypeOK
  <2> QED
    BY <1>a, <2>1, <2>2 DEF Storing
<1>3. ASSUME NEW u \in Users, Acquire(u) \/ Wait(u) \/ ReadRefresh(u) PROVE KeptInv'
  <2>1. Alone(u)
    BY <1>3, StepAlone DEF Go
  <2>2. /\ pc[u] \in {"lock", "wait", "read"} /\ pc'[u] \notin Storing
        /\ pc'[u] = "post" => pair'[u] = refresh
        /\ UNCHANGED <<good, refresh, spoilt>>
    BY <1>3 DEF Acquire, Wait, ReadRefresh, Move, Become, Return, Reject, Leave, TInv, TypeOK, Storing
  <2> QED
    BY <1>a, <2>1, <2>2 DEF Storing
<1>4. ASSUME NEW u \in Users, Answer(u) PROVE KeptInv'
  <2>1. Alone(u) /\ Obtains(u)
    BY <1>4, StepAlone, IssueFacts DEF Go, Answer, Obtains, TInv, TypeOK
  <2>2. /\ good \ pair[u] \subseteq good' /\ issued' \in good' /\ issued' = issued + 1
        /\ UNCHANGED <<refresh, spoilt>> /\ pc[u] = "post" /\ pc'[u] = "access"
    BY <1>4, IssueFacts DEF Answer, TInv, TypeOK
  <2> SUFFICES ASSUME ~spoilt
               PROVE  /\ \A v \in Users : pc'[v] \in Storing =>
                            /\ pair'[v] \subseteq good' /\ pair'[v] # refresh
                            /\ \A w \in Users : pc'[w] = "post" => pair'[w] # pair'[v]
                      /\ \E v \in Users : pc'[v] \in Storing
    BY <2>2 DEF KeptInv
  <2>3. \A w \in Users : pc'[w] = "post" => w # u /\ pc[w] = "post" /\ pair'[w] = pair[w]
    BY <2>1, <2>2 DEF Alone
  <2>4. ASSUME NEW v \in Users, pc'[v] \in Storing
        PROVE  /\ pair'[v] \subseteq good' /\ pair'[v] # refresh
               /\ \A w \in Users : pc'[w] = "post" => pair'[w] # pair'[v]
    <3>1. CASE v = u
      BY <1>0, <2>1, <2>2, <2>3, <3>1 DEF Obtains
    <3>2. CASE v # u
      <4>1. pc[v] \in Storing /\ pair'[v] = pair[v]
        BY <2>1, <2>4, <3>2 DEF Alone
      <4>2. /\ pair[v] \subseteq good /\ pair[v] # refresh /\ pair[v] # pair[u]
            /\ \A w \in Users : pc[w] = "post" => pair[w] # pair[v]
        BY <2>2, <4>1 DEF KeptInv
      <4>3. pair[v] \subseteq good \ pair[u]
        BY <1>0, <2>2, <4>1, <4>2
      <4> QED
        BY <2>2, <2>3, <4>1, <4>2, <4>3
    <3> QED
      BY <3>1, <3>2
  <2> QED
    BY <2>2, <2>4 DEF Storing
<1>5. ASSUME NEW u \in Users, Refuse(u) \/ PostFails(u) PROVE KeptInv'
  <2>1. Alone(u)
    BY <1>5, StepAlone DEF Go
  <2>2. CASE spoilt' = TRUE
    BY <2>2 DEF KeptInv
  <2>3. CASE UNCHANGED <<good, refresh, spoilt>>
    BY <1>5, <1>a, <2>1, <2>3 DEF Refuse, PostFails, Move, Storing, TInv, TypeOK
  <2> QED
    BY <1>5, <2>2, <2>3 DEF Refuse, PostFails
<1>6. ASSUME NEW u \in Users, StoreAccess(u) PROVE KeptInv'
  <2>1. Alone(u)
    BY <1>6, StepAlone DEF Go
  <2> QED
    BY <1>6, <1>a, <2>1 DEF StoreAccess, Move, Storing, TInv, TypeOK
<1>7. ASSUME NEW u \in Users, StoreRefresh(u) PROVE KeptInv'
  <2>1. Alone(u)
    BY <1>7, StepAlone DEF Go
  <2>2. /\ pc[u] = "refresh" /\ pc'[u] \in {"idle", "unlock"} /\ refresh' = pair[u]
        /\ UNCHANGED <<good, spoilt>>
    BY <1>7 DEF StoreRefresh, Move, Leave, Become, TInv, TypeOK
  <2> SUFFICES ASSUME ~spoilt
               PROVE  /\ \A v \in Users : pc'[v] \in Storing =>
                            /\ pair'[v] \subseteq good /\ pair'[v] # pair[u]
                            /\ \A w \in Users : pc'[w] = "post" => pair'[w] # pair'[v]
                      /\ pair[u] \subseteq good
    BY <2>2 DEF KeptInv
  <2>3. pair[u] \subseteq good
    BY <2>2 DEF KeptInv, Storing
  <2>4. ASSUME NEW v \in Users, pc'[v] \in Storing
        PROVE  v # u /\ pc[v] \in Storing /\ pair'[v] = pair[v] /\ pair[v] # pair[u]
    <3>1. v # u /\ pc[v] \in Storing /\ pair'[v] = pair[v]
      BY <2>1, <2>2, <2>4 DEF Alone, Storing
    <3>2. Holds(v) /\ Holds(u)
      BY <2>2, <3>1 DEF Holds, TInv, Shape, Storing
    <3> QED
      BY <3>1, <3>2 DEF HolderInv
  <2>5. \A w \in Users : pc'[w] = "post" => pc[w] = "post" /\ pair'[w] = pair[w]
    BY <2>1, <2>2 DEF Alone
  <2> QED
    BY <2>3, <2>4, <2>5 DEF KeptInv
<1>8. ASSUME NEW u \in Users, Unlock(u) PROVE KeptInv'
  <2>1. Alone(u)
    BY <1>8, StepAlone DEF Go
  <2>2. /\ pc[u] \in {"unlock", "abort"} /\ pc'[u] \in {"idle", "call", "get", "drop"}
        /\ UNCHANGED <<good, refresh, spoilt>>
    BY <1>8, WayOut DEF Unlock
  <2> QED
    BY <1>a, <2>1, <2>2 DEF Storing
<1>9. ASSUME NEW u \in Users, Exchange(u) PROVE KeptInv'
  <2>1. Alone(u)
    BY <1>9, StepAlone DEF Go
  <2>2. CASE Leave(u) /\ UNCHANGED <<shopeeVars, spoilt>>
    BY <1>9, <1>a, <2>1, <2>2 DEF Exchange, Leave, Become, Storing, TInv, TypeOK
  <2>3. CASE /\ Issue(good) /\ spoilt' = OthersStore(u)
             /\ pc' = [pc EXCEPT ![u] = "backup"] /\ pair' = [pair EXCEPT ![u] = {issued'}]
    <3>1. issued' = issued + 1 /\ issued' \in good' /\ refresh' = refresh
      BY <1>9, <2>3, IssueFacts DEF Exchange
    <3>2. pc'[u] = "backup" /\ pair'[u] = {issued'}
      BY <2>3 DEF TInv, TypeOK
    <3> SUFFICES ASSUME \A v \in Users : v # u => pc[v] \notin Storing
                 PROVE  /\ \A v \in Users : pc'[v] \in Storing =>
                              /\ pair'[v] \subseteq good' /\ pair'[v] # refresh
                              /\ \A w \in Users : pc'[w] = "post" => pair'[w] # pair'[v]
                        /\ \E v \in Users : pc'[v] \in Storing
      BY <2>3, <3>1 DEF KeptInv, OthersStore
    <3>3. \A v \in Users : pc'[v] \in Storing <=> v = u
      BY <2>1, <3>2 DEF Alone, Storing
    <3>4. \A w \in Users : pc'[w] = "post" => w # u /\ pair'[w] = pair[w]
      BY <2>1, <3>2 DEF Alone
    <3> QED
      BY <1>0, <3>1, <3>2, <3>3, <3>4
  <2>4. CASE spoilt' = TRUE
    BY <2>4 DEF KeptInv
  <2> QED
    BY <1>9, <2>2, <2>3, <2>4 DEF Exchange
<1>10. ASSUME NEW u \in Users, Backup(u) PROVE KeptInv'
  <2>1. Alone(u)
    BY <1>10, StepAlone DEF Go
  <2>2. CASE spoilt' = TRUE
    BY <2>2 DEF KeptInv
  <2>3. CASE Move(u, "access") /\ UNCHANGED spoilt
    BY <1>10, <1>a, <2>1, <2>3 DEF Backup, Move, Storing, TInv, TypeOK
  <2> QED
    BY <1>10, <2>2, <2>3 DEF Backup
<1>11. ASSUME NEW u \in Users, Crash(u) PROVE KeptInv'
  <2>1. Alone(u)
    BY <1>11, StepAlone
  <2>2. CASE spoilt'
    BY <2>2 DEF KeptInv
  <2>3. CASE ~spoilt'
    <3>1. ~spoilt /\ pc[u] \notin Storing /\ pc'[u] = "idle" /\ UNCHANGED <<good, refresh>>
      BY <1>11, <2>3 DEF Crash, Leave, Become, TInv, TypeOK
    <3>2. spoilt' = spoilt
      BY <1>11, <3>1 DEF Crash, TInv, TypeOK
    <3> QED
      BY <1>a, <2>1, <3>1, <3>2 DEF Storing
  <2> QED
    BY <2>2, <2>3
<1>12. CASE AccessEnds \/ LockEnds \/ UNCHANGED vars
  BY <1>12 DEF AccessEnds, LockEnds, vars, KeptInv
<1> QED
  BY <1>1, <1>2, <1>3, <1>4, <1>5, <1>6, <1>7, <1>8, <1>9, <1>10, <1>11, <1>12 DEF Next, Go

(* The refresh token is never left behind used up: what is in Redis, or on *)
(* its way there, is good, unless a pair was lost on the way or a shop was *)
(* authorised in the middle of a store.  The lock is not needed for it.    *)
THEOREM TokenNeverUsedUp == Spec => []RefreshTokenKept
<1> DEFINE All == IssuedInv /\ HolderInv /\ KeptInv
<1>1. Init => All
  BY DEF Init, IssuedInv, HolderInv, KeptInv, Holds, Storing
<1>2. TInv /\ All /\ [Next]_vars => All'
  BY IssuedStep, HolderStep, KeptStep
<1>3. All => RefreshTokenKept
  BY DEF KeptInv, RefreshTokenKept
<1> HIDE DEF All
<1> QED
  BY <1>1, <1>2, <1>3, TypeKept, PTL DEF Spec

----------------------------------------------------------------------------
(* Every step keeps unpublished pairs unused and rejected tokens away. *)
LEMMA FreshStep ==
    ASSUME TInv, IssuedInv, HolderInv, FreshInv, [Next]_vars
    PROVE  FreshInv'
<1> USE DEF redisVars, userVars, shopeeVars, boundVars, historyVars
<1>0. /\ issued \in Nat /\ access \subseteq 0 .. issued /\ issued + 1 \notin 0 .. issued
      /\ \A v \in Users : tok[v] \subseteq 0 .. issued
  BY TokenRefreshAssumption DEF TInv, TypeOK, Tokens, IssuedInv
(* Holders of a pair have different ones, so the pairs are disjoint.       *)
<1>b. ASSUME NEW u \in Users, NEW v \in Users, Holds(u), Holds(v), u # v
      PROVE  pair[u] \intersect pair[v] = {}
  <2>1. pair[u] # pair[v] /\ pair[u] # {} /\ pair[v] # {}
    BY <1>b DEF HolderInv, Holds
  <2>2. pair[u] \in AtMostOne(Tokens) /\ pair[v] \in AtMostOne(Tokens)
    BY DEF TInv, TypeOK
  <2>3. PICK s \in Tokens : pair[u] = {s}
    BY <2>1, <2>2, OneToken
  <2>4. PICK t \in Tokens : pair[v] = {t}
    BY <2>1, <2>2, OneToken
  <2> QED
    BY <2>1, <2>3, <2>4
(* A step that publishes nothing. *)
<1>a. ASSUME NEW u \in Users, Alone(u), access' \subseteq access,
             pc'[u] \in {"backup", "access"} => pc[u] \in {"backup", "access"} /\ pair'[u] = pair[u],
             tok'[u] \subseteq tok[u] \union access,
             goal'[u] \in {"forced", "second"} /\ pc'[u] \notin {"drop", "call"} =>
                 /\ access' \intersect tok'[u] = {}
                 /\ Holds(u)' => pair'[u] \intersect tok'[u] = {}
      PROVE  FreshInv'
  <2>1. ASSUME NEW v \in Users, pc'[v] \in {"backup", "access"}
        PROVE  /\ access' \intersect pair'[v] = {}
               /\ \A w \in Users : tok'[w] \intersect pair'[v] = {}
    <3>1. pc[v] \in {"backup", "access"} /\ pair'[v] = pair[v]
      BY <1>a, <2>1 DEF Alone
    <3>2. access \intersect pair[v] = {} /\ \A w \in Users : tok[w] \intersect pair[v] = {}
      BY <3>1 DEF FreshInv
    <3>3. \A w \in Users : tok'[w] \subseteq tok[w] \union access
      BY <1>a DEF Alone
    <3> QED
      BY <1>a, <3>1, <3>2, <3>3
  <2>2. ASSUME NEW v \in Users, goal'[v] \in {"forced", "second"}, pc'[v] \notin {"drop", "call"}
        PROVE  /\ access' \intersect tok'[v] = {}
               /\ Holds(v)' => pair'[v] \intersect tok'[v] = {}
    <3>1. CASE v = u
      BY <1>a, <2>2, <3>1
    <3>2. CASE v # u
      BY <1>a, <2>2, <3>2 DEF Alone, FreshInv, Holds
    <3> QED
      BY <3>1, <3>2
  <2> QED
    BY <2>1, <2>2 DEF FreshInv
<1>1. ASSUME NEW u \in Users, Begin(u) PROVE FreshInv'
  <2>1. Alone(u)
    BY <1>1, StepAlone
  <2>2. /\ goal'[u] \in {"first", "beat", "oauth"} /\ pc'[u] \notin {"backup", "access"}
        /\ tok'[u] = {} /\ access' = access
    BY <1>1 DEF Begin, Become, TInv, TypeOK
  <2> QED
    BY <1>a, <2>1, <2>2
<1>2. ASSUME NEW u \in Users, GetAccess(u) PROVE FreshInv'
  <2>1. Alone(u)
    BY <1>2, StepAlone DEF Go
  <2>2. CASE Become(u, "call", goal[u], access)
    BY <1>2, <1>a, <2>1, <2>2 DEF GetAccess, Become, TInv, TypeOK
  <2>3. CASE Move(u, "lock") /\ access = {}
    BY <1>2, <1>a, <2>1, <2>3 DEF GetAccess, Move, TInv, TypeOK, Holds, Storing
  <2> QED
    BY <1>2, <2>2, <2>3 DEF GetAccess
(* The ways out of a step: a token it returns is one of access. *)
<1>c. ASSUME NEW u \in Users, Alone(u), access' = access, Leave(u) \/ Reject(u) \/ Return(u, access),
             goal[u] = "forced" => access \intersect tok[u] = {}
      PROVE  FreshInv'
  <2>1. pc'[u] \in {"idle", "drop", "call", "get"} /\ pair'[u] = {}
    BY <1>c DEF Leave, Reject, Return, Become, TInv, TypeOK
  <2>2. tok'[u] \subseteq tok[u] \union access
    BY <1>c DEF Leave, Reject, Return, Become, TInv, TypeOK
  <2>3. goal'[u] \in {"forced", "second"} /\ pc'[u] \notin {"drop", "call"} =>
            goal[u] = "forced" /\ tok'[u] = tok[u]
    BY <1>c DEF Leave, Reject, Return, Become, TInv, TypeOK
  <2> QED
    BY <1>a, <1>c, <2>1, <2>2, <2>3 DEF Holds
<1>3. ASSUME NEW u \in Users, CallEnds(u) \/ CallRejected(u) PROVE FreshInv'
  <2>1. Alone(u)
    BY <1>3, StepAlone DEF Go
  <2>2. goal[u] # "forced"
    BY <1>3 DEF CallEnds, CallRejected, TInv, TypeOK
  <2> QED
    BY <1>3, <1>c, <2>1, <2>2 DEF CallEnds, CallRejected
<1>4. ASSUME NEW u \in Users, Drop(u) PROVE FreshInv'
  <2>1. Alone(u)
    BY <1>4, StepAlone DEF Go
  <2> QED
    BY <1>4, <1>a, <2>1 DEF Drop, Move, TInv, TypeOK, Holds, Storing
<1>5. ASSUME NEW u \in Users, Acquire(u) \/ ReadRefresh(u) \/ Refuse(u) \/ PostFails(u) PROVE FreshInv'
  <2>1. Alone(u)
    BY <1>5, StepAlone DEF Go
  <2>2. /\ pc[u] \in {"lock", "read", "post"} /\ access' = access
        /\ pc'[u] \notin {"backup", "access"} /\ ~Holds(u)'
        /\ goal'[u] = goal[u] /\ tok'[u] = tok[u]
    BY <1>5 DEF Acquire, ReadRefresh, Refuse, PostFails, Move, TInv, TypeOK, Holds, Storing
  <2> QED
    BY <1>a, <2>1, <2>2 DEF FreshInv
<1>6. ASSUME NEW u \in Users, Wait(u) PROVE FreshInv'
  <2>1. Alone(u)
    BY <1>6, StepAlone DEF Go
  <2>2. goal[u] = "forced" => access \intersect tok[u] = {}
    BY <1>6 DEF Wait, FreshInv
  <2> QED
    BY <1>6, <1>c, <2>1, <2>2 DEF Wait
<1>7. ASSUME NEW u \in Users, Obtains(u), Alone(u), access' = access PROVE FreshInv'
  <2>1. issued' \notin access /\ \A v \in Users : issued' \notin tok[v]
    BY <1>0, <1>7 DEF Obtains
  <2>2. \A v \in Users : tok'[v] = tok[v] /\ goal'[v] = goal[v]
    BY <1>7 DEF Alone, Obtains
  <2>3. \A v \in Users : v # u => pc'[v] = pc[v] /\ pair'[v] = pair[v]
    BY <1>7 DEF Alone
  <2> QED
    BY <1>7, <2>1, <2>2, <2>3 DEF Obtains, FreshInv, Holds
<1>8. ASSUME NEW u \in Users, Answer(u) PROVE FreshInv'
  <2>1. Alone(u) /\ Obtains(u) /\ access' = access
    BY <1>8, StepAlone, IssueFacts DEF Go, Answer, Obtains, TInv, TypeOK
  <2> QED
    BY <1>7, <2>1
<1>9. ASSUME NEW u \in Users, StoreAccess(u) PROVE FreshInv'
  <2>1. Alone(u)
    BY <1>9, StepAlone DEF Go
  <2>2. /\ pc[u] = "access" /\ pc'[u] = "refresh" /\ access' = pair[u]
        /\ UNCHANGED <<goal, tok, pair>>
    BY <1>9 DEF StoreAccess, Move, TInv, TypeOK
  <2>3. Holds(u) /\ \A v \in Users : tok[v] \intersect pair[u] = {}
    BY <2>2 DEF Holds, FreshInv, TInv, Shape, Storing
  <2>4. \A v \in Users : v # u => pc'[v] = pc[v]
    BY <2>1 DEF Alone
  <2>5. ASSUME NEW v \in Users, pc'[v] \in {"backup", "access"}
        PROVE  /\ pair[u] \intersect pair[v] = {}
               /\ \A w \in Users : tok[w] \intersect pair[v] = {}
    <3>1. v # u /\ pc[v] \in {"backup", "access"}
      BY <2>2, <2>4, <2>5
    <3>2. Holds(v)
      BY <3>1 DEF Holds, TInv, Shape, Storing
    <3> QED
      BY <1>b, <2>3, <3>1, <3>2 DEF FreshInv
  <2>6. ASSUME NEW v \in Users, goal[v] \in {"forced", "second"}, pc'[v] \notin {"drop", "call"}
        PROVE  /\ pair[u] \intersect tok[v] = {}
               /\ Holds(v)' => pair[v] \intersect tok[v] = {}
    <3>1. CASE v = u
      BY <2>3, <3>1
    <3>2. CASE v # u
      BY <2>2, <2>3, <2>4, <2>6, <3>2 DEF FreshInv, Holds
    <3> QED
      BY <3>1, <3>2
  <2> QED
    BY <2>2, <2>5, <2>6 DEF FreshInv
<1>10. ASSUME NEW u \in Users, StoreRefresh(u) PROVE FreshInv'
  <2>1. Alone(u)
    BY <1>10, StepAlone DEF Go
  <2>2. CASE Leave(u)
    BY <1>10, <1>c, <2>1, <2>2 DEF StoreRefresh, FreshInv
  <2>3. CASE Move(u, "unlock")
    <3>1. /\ pc'[u] = "unlock" /\ access' = access /\ goal'[u] = goal[u] /\ tok'[u] = tok[u]
          /\ pair'[u] = pair[u] /\ pc[u] = "refresh" /\ (Holds(u)' => Holds(u))
      BY <1>10, <2>3 DEF StoreRefresh, Move, TInv, TypeOK, Holds, Storing
    <3> QED
      BY <1>a, <2>1, <3>1 DEF FreshInv
  <2> QED
    BY <1>10, <2>2, <2>3 DEF StoreRefresh
<1>11. ASSUME NEW u \in Users, Unlock(u) PROVE FreshInv'
  <2>1. Alone(u) /\ access' = access
    BY <1>11, StepAlone DEF Go, Unlock
  <2>2. goal[u] \in {"forced", "second"} =>
            access \intersect tok[u] = {} /\ (Holds(u) => pair[u] \intersect tok[u] = {})
    BY <1>11 DEF Unlock, FreshInv
  <2>3. CASE Leave(u) \/ Reject(u)
    BY <1>c, <2>1, <2>2, <2>3
  <2>4. CASE pc[u] = "unlock" /\ pair[u] # {} /\ Return(u, pair[u])
    <3>1. Holds(u)
      BY <2>4 DEF Holds
    <3>2. /\ pc'[u] \in {"idle", "call", "get"} /\ pair'[u] = {}
          /\ tok'[u] \subseteq tok[u] \union pair[u]
          /\ goal'[u] \in {"forced", "second"} /\ pc'[u] # "call" => goal[u] = "forced" /\ tok'[u] = tok[u]
      BY <2>4 DEF Leave, Return, Become, TInv, TypeOK
    <3>3. ASSUME NEW v \in Users, pc'[v] \in {"backup", "access"}
          PROVE  /\ access \intersect pair'[v] = {}
                 /\ \A w \in Users : tok'[w] \intersect pair'[v] = {}
      <4>1. v # u /\ pc[v] = pc'[v] /\ pair'[v] = pair[v]
        BY <2>1, <3>2, <3>3 DEF Alone
      <4>2. Holds(v)
        BY <3>3, <4>1 DEF Holds, TInv, Shape, Storing
      <4>3. pair[u] \intersect pair[v] = {}
        BY <1>b, <3>1, <4>1, <4>2
      <4>4. access \intersect pair[v] = {} /\ \A w \in Users : tok[w] \intersect pair[v] = {}
        BY <3>3, <4>1 DEF FreshInv
      <4>5. \A w \in Users : tok'[w] \subseteq tok[w] \union pair[u]
        BY <2>1, <3>2 DEF Alone
      <4> QED
        BY <4>1, <4>3, <4>4, <4>5
    <3>4. ASSUME NEW v \in Users, goal'[v] \in {"forced", "second"}, pc'[v] \notin {"drop", "call"}
          PROVE  /\ access \intersect tok'[v] = {}
                 /\ Holds(v)' => pair'[v] \intersect tok'[v] = {}
      <4>1. CASE v = u
        BY <2>2, <3>2, <3>4, <4>1 DEF Holds
      <4>2. CASE v # u
        BY <2>1, <3>4, <4>2 DEF Alone, FreshInv, Holds
      <4> QED
        BY <4>1, <4>2
    <3> QED
      BY <2>1, <3>3, <3>4 DEF FreshInv
  <2> QED
    BY <1>11, <2>3, <2>4 DEF Unlock
<1>12. ASSUME NEW u \in Users, Exchange(u) PROVE FreshInv'
  <2>1. Alone(u) /\ access' = access /\ goal[u] = "oauth"
    BY <1>12, StepAlone DEF Go, Exchange, TInv, Shape
  <2>2. CASE Leave(u)
    BY <1>c, <2>1, <2>2
  <2>3. CASE Obtains(u)
    BY <1>7, <2>1, <2>3
  <2>4. Leave(u) \/ Obtains(u)
    BY <1>12, IssueFacts DEF Exchange, Obtains, TInv, TypeOK
  <2> QED
    BY <2>2, <2>3, <2>4
<1>13. ASSUME NEW u \in Users, Backup(u) PROVE FreshInv'
  <2>1. Alone(u) /\ access' = access /\ goal[u] = "oauth"
    BY <1>13, StepAlone DEF Go, Backup, TInv, Shape
  <2>2. CASE Leave(u)
    BY <1>c, <2>1, <2>2
  <2>3. CASE Move(u, "access")
    BY <1>13, <1>a, <2>1, <2>3 DEF Backup, Move, TInv, TypeOK
  <2> QED
    BY <1>13, <2>2, <2>3 DEF Backup
<1>14. ASSUME NEW u \in Users, Crash(u) PROVE FreshInv'
  <2>1. Alone(u)
    BY <1>14, StepAlone
  <2>2. pc'[u] = "idle" /\ goal'[u] = "none" /\ tok'[u] = {} /\ access' = access
    BY <1>14 DEF Crash, Leave, Become, TInv, TypeOK
  <2> QED
    BY <1>a, <2>1, <2>2
<1>15. CASE AccessEnds \/ LockEnds \/ UNCHANGED vars
  <2>1. access' \subseteq access /\ UNCHANGED <<pc, goal, tok, pair>>
    BY <1>15 DEF AccessEnds, LockEnds, vars
  <2> QED
    BY <2>1 DEF FreshInv, Holds
<1> QED
  BY <1>1, <1>2, <1>3, <1>4, <1>5, <1>6, <1>8, <1>9, <1>10, <1>11, <1>12, <1>13, <1>14, <1>15
  DEF Next, Go

(* A second attempt is about to be signed in three places: with the key it *)
(* reads, with the key it waited for, with the pair it obtained.           *)
LEMMA SecondAttempt ==
    ASSUME TInv, NEW u \in Users, Begin(u) \/ Go(u) \/ Crash(u),
           goal[u] = "second", pc[u] # "call", pc'[u] = "call"
    PROVE  \/ tok'[u] = access /\ pc[u] \in {"get", "wait"}
           \/ tok'[u] = pair[u] /\ pc[u] = "unlock" /\ pair[u] # {}
<1> USE DEF TInv, TypeOK, Move, Leave, Become
<1>1. ASSUME Begin(u) \/ Crash(u) PROVE FALSE
  BY <1>1 DEF Begin, Crash
<1>2. ASSUME CallEnds(u) \/ CallRejected(u) \/ Drop(u) \/ Acquire(u) \/ ReadRefresh(u) PROVE FALSE
  BY <1>2 DEF CallEnds, CallRejected, Drop, Acquire, ReadRefresh
<1>3. ASSUME Answer(u) \/ Refuse(u) \/ PostFails(u) \/ StoreAccess(u) \/ StoreRefresh(u) PROVE FALSE
  BY <1>3 DEF Answer, Refuse, PostFails, StoreAccess, StoreRefresh
<1>4. ASSUME Exchange(u) \/ Backup(u) PROVE FALSE
  BY <1>4 DEF Exchange, Backup
<1>5. ASSUME GetAccess(u) PROVE tok'[u] = access /\ pc[u] = "get"
  BY <1>5 DEF GetAccess
<1>6. ASSUME Wait(u) PROVE tok'[u] = access /\ pc[u] = "wait"
  BY <1>6 DEF Wait, Return, Reject
<1>7. ASSUME Unlock(u) PROVE tok'[u] = pair[u] /\ pc[u] = "unlock" /\ pair[u] # {}
  BY <1>7 DEF Unlock, Return, Reject
<1> QED
  BY <1>1, <1>2, <1>3, <1>4, <1>5, <1>6, <1>7 DEF Go

(* The second attempt is never signed with the token the first one was     *)
(* rejected with, whoever refreshed it meanwhile, whether the lock held or *)
(* not, and whatever crashed, expired or was authorised in between.        *)
THEOREM RetryIsFresh == Spec => FreshRetry
<1> DEFINE All == TInv /\ IssuedInv /\ HolderInv /\ FreshInv
           Step == \A u \in Users : goal[u] = "second" /\ pc[u] # "call" /\ pc'[u] = "call"
                                       => tok[u] \intersect tok'[u] = {}
<1>1. Init => IssuedInv /\ HolderInv /\ FreshInv
  BY DEF Init, IssuedInv, HolderInv, FreshInv, Holds, Storing
<1>2. All /\ [Next]_vars => (IssuedInv /\ HolderInv /\ FreshInv)'
  BY IssuedStep, HolderStep, FreshStep
<1>3. ASSUME All, [Next]_vars PROVE Step
  <2> SUFFICES ASSUME NEW u \in Users, goal[u] = "second", pc[u] # "call", pc'[u] = "call"
               PROVE  tok[u] \intersect tok'[u] = {}
    OBVIOUS
  <2>1. CASE Begin(u) \/ Go(u) \/ Crash(u)
    <3>1. \/ tok'[u] = access /\ pc[u] \in {"get", "wait"}
          \/ tok'[u] = pair[u] /\ pc[u] = "unlock" /\ pair[u] # {}
      BY <1>3, <2>1, SecondAttempt
    <3> QED
      BY <1>3, <3>1 DEF FreshInv, Holds
  <2>2. ASSUME NEW v \in Users, v # u, Begin(v) \/ Go(v) \/ Crash(v) PROVE FALSE
    BY <1>3, <2>2, StepAlone DEF Alone
  <2>3. CASE AccessEnds \/ LockEnds \/ UNCHANGED vars
    BY <2>3 DEF AccessEnds, LockEnds, userVars, vars
  <2> QED
    BY <1>3, <2>1, <2>2, <2>3 DEF Next
<1>4. [][Step]_vars <=> FreshRetry
  BY DEF FreshRetry
<1> QED
  BY <1>1, <1>2, <1>3, <1>4, TypeKept, PTL DEF Spec
----------------------------------------------------------------------------
(* How far a coroutine is from its end, in steps of its own: the places of *)
(* one refresh or request, for each goal that another one may follow.      *)
Stage(place) ==
    CASE place \in {"idle", "call"}            -> 0
      [] place \in {"wait", "unlock", "abort"} -> 1
      [] place = "refresh"                     -> 2
      [] place = "access"                      -> 3
      [] place \in {"post", "backup"}          -> 4
      [] place \in {"read", "exchange"}        -> 5
      [] place = "lock"                        -> 6
      [] place \in {"get", "drop"}             -> 7

Stretch(g) ==
    CASE g \in {"none", "beat", "oauth"} -> 0
      [] g = "second"                    -> 1
      [] g = "forced"                    -> 8
      [] g = "first"                     -> 16

Ahead(u) == Stretch(goal[u]) + Stage(pc[u])

(* Whatever others do meanwhile, each step of a coroutine brings it nearer *)
(* to its end: a request whose token is rejected is sent a second time and *)
(* no more, however often tokens end, refreshes fail or locks lapse.       *)
GetsOn ==
    [][\A u \in Users : /\ Go(u) => Ahead(u)' < Ahead(u)
                        /\ Begin(u) \/ Ahead(u)' <= Ahead(u)]_vars

LEMMA AheadType == TypeOK => \A u \in Users : Ahead(u) \in 0 .. 23
<1> SUFFICES ASSUME TypeOK, NEW u \in Users PROVE Ahead(u) \in 0 .. 23
  OBVIOUS
<1>1. Stage(pc[u]) \in 0 .. 7
  BY DEF TypeOK, Stage, Places, Storing, Locked
<1>2. Stretch(goal[u]) \in {0, 1, 8, 16}
  BY DEF TypeOK, Stretch, Goals
<1> QED
  BY <1>1, <1>2 DEF Ahead

(* A coroutine that ends, returns from a refresh or is rejected is nearer  *)
(* to its end.                                                             *)
LEMMA TurnsGetOn ==
    ASSUME TInv, NEW u \in Users,
           \/ pc[u] # "idle" /\ Leave(u)
           \/ pc[u] \in {"wait", "unlock"} /\ \E t : Return(u, t)
           \/ pc[u] \in {"call", "wait", "unlock"} /\ Reject(u)
    PROVE  Ahead(u)' < Ahead(u)
<1> USE DEF TInv, TypeOK
<1>1. goal[u] \in Goals /\ pc[u] \in Places
  OBVIOUS
<1>2. ASSUME pc[u] # "idle", Leave(u) PROVE Ahead(u)' < Ahead(u)
  <2>1. pc'[u] = "idle" /\ goal'[u] = "none" /\ Ahead(u)' = 0
    BY <1>2 DEF Leave, Become, Ahead, Stage, Stretch
  <2>2. Ahead(u) > 0
    BY <1>1, <1>2 DEF Ahead, Stage, Stretch, Places, Goals, Storing, Locked
  <2> QED
    BY <2>1, <2>2
<1>3. ASSUME pc[u] \in {"wait", "unlock"}, NEW t, Return(u, t) PROVE Ahead(u)' < Ahead(u)
  <2>1. CASE goal[u] \in {"first", "second"} /\ Become(u, "call", goal[u], t)
    BY <1>3, <2>1 DEF Become, Ahead, Stage, Stretch
  <2>2. CASE goal[u] = "forced" /\ Become(u, "get", "second", tok[u])
    BY <1>3, <2>2 DEF Become, Ahead, Stage, Stretch
  <2> QED
    BY <1>2, <1>3, <2>1, <2>2 DEF Return
<1>4. ASSUME pc[u] \in {"call", "wait", "unlock"}, Reject(u) PROVE Ahead(u)' < Ahead(u)
  <2>1. CASE goal[u] = "first" /\ Become(u, "drop", "forced", tok[u])
    BY <1>4, <2>1 DEF Become, Ahead, Stage, Stretch
  <2> QED
    BY <1>2, <1>4, <2>1 DEF Reject
<1> QED
  BY <1>2, <1>3, <1>4

LEMMA GoGetsOn == ASSUME TInv, NEW u \in Users, Go(u) PROVE Ahead(u)' < Ahead(u)
<1> USE DEF TInv, TypeOK
<1>1. goal[u] \in Goals /\ Stretch(goal[u]) \in {0, 1, 8, 16}
  BY DEF Goals, Stretch
<1>2. ASSUME goal'[u] = goal[u], Stage(pc[u]) \in 0 .. 7, Stage(pc'[u]) \in 0 .. 7,
             Stage(pc'[u]) < Stage(pc[u])
      PROVE  Ahead(u)' < Ahead(u)
  BY <1>1, <1>2 DEF Ahead
<1>3. CASE GetAccess(u)
  <2>1. pc[u] = "get" /\ goal'[u] = goal[u] /\ pc'[u] \in {"call", "lock"}
    BY <1>3 DEF GetAccess, Become, Move
  <2>2. /\ Stage(pc[u]) \in 0 .. 7 /\ Stage(pc'[u]) \in 0 .. 7
        /\ Stage(pc'[u]) < Stage(pc[u])
    BY <2>1 DEF Stage
  <2> QED
    BY <1>2, <2>1, <2>2
<1>4. CASE CallEnds(u) \/ CallRejected(u)
  BY <1>4, TurnsGetOn DEF CallEnds, CallRejected
<1>5. CASE Drop(u) \/ Acquire(u)
  <2>1. goal'[u] = goal[u] /\ \/ pc[u] = "drop" /\ pc'[u] = "lock"
                              \/ pc[u] = "lock" /\ pc'[u] \in {"read", "wait"}
    BY <1>5 DEF Drop, Acquire, Move
  <2>2. /\ Stage(pc[u]) \in 0 .. 7 /\ Stage(pc'[u]) \in 0 .. 7
        /\ Stage(pc'[u]) < Stage(pc[u])
    BY <2>1 DEF Stage
  <2> QED
    BY <1>2, <2>1, <2>2
<1>6. CASE Wait(u)
  BY <1>6, TurnsGetOn DEF Wait
<1>7. CASE ReadRefresh(u) \/ Answer(u) \/ Refuse(u)
  <2>1. goal'[u] = goal[u] /\ \/ pc[u] = "read" /\ pc'[u] \in {"unlock", "post"}
                              \/ pc[u] = "post" /\ pc'[u] \in {"access", "unlock"}
    BY <1>7 DEF ReadRefresh, Answer, Refuse
  <2>2. /\ Stage(pc[u]) \in 0 .. 7 /\ Stage(pc'[u]) \in 0 .. 7
        /\ Stage(pc'[u]) < Stage(pc[u])
    BY <2>1 DEF Stage
  <2> QED
    BY <1>2, <2>1, <2>2
<1>8. CASE PostFails(u)
  <2>1. goal'[u] = goal[u] /\ pc[u] = "post" /\ pc'[u] = "abort"
    BY <1>8 DEF PostFails, Move
  <2>2. /\ Stage(pc[u]) \in 0 .. 7 /\ Stage(pc'[u]) \in 0 .. 7
        /\ Stage(pc'[u]) < Stage(pc[u])
    BY <2>1 DEF Stage
  <2> QED
    BY <1>2, <2>1, <2>2
<1>9. CASE StoreAccess(u)
  <2>1. goal'[u] = goal[u] /\ pc[u] = "access" /\ pc'[u] = "refresh"
    BY <1>9 DEF StoreAccess, Move
  <2>2. /\ Stage(pc[u]) \in 0 .. 7 /\ Stage(pc'[u]) \in 0 .. 7
        /\ Stage(pc'[u]) < Stage(pc[u])
    BY <2>1 DEF Stage
  <2> QED
    BY <1>2, <2>1, <2>2
<1>10. CASE StoreRefresh(u)
  <2>1. CASE Leave(u)
    BY <1>10, <2>1, TurnsGetOn DEF StoreRefresh
  <2>2. CASE Move(u, "unlock")
    <3>1. goal'[u] = goal[u] /\ pc[u] = "refresh" /\ pc'[u] = "unlock"
      BY <1>10, <2>2 DEF StoreRefresh, Move
    <3>2. /\ Stage(pc[u]) \in 0 .. 7 /\ Stage(pc'[u]) \in 0 .. 7
          /\ Stage(pc'[u]) < Stage(pc[u])
      BY <3>1 DEF Stage
    <3> QED
      BY <1>2, <3>1, <3>2
  <2> QED
    BY <1>10, <2>1, <2>2 DEF StoreRefresh
<1>11. CASE Unlock(u)
  BY <1>11, TurnsGetOn DEF Unlock
<1>12. CASE Exchange(u)
  <2>1. CASE Leave(u)
    BY <1>12, <2>1, TurnsGetOn DEF Exchange
  <2>2. CASE goal'[u] = goal[u] /\ pc[u] = "exchange" /\ pc'[u] = "backup"
    <3>1. /\ Stage(pc[u]) \in 0 .. 7 /\ Stage(pc'[u]) \in 0 .. 7
          /\ Stage(pc'[u]) < Stage(pc[u])
      BY <2>2 DEF Stage
    <3> QED
      BY <1>2, <2>2, <3>1
  <2> QED
    BY <1>12, <2>1, <2>2 DEF Exchange
<1>13. CASE Backup(u)
  <2>1. CASE Leave(u)
    BY <1>13, <2>1, TurnsGetOn DEF Backup
  <2>2. CASE Move(u, "access")
    <3>1. goal'[u] = goal[u] /\ pc[u] = "backup" /\ pc'[u] = "access"
      BY <1>13, <2>2 DEF Backup, Move
    <3>2. /\ Stage(pc[u]) \in 0 .. 7 /\ Stage(pc'[u]) \in 0 .. 7
          /\ Stage(pc'[u]) < Stage(pc[u])
      BY <3>1 DEF Stage
    <3> QED
      BY <1>2, <3>1, <3>2
  <2> QED
    BY <1>13, <2>1, <2>2 DEF Backup
<1> QED
  BY <1>3, <1>4, <1>5, <1>6, <1>7, <1>8, <1>9, <1>10, <1>11, <1>12, <1>13 DEF Go

(* A request, a refresh or an authorisation is over after at most 23 steps *)
(* of its own, whatever Shopee, Redis and other coroutines do meanwhile:   *)
(* the way to the end never grows and each step shortens it.               *)
THEOREM EverythingGetsOn == Spec => GetsOn /\ [](\A u \in Users : Ahead(u) \in 0 .. 23)
<1>0. (TypeOK)' => (\A u \in Users : Ahead(u) \in 0 .. 23)'
  BY AheadType, PTL
<1>1. ASSUME TInv, TypeOK', [Next]_vars, NEW u \in Users
      PROVE  (Go(u) => Ahead(u)' < Ahead(u)) /\ (Begin(u) \/ Ahead(u)' <= Ahead(u))
  <2>1. Ahead(u) \in 0 .. 23 /\ Ahead(u)' \in 0 .. 23
    BY <1>0, <1>1, AheadType DEF TInv
  <2>2. Go(u) => Ahead(u)' < Ahead(u)
    BY <1>1, GoGetsOn
  <2>3. CASE Crash(u)
    <3>1. Ahead(u)' < Ahead(u)
      BY <1>1, <2>3, TurnsGetOn DEF Crash
    <3> QED
      BY <2>1, <2>2, <3>1
  <2>4. ASSUME pc'[u] = pc[u], goal'[u] = goal[u] PROVE Ahead(u)' <= Ahead(u)
    BY <2>1, <2>4 DEF Ahead
  <2>5. ASSUME NEW v \in Users, v # u, Begin(v) \/ Go(v) \/ Crash(v)
        PROVE  pc'[u] = pc[u] /\ goal'[u] = goal[u]
    BY <1>1, <2>5, StepAlone DEF Alone
  <2>6. CASE AccessEnds \/ LockEnds \/ UNCHANGED vars
    <3>1. pc'[u] = pc[u] /\ goal'[u] = goal[u]
      BY <2>6 DEF AccessEnds, LockEnds, vars, userVars
    <3> QED
      BY <2>2, <2>4, <3>1
  <2> QED
    BY <1>1, <2>1, <2>2, <2>3, <2>4, <2>5, <2>6 DEF Next
<1>2. TInv /\ TypeOK' /\ [Next]_vars =>
          [\A u \in Users : /\ Go(u) => Ahead(u)' < Ahead(u)
                            /\ Begin(u) \/ Ahead(u)' <= Ahead(u)]_vars
  BY <1>1
<1> QED
  BY <1>2, AheadType, TypeKept, TypeCorrect, PTL DEF Spec, GetsOn
=============================================================================
