--------------------------- MODULE OrderSyncProofs ---------------------------
(***************************************************************************)
(* TLAPS proofs about OrderSync, for any set of worker processes, any time *)
(* limits and any value of the bounds.                                     *)
(***************************************************************************)
EXTENDS OrderSync, TLAPS

(* The limits are numbers, and a clock may start at zero. *)
LEMMA Limits ==
    /\ SoftLimit \in Nat /\ HardLimit \in Nat \ {0} /\ StaleAfter \in Nat \ {0}
    /\ 0 \in 0 .. HardLimit /\ 0 \in 0 .. StaleAfter
  BY OrderSyncAssumption

(* A message sent once more is a message. *)
LEMMA RetryIsMessage ==
    ASSUME NEW m \in Messages, m.tries < MaxTries
    PROVE  [m EXCEPT !.tries = @ + 1] \in Messages
  BY OrderSyncAssumption DEF Messages

(* What an UPDATE leaves in a column has the type of the column. *)
LEMMA WrittenType ==
    ASSUME NEW T, NEW was, NEW to \in T, NEW now \in T
    PROVE  Written(was, to, now) \in T
  BY DEF Written

(* Every outcome is recorded as a status. *)
LEMMA OutcomeType ==
    ASSUME NEW g \in Goals
    PROVE  Outcome(g) \in Statuses
  BY DEF Outcome, Goals, Statuses

(* Ending a task frees its worker. *)
LEMMA FreeType ==
    ASSUME TypeOK, NEW w \in Workers, Free(w)
    PROVE  /\ task' \in [Workers -> Messages \union {NoTask}]
           /\ main' \in [Workers -> {1, 2}]
           /\ run' \in [Workers -> 0 .. HardLimit]
  BY OrderSyncAssumption DEF TypeOK, Free

(* Ending a coroutine, and its task with it, is well typed. *)
LEMMA EndType ==
    ASSUME TypeOK, NEW c \in Coros, NEW e \in Errors, End(c, e)
    PROVE  /\ pc' \in [Coros -> Places] /\ goal' \in [Coros -> Goals]
           /\ snap' \in [Coros -> Statuses] /\ error' \in [Coros -> Errors]
           /\ task' \in [Workers -> Messages \union {NoTask}]
           /\ main' \in [Workers -> {1, 2}] /\ run' \in [Workers -> 0 .. HardLimit]
           /\ waiting' \in [Messages -> Nat]
<1>1. /\ pc' \in [Coros -> Places] /\ goal' \in [Coros -> Goals]
      /\ snap' \in [Coros -> Statuses] /\ error' \in [Coros -> Errors]
  BY DEF TypeOK, End, Places, Goals, Statuses, Errors
<1>2. c[1] \in Workers
  BY DEF Coros
<1>3. CASE ~IsMain(c)
  BY <1>1, <1>3 DEF TypeOK, End, taskVars
<1>4. CASE IsMain(c)
  <2> DEFINE m == task[c[1]]
  <2>1. Free(c[1]) /\ Requeue(m, e)
    BY <1>4 DEF End
  <2>2. m \in Messages
    BY <1>2, <1>4 DEF TypeOK, IsMain
  <2> HIDE DEF m
  <2>3. waiting' \in [Messages -> Nat]
    BY <2>1, <2>2, RetryIsMessage DEF TypeOK, Requeue
  <2> QED
    BY <1>1, <1>2, <2>1, <2>3, FreeType
<1> QED
  BY <1>3, <1>4

(* Turning to the record of an outcome is well typed. *)
LEMMA TurnToType ==
    ASSUME TypeOK, NEW c \in Coros, NEW g \in Goals, NEW e \in Errors, TurnTo(c, g, e)
    PROVE  /\ pc' \in [Coros -> Places] /\ goal' \in [Coros -> Goals]
           /\ error' \in [Coros -> Errors]
           /\ UNCHANGED <<snap, lock, rowVars, taskVars, waiting, adminVars>>
  BY DEF TypeOK, TurnTo, Places

(* Spending from a bound is well typed. *)
LEMMA SpendType ==
    ASSUME TypeOK, NEW k \in Bounds, NEW n, Spend(k, n)
    PROVE  used' \in [Bounds -> Nat]
  BY DEF TypeOK, Spend

(* The death of a process is well typed. *)
LEMMA DieType ==
    ASSUME TypeOK, NEW w \in Workers, Die(w), waiting' \in [Messages -> Nat],
           used' \in [Bounds -> Nat]
    PROVE  TypeOK'
<1>1. /\ pc' \in [Coros -> Places] /\ goal' \in [Coros -> Goals]
      /\ snap' \in [Coros -> Statuses] /\ error' \in [Coros -> Errors]
      /\ lock' \in SUBSET Coros
  BY DEF TypeOK, Die, Places, Goals, Statuses, Errors
<1>2. /\ task' \in [Workers -> Messages \union {NoTask}]
      /\ main' \in [Workers -> {1, 2}] /\ run' \in [Workers -> 0 .. HardLimit]
  BY FreeType DEF Die
<1>3. late' \in Nat /\ unsure' \in BOOLEAN
  BY DEF TypeOK, Die
<1> QED
  BY <1>1, <1>2, <1>3 DEF TypeOK, Die, rowVars, adminVars

----------------------------------------------------------------------------
(* Every step keeps the types. *)
LEMMA TypeStep == TypeOK /\ [Next]_vars => TypeOK'
<1> SUFFICES ASSUME TypeOK, [Next]_vars PROVE TypeOK'
  OBVIOUS
<1> USE DEF rowVars, coVars, taskVars, adminVars, odooVars, historyVars
<1>1. ASSUME NEW k \in Kinds, Arrive(k) PROVE TypeOK'
  <2>1. First(k) \in Messages /\ {"webhook", "nightly"} \subseteq Bounds
    BY OrderSyncAssumption DEF First, Messages, Bounds, Kinds
  <2>2. used' \in [Bounds -> Nat]
    BY <1>1, <2>1, SpendType DEF Arrive
  <2> QED
    BY <1>1, <2>1, <2>2 DEF TypeOK, Arrive
<1>2. ASSUME NEW w \in Workers, NEW m \in Messages, Take(w, m) PROVE TypeOK'
  <2>1. main' \in [Workers -> {1, 2}] /\ pc' \in [Coros -> Places]
    BY <1>2 DEF TypeOK, Take, Places
  <2>2. waiting' \in [Messages -> Nat] /\ task' \in [Workers -> Messages \union {NoTask}]
    BY <1>2 DEF TypeOK, Take
  <2>3. run' \in [Workers -> 0 .. HardLimit]
    <3>1. PICK spent \in 0 .. HardLimit - 1 : run' = [run EXCEPT ![w] = spent]
      BY <1>2 DEF Take
    <3>2. spent \in 0 .. HardLimit
      BY Limits
    <3> QED
      BY <3>1, <3>2 DEF TypeOK
  <2> QED
    BY <1>2, <2>1, <2>2, <2>3 DEF TypeOK, Take
<1>3. ASSUME NEW c \in Coros, NEW e \in Errors, FetchFails(c, e) PROVE TypeOK'
  BY <1>3, EndType DEF TypeOK, FetchFails
<1>4. ASSUME NEW c \in Coros, Skip(c) PROVE TypeOK'
  <2>1. "none" \in Errors
    BY DEF Errors
  <2> QED
    BY <1>4, <2>1, EndType DEF TypeOK, Skip
<1>5. ASSUME NEW c \in Coros, Look(c) PROVE TypeOK'
  BY <1>5 DEF TypeOK, Look, Places
<1>6. ASSUME NEW c \in Coros, Claim(c) PROVE TypeOK'
  <2>1. status' \in Statuses /\ age' \in 0 .. StaleAfter
    BY ZenonT(30), <1>6, WrittenType, Limits DEF TypeOK, Claim, Statuses
  <2> QED
    BY <1>6, <2>1 DEF TypeOK, Claim, Places, Statuses
<1>7. ASSUME NEW c \in Coros, Check(c) PROVE TypeOK'
  <2>1. CASE TurnTo(c, "exists", "none")
    BY <1>7, <2>1, TurnToType DEF TypeOK, Check, Goals, Errors
  <2>2. CASE ~TurnTo(c, "exists", "none")
    BY <1>7, <2>2 DEF TypeOK, Check, Places
  <2> QED
    BY <2>1, <2>2
<1>8. ASSUME NEW c \in Coros, Create(c) PROVE TypeOK'
  BY <1>8 DEF TypeOK, Create, Places
<1>9. ASSUME NEW c \in Coros, CreateOutlives(c) PROVE TypeOK'
  <2>1. PICK e \in {"again", "fatal"} : TurnTo(c, "failed", e)
    BY <1>9 DEF CreateOutlives
  <2> QED
    BY <1>9, <2>1, TurnToType DEF TypeOK, CreateOutlives, Goals, Errors
<1>10. ASSUME NEW c \in Coros, Confirm(c) PROVE TypeOK'
  BY <1>10, TurnToType DEF TypeOK, Confirm, Goals, Errors
<1>11. ASSUME NEW c \in Coros, NEW e \in Errors, OdooFails(c, e) PROVE TypeOK'
  BY <1>11, TurnToType DEF TypeOK, OdooFails, Goals
<1>12. CASE LateCreate
  BY <1>12 DEF TypeOK, LateCreate
<1>13. ASSUME NEW c \in Coros, Load(c) PROVE TypeOK'
  BY <1>13 DEF TypeOK, Load, Places
<1>14. ASSUME NEW c \in Coros, Store(c) PROVE TypeOK'
  <2>1. status' \in Statuses
    BY <1>14, WrittenType, OutcomeType DEF TypeOK, Store
  <2>2. age' \in 0 .. StaleAfter
    BY <1>14, Limits DEF TypeOK, Store
  <2>3. overlapped' \in BOOLEAN
    BY <1>14 DEF TypeOK, Store
  <2>4. CASE Marks(c)
    BY <1>14, <2>1, <2>2, <2>3, <2>4 DEF TypeOK, Store, Places, Goals, Statuses
  <2>5. CASE ~Marks(c)
    <3>1. End(c, error[c]) /\ error[c] \in Errors
      BY <1>14, <2>5 DEF TypeOK, Store
    <3> QED
      BY <1>14, <2>1, <2>2, <2>3, <3>1, EndType DEF TypeOK, Store
  <2> QED
    BY <2>4, <2>5
<1>15. ASSUME NEW c \in Coros, DatabaseFails(c) PROVE TypeOK'
  <2>1. used' \in [Bounds -> Nat] /\ lock' \in SUBSET Coros /\ "fatal" \in Errors
    BY <1>15, SpendType DEF TypeOK, DatabaseFails, Bounds, Errors
  <2>2. CASE goal[c] = "exists"
    BY <1>15, <2>1, <2>2 DEF TypeOK, DatabaseFails, Places, Goals, Statuses, Errors
  <2>3. CASE goal[c] # "exists"
    BY <1>15, <2>1, <2>3, EndType DEF TypeOK, DatabaseFails
  <2> QED
    BY <2>2, <2>3
<1>16. CASE Tick
  <2>1. run' \in [Workers -> 0 .. HardLimit]
    <3>1. ASSUME NEW w \in Workers PROVE run[w] \in 0 .. HardLimit /\ run[w] + 1 \in 0 .. HardLimit
      BY <1>16, Limits DEF TypeOK, Tick
    <3> QED
      BY <1>16, <3>1 DEF Tick
  <2>2. age' \in 0 .. StaleAfter
    BY <1>16, Limits DEF TypeOK, Tick
  <2> QED
    BY <1>16, <2>1, <2>2 DEF TypeOK, Tick
<1>17. ASSUME NEW w \in Workers, SoftLimitFires(w) PROVE TypeOK'
  BY <1>17, FreeType DEF TypeOK, SoftLimitFires
<1>18. ASSUME NEW w \in Workers, HardLimitKills(w) PROVE TypeOK'
  BY <1>18, DieType DEF TypeOK, HardLimitKills
<1>19. ASSUME NEW w \in Workers, Crash(w) PROVE TypeOK'
  <2>1. used' \in [Bounds -> Nat]
    BY <1>19, SpendType DEF Crash, Bounds
  <2>2. waiting' \in [Messages -> Nat]
    BY <1>19 DEF TypeOK, Crash, Busy
  <2> QED
    BY <1>19, <2>1, <2>2, DieType DEF Crash
<1>20. CASE AdminLoad
  BY <1>20, SpendType DEF TypeOK, AdminLoad, Bounds, Kinds
<1>21. CASE AdminStore
  <2>1. status' \in Statuses
    BY ZenonT(30), <1>21, WrittenType DEF TypeOK, AdminStore, Statuses
  <2> QED
    BY <1>21, <2>1, Limits DEF TypeOK, AdminStore, Statuses
<1>22. CASE AdminSend
  <2>1. First("admin") \in Messages
    BY OrderSyncAssumption DEF First, Messages, Kinds
  <2>2. used' \in [Bounds -> Nat]
    BY <1>22, SpendType DEF TypeOK, AdminSend, Bounds
  <2>3. waiting' \in [Messages -> Nat]
    <3>1. CASE waiting' = [waiting EXCEPT ![First("admin")] = @ + 1]
      <4> DEFINE f == First("admin")
      <4>1. f \in Messages /\ waiting \in [Messages -> Nat]
        BY <2>1 DEF TypeOK
      <4>2. waiting' = [waiting EXCEPT ![f] = @ + 1]
        BY <3>1
      <4> HIDE DEF f
      <4> QED
        BY <4>1, <4>2
    <3>2. CASE UNCHANGED waiting
      BY <3>2 DEF TypeOK
    <3> QED
      BY <1>22, <3>1, <3>2 DEF AdminSend
  <2> QED
    BY <1>22, <2>2, <2>3 DEF TypeOK, AdminSend
<1>23. CASE UNCHANGED vars
  BY <1>23 DEF TypeOK, vars
<1> QED
  BY <1>1, <1>2, <1>3, <1>4, <1>5, <1>6, <1>7, <1>8, <1>9, <1>10, <1>11, <1>12, <1>13, <1>14,
     <1>15, <1>16, <1>17, <1>18, <1>19, <1>20, <1>21, <1>22, <1>23 DEF Next, Sync

(* Every behaviour of the order sync is well typed. *)
THEOREM TypeCorrect == Spec => []TypeOK
<1>1. Init => TypeOK
  <2> SUFFICES ASSUME Init PROVE TypeOK
    OBVIOUS
  <2>1. /\ status \in Statuses /\ age \in 0 .. StaleAfter /\ lock \in SUBSET Coros
        /\ odooOrders \in Nat /\ late \in Nat /\ admin = "idle" /\ adminSnap \in Statuses
    BY Limits DEF Init, Statuses
  <2>2. /\ pc \in [Coros -> Places] /\ goal \in [Coros -> Goals]
        /\ snap \in [Coros -> Statuses] /\ error \in [Coros -> Errors]
    BY DEF Init, Places, Goals, Statuses, Errors
  <2>3. /\ task \in [Workers -> Messages \union {NoTask}] /\ main \in [Workers -> {1, 2}]
        /\ run \in [Workers -> 0 .. HardLimit]
    BY Limits DEF Init
  <2>4. /\ waiting \in [Messages -> Nat] /\ used \in [Bounds -> Nat]
        /\ {overlapped, unsure} \subseteq BOOLEAN
    BY DEF Init
  <2> QED
    BY <2>1, <2>2, <2>3, <2>4 DEF TypeOK
<1> QED
  BY <1>1, TypeStep, PTL DEF Spec

----------------------------------------------------------------------------
(* SuccessIsBacked is not inductive: a sync that is past its create, or is *)
(* about to record that the order exists, must have the order in Odoo.     *)
Backed == odooOrders > 0

BackedInv ==
    /\ SuccessIsBacked
    /\ \A c \in Coros : pc[c] = "confirm" \/ goal[c] \in {"exists", "created"} => Backed

(* Every step keeps BackedInv: none takes an order out of Odoo. *)
LEMMA BackedStep == TypeOK /\ BackedInv /\ [Next]_vars => BackedInv'
<1> SUFFICES ASSUME TypeOK, BackedInv, [Next]_vars PROVE BackedInv'
  OBVIOUS
<1> USE DEF rowVars, coVars, taskVars, adminVars, odooVars, historyVars
<1>1. ASSUME Backed => Backed',
             status' = "success" => status = "success" \/ Backed',
             \A c \in Coros : pc'[c] = "confirm" => pc[c] = "confirm" \/ Backed',
             \A c \in Coros : goal'[c] \in {"exists", "created"} =>
                 goal[c] \in {"exists", "created"} \/ Backed'
      PROVE  BackedInv'
  BY <1>1 DEF BackedInv, SuccessIsBacked, Backed
<1>2. ASSUME UNCHANGED <<odooOrders, status, goal>>,
             \A c \in Coros : pc'[c] = "confirm" => pc[c] = "confirm"
      PROVE  BackedInv'
  BY <1>1, <1>2 DEF Backed
<1>3. ASSUME NEW c \in Coros, NEW e, End(c, e), UNCHANGED odooOrders,
             status' = "success" => status = "success" \/ Backed
      PROVE  BackedInv'
  BY <1>1, <1>3 DEF TypeOK, End, Backed
<1>4. ASSUME NEW c \in Coros, NEW g, NEW e, TurnTo(c, g, e), UNCHANGED odooOrders,
             g \in {"exists", "created"} => Backed
      PROVE  BackedInv'
  BY <1>1, <1>4 DEF TypeOK, TurnTo, Backed
<1>5. ASSUME NEW w \in Workers, Die(w) PROVE BackedInv'
  BY <1>1, <1>5 DEF TypeOK, Die, Backed
<1>6. ASSUME NEW c \in Coros, Skip(c) \/ \E e \in Errors : FetchFails(c, e) PROVE BackedInv'
  BY <1>3, <1>6 DEF Skip, FetchFails
<1>7. ASSUME NEW c \in Coros, Look(c) \/ Load(c) PROVE BackedInv'
  BY <1>2, <1>7 DEF TypeOK, Look, Load
<1>8. ASSUME NEW c \in Coros, Claim(c) PROVE BackedInv'
  BY <1>1, <1>8 DEF TypeOK, Claim, Written, Backed
<1>9. ASSUME NEW c \in Coros, Check(c) PROVE BackedInv'
  BY <1>2, <1>4, <1>9 DEF TypeOK, Check, Backed
<1>10. ASSUME NEW c \in Coros, Create(c) PROVE BackedInv'
  <2>1. Backed'
    BY <1>10 DEF TypeOK, Create, Backed
  <2> QED
    BY <1>1, <1>10, <2>1 DEF TypeOK, Create
<1>11. ASSUME NEW c \in Coros, CreateOutlives(c) \/ \E e \in Errors : OdooFails(c, e)
       PROVE  BackedInv'
  BY <1>4, <1>11 DEF CreateOutlives, OdooFails
<1>12. ASSUME NEW c \in Coros, Confirm(c) PROVE BackedInv'
  BY <1>4, <1>12 DEF Confirm, BackedInv
<1>13. CASE LateCreate
  BY <1>1, <1>13 DEF TypeOK, LateCreate, Backed
<1>14. ASSUME NEW c \in Coros, Store(c) PROVE BackedInv'
  <2>1. status' = Written(snap[c], Outcome(goal[c]), status) /\ UNCHANGED odooOrders
    BY <1>14 DEF Store
  <2>2. status' = "success" => status = "success" \/ Backed
    BY <2>1 DEF TypeOK, Goals, Written, Outcome, BackedInv
  <2>3. CASE Marks(c)
    BY <1>1, <1>14, <2>1, <2>2, <2>3 DEF TypeOK, Store, Backed
  <2>4. CASE ~Marks(c)
    BY <1>3, <1>14, <2>1, <2>2, <2>4 DEF Store
  <2> QED
    BY <2>3, <2>4
<1>15. ASSUME NEW c \in Coros, DatabaseFails(c) PROVE BackedInv'
  <2>1. CASE goal[c] = "exists"
    BY <1>1, <1>15, <2>1 DEF TypeOK, DatabaseFails, Backed
  <2>2. CASE goal[c] # "exists"
    BY <1>3, <1>15, <2>2 DEF DatabaseFails
  <2> QED
    BY <2>1, <2>2
<1>16. ASSUME NEW w \in Workers, \/ \E m \in Messages : Take(w, m)
                                 \/ SoftLimitFires(w)
       PROVE  BackedInv'
  BY <1>2, <1>16 DEF TypeOK, Take, SoftLimitFires
<1>17. ASSUME NEW w \in Workers, HardLimitKills(w) \/ Crash(w) PROVE BackedInv'
  BY <1>5, <1>17 DEF HardLimitKills, Crash
<1>18. CASE AdminStore
  BY <1>1, <1>18 DEF AdminStore, Written, Backed
<1>19. CASE Tick \/ AdminLoad \/ AdminSend \/ \E k \in Kinds : Arrive(k)
  BY <1>2, <1>19 DEF Tick, AdminLoad, AdminSend, Arrive
<1>20. CASE UNCHANGED vars
  BY <1>2, <1>20 DEF vars
<1> HIDE DEF BackedInv
<1> QED
  BY <1>6, <1>7, <1>8, <1>9, <1>10, <1>11, <1>12, <1>13, <1>14, <1>15, <1>16, <1>17, <1>18,
     <1>19, <1>20 DEF Next, Sync

(* A mapping row says "success" only of an order that is in Odoo, whatever *)
(* abandoned coroutines, lost workers and operators do to it.              *)
THEOREM SuccessBacked == Spec => []SuccessIsBacked
<1>1. Init => BackedInv
  BY DEF Init, BackedInv, SuccessIsBacked
<1>2. BackedInv => SuccessIsBacked
  BY DEF BackedInv
<1> QED
  BY <1>1, <1>2, TypeCorrect, BackedStep, PTL DEF Spec

----------------------------------------------------------------------------
(* ExclusiveSync is not inductive.  What keeps a second sync out is first  *)
(* the lock, which one coroutine at most holds and only while it claims,   *)
(* and after that the row, which is "syncing" and no older than the task   *)
(* of the coroutine that claimed it, so younger than StaleAfter for as     *)
(* long as the hard limit lets that task run.                              *)
LockInv ==
    /\ \A c \in Coros : pc[c] = "claim" <=> c \in lock
    /\ \A c, d \in lock : c = d
    /\ \A c \in Coros : pc[c] \in {"load", "store"} <=> goal[c] # "none"

(* Every coroutine belongs to a task that runs. *)
Owned == \A c \in Coros : pc[c] # "idle" => IsMain(c)

(* The row is held by whoever syncs. *)
RowHeld == \A c \in Coros : Syncing(c) => status = "syncing" /\ age <= run[c[1]]

(* A claim is made of a row that nobody syncs and that needs a sync. *)
ClaimSafe ==
    \A c \in Coros : pc[c] = "claim" =>
        /\ status # "success"
        /\ snap[c] = "syncing" => status = "syncing"
        /\ \A d \in Coros : ~Syncing(d)

OneSync == \A c, d \in Coros : Syncing(c) /\ Syncing(d) => c = d

Undisturbed == ~overlapped => Owned /\ RowHeld /\ ClaimSafe /\ OneSync

(* Two coroutines of one slot of one process are the same. *)
LEMMA SameCoro ==
    \A c, d \in Coros : c[1] = d[1] /\ c[2] = d[2] => c = d
  BY DEF Coros

(* Every step keeps LockInv. *)
LEMMA LockStep == TypeOK /\ LockInv /\ [Next]_vars => LockInv'
<1> SUFFICES ASSUME TypeOK, LockInv, [Next]_vars PROVE LockInv'
  OBVIOUS
<1> USE DEF rowVars, coVars, taskVars, adminVars, odooVars, historyVars
<1>1. ASSUME NEW c \in Coros, NEW e, End(c, e), lock' = lock \ {c} PROVE LockInv'
  BY <1>1 DEF TypeOK, LockInv, End
<1>2. ASSUME NEW c \in Coros, NEW g \in Goals \ {"none"}, NEW e, TurnTo(c, g, e), pc[c] # "claim"
      PROVE  LockInv'
  BY <1>2 DEF TypeOK, LockInv, TurnTo
<1>3. ASSUME NEW w \in Workers, Die(w) PROVE LockInv'
  BY <1>3 DEF TypeOK, LockInv, Die
<1>4. ASSUME UNCHANGED <<pc, goal, lock>> PROVE LockInv'
  BY <1>4 DEF LockInv
<1>5. ASSUME NEW c \in Coros, Skip(c) \/ \E e \in Errors : FetchFails(c, e) PROVE LockInv'
  BY <1>1, <1>5 DEF LockInv, Skip, FetchFails
<1>6. ASSUME NEW c \in Coros, Look(c) PROVE LockInv'
  BY <1>6 DEF TypeOK, LockInv, Look
<1>7. ASSUME NEW c \in Coros, Claim(c) PROVE LockInv'
  BY <1>7 DEF TypeOK, LockInv, Claim
<1>8. ASSUME NEW c \in Coros, Check(c) PROVE LockInv'
  <2>1. CASE TurnTo(c, "exists", "none")
    BY <1>2, <1>8, <2>1 DEF Check, Goals
  <2>2. CASE ~TurnTo(c, "exists", "none")
    BY <1>8, <2>2 DEF TypeOK, LockInv, Check
  <2> QED
    BY <2>1, <2>2
<1>9. ASSUME NEW c \in Coros, Create(c) \/ Load(c) PROVE LockInv'
  BY <1>9 DEF TypeOK, LockInv, Create, Load
<1>10. ASSUME NEW c \in Coros,
              CreateOutlives(c) \/ Confirm(c) \/ \E e \in Errors : OdooFails(c, e)
       PROVE  LockInv'
  BY <1>2, <1>10 DEF CreateOutlives, Confirm, OdooFails, Goals
<1>11. ASSUME NEW c \in Coros, Store(c) PROVE LockInv'
  <2>1. CASE Marks(c)
    BY <1>11, <2>1 DEF TypeOK, LockInv, Store
  <2>2. CASE ~Marks(c)
    BY <1>1, <1>11, <2>2 DEF LockInv, Store
  <2> QED
    BY <2>1, <2>2
<1>12. ASSUME NEW c \in Coros, DatabaseFails(c) PROVE LockInv'
  <2>1. CASE goal[c] = "exists"
    BY <1>12, <2>1 DEF TypeOK, LockInv, DatabaseFails
  <2>2. CASE goal[c] # "exists"
    BY <1>1, <1>12, <2>2 DEF DatabaseFails
  <2> QED
    BY <2>1, <2>2
<1>13. ASSUME NEW w \in Workers, NEW m \in Messages, Take(w, m) PROVE LockInv'
  BY <1>13 DEF TypeOK, LockInv, Take
<1>14. ASSUME NEW w \in Workers, HardLimitKills(w) \/ Crash(w) PROVE LockInv'
  BY <1>3, <1>14 DEF HardLimitKills, Crash
<1>15. ASSUME \/ Tick \/ LateCreate \/ AdminLoad \/ AdminStore \/ AdminSend
              \/ \E k \in Kinds : Arrive(k)
              \/ \E w \in Workers : SoftLimitFires(w)
              \/ UNCHANGED vars
       PROVE  LockInv'
  BY <1>4, <1>15 DEF Tick, LateCreate, AdminLoad, AdminStore, AdminSend, Arrive, SoftLimitFires,
                     vars
<1> QED
  BY <1>5, <1>6, <1>7, <1>8, <1>9, <1>10, <1>11, <1>12, <1>13, <1>14, <1>15 DEF Next, Sync

(* A coroutine that has claimed the order still holds its row: nobody      *)
(* takes it for abandoned before the hard limit ends the task.             *)
LEMMA SyncingIsClaimed ==
    ASSUME TypeOK, RowHeld, NEW c \in Coros, Syncing(c)
    PROVE  Claimed
<1>1. status = "syncing" /\ age <= run[c[1]]
  BY DEF RowHeld
<1>2. run[c[1]] < HardLimit /\ run[c[1]] \in Nat /\ age \in Nat
  BY Limits DEF Syncing, Runs, TypeOK, Coros
<1> QED
  BY <1>1, <1>2, OrderSyncAssumption DEF Claimed

(* A step that starts neither a claim nor a sync, and leaves the row to    *)
(* those who go on with one, keeps Undisturbed.                            *)
LEMMA NothingStarts ==
    ASSUME Undisturbed, ~overlapped, Owned',
           \A c \in Coros : Syncing(c)' =>
               Syncing(c) /\ status' = status /\ age' <= run'[c[1]],
           \A c \in Coros : pc'[c] = "claim" =>
               /\ pc[c] = "claim" /\ snap'[c] = snap[c]
               /\ status' = status \/ (status # "syncing" /\ status' # "success")
    PROVE  Undisturbed'
<1>1. Owned /\ RowHeld /\ ClaimSafe /\ OneSync
  BY DEF Undisturbed
<1>2. RowHeld' /\ OneSync'
  BY <1>1 DEF RowHeld, OneSync
<1>3. ClaimSafe'
  BY <1>1 DEF ClaimSafe
<1> QED
  BY <1>2, <1>3 DEF Undisturbed

(* A coroutine that ends leaves the other tasks alone: its own task has no *)
(* other coroutine.                                                        *)
LEMMA EndAlone ==
    ASSUME TypeOK, Owned, NEW c \in Coros, NEW e, pc[c] # "idle", End(c, e)
    PROVE  /\ Owned' /\ pc'[c] = "idle"
           /\ \A d \in Coros : pc'[d] # "idle" =>
                  /\ d # c /\ pc'[d] = pc[d] /\ goal'[d] = goal[d] /\ snap'[d] = snap[d]
                  /\ run'[d[1]] = run[d[1]]
<1>1. pc' = [pc EXCEPT ![c] = "idle"] /\ goal' = [goal EXCEPT ![c] = "none"]
      /\ snap' = [snap EXCEPT ![c] = "none"] /\ Free(c[1])
  BY DEF Owned, End
<1>2. \A d \in Coros : pc'[d] # "idle" =>
          d # c /\ pc'[d] = pc[d] /\ goal'[d] = goal[d] /\ snap'[d] = snap[d]
  BY <1>1 DEF TypeOK
<1>3. \A d \in Coros : pc'[d] # "idle" => d[1] # c[1]
  BY <1>2, SameCoro DEF Owned, IsMain
<1>4. \A d \in Coros : pc'[d] # "idle" =>
          task'[d[1]] = task[d[1]] /\ main'[d[1]] = main[d[1]] /\ run'[d[1]] = run[d[1]]
  BY <1>1, <1>3 DEF TypeOK, Free, Coros
<1>5. Owned'
  BY <1>2, <1>4 DEF Owned, IsMain
<1>6. pc'[c] = "idle"
  BY <1>1 DEF TypeOK
<1> QED
  BY <1>2, <1>4, <1>5, <1>6

(* A coroutine that ends, and writes the row only if it was the one that   *)
(* synced, keeps Undisturbed.                                              *)
LEMMA EndKeeps ==
    ASSUME TypeOK, Undisturbed, ~overlapped, NEW c \in Coros, NEW e, pc[c] # "idle", End(c, e),
           \/ UNCHANGED rowVars
           \/ Syncing(c)
           \/ /\ status' = status /\ age' \in {0, age}
           \/ /\ status \notin {"syncing", "success"} /\ status' # "success"
    PROVE  Undisturbed'
<1>1. Owned /\ RowHeld /\ ClaimSafe /\ OneSync
  BY DEF Undisturbed
<1>2. /\ Owned' /\ pc'[c] = "idle"
      /\ \A d \in Coros : pc'[d] # "idle" =>
             /\ d # c /\ pc'[d] = pc[d] /\ goal'[d] = goal[d] /\ snap'[d] = snap[d]
             /\ run'[d[1]] = run[d[1]]
  BY <1>1, EndAlone
<1>3. ASSUME NEW d \in Coros, Syncing(d)'
      PROVE  Syncing(d) /\ status' = status /\ age' <= run'[d[1]]
  <2>1. pc'[d] # "idle"
    BY <1>3 DEF Syncing
  <2>2. Syncing(d) /\ d # c /\ run'[d[1]] = run[d[1]]
    BY <1>2, <1>3, <2>1 DEF Syncing, Runs
  <2>3. ~Syncing(c) /\ status = "syncing" /\ age <= run[d[1]]
    BY <1>1, <2>2 DEF OneSync, RowHeld
  <2>4. status' = status /\ age' \in {0, age}
    BY <2>3 DEF rowVars
  <2>5. run[d[1]] \in Nat
    BY DEF TypeOK, Coros
  <2> QED
    BY <2>2, <2>3, <2>4, <2>5
<1>4. ASSUME NEW d \in Coros, pc'[d] = "claim"
      PROVE  /\ pc[d] = "claim" /\ snap'[d] = snap[d]
             /\ status' = status \/ (status # "syncing" /\ status' # "success")
  <2>1. pc[d] = "claim" /\ snap'[d] = snap[d]
    BY <1>2, <1>4
  <2>2. ~Syncing(c)
    BY <1>1, <2>1 DEF ClaimSafe
  <2> QED
    BY <2>1, <2>2 DEF rowVars
<1> QED
  BY <1>2, <1>3, <1>4, NothingStarts

(* A step of one coroutine to its next place that writes nothing but that  *)
(* keeps Undisturbed.                                                      *)
LEMMA MoveKeeps ==
    ASSUME TypeOK, Undisturbed, ~overlapped, UNCHANGED <<rowVars, taskVars>>,
           \A d \in Coros : pc'[d] # "idle" => pc[d] # "idle",
           \A d \in Coros : Syncing(d)' => Syncing(d),
           \A d \in Coros : pc'[d] = "claim" => pc[d] = "claim" /\ snap'[d] = snap[d]
    PROVE  Undisturbed'
<1>1. Owned /\ RowHeld
  BY DEF Undisturbed
<1>2. Owned'
  BY <1>1 DEF Owned, IsMain, taskVars
<1>3. \A d \in Coros : Syncing(d)' => status' = status /\ age' <= run'[d[1]]
  BY <1>1 DEF RowHeld, rowVars, taskVars
<1> QED
  BY <1>2, <1>3, NothingStarts DEF rowVars

(* Every step keeps Undisturbed. *)
LEMMA UndisturbedStep == TypeOK /\ LockInv /\ Undisturbed /\ [Next]_vars => Undisturbed'
<1> SUFFICES ASSUME TypeOK, LockInv, Undisturbed, [Next]_vars, ~overlapped' PROVE Undisturbed'
  BY DEF Undisturbed
<1> USE DEF rowVars, coVars, taskVars, adminVars, odooVars, historyVars
<1>0. ~overlapped
  BY DEF Next, Sync, Arrive, Take, FetchFails, Skip, Look, Claim, Check, Create, CreateOutlives,
         Confirm, OdooFails, LateCreate, Load, Store, DatabaseFails, Tick, SoftLimitFires,
         HardLimitKills, Crash, Die, AdminLoad, AdminStore, AdminSend, vars
<1>a. Owned /\ RowHeld /\ ClaimSafe /\ OneSync
  BY <1>0 DEF Undisturbed
<1>1. ASSUME NEW w \in Workers, NEW m \in Messages, Take(w, m) PROVE Undisturbed'
  <2>1. \A c \in Coros : c[1] = w => pc[c] = "idle"
    BY <1>a, <1>1 DEF Take, Owned, IsMain
  <2>2. PICK i \in {1, 2} : /\ main' = [main EXCEPT ![w] = i]
                            /\ pc' = [pc EXCEPT ![<<w, i>>] = "fetch"]
    BY <1>1 DEF Take
  <2>3. <<w, i>> \in Coros /\ m # NoTask
    BY DEF Coros, Messages, Kinds, NoTask
  <2>4. \A c \in Coros : pc'[c] # "idle" => \/ c[1] = w /\ c[2] = i /\ pc'[c] = "fetch"
                                            \/ c[1] # w /\ pc'[c] = pc[c]
    BY <2>1, <2>2, <2>3, SameCoro DEF TypeOK
  <2>5. \A c \in Coros : c[1] # w =>
            task'[c[1]] = task[c[1]] /\ main'[c[1]] = main[c[1]] /\ run'[c[1]] = run[c[1]]
    BY <1>1, <2>2 DEF TypeOK, Take, Coros
  <2>6. task'[w] = m /\ main'[w] = i
    BY <1>1, <2>2 DEF TypeOK, Take
  <2>7. Owned'
    BY <1>a, <2>3, <2>4, <2>5, <2>6 DEF Owned, IsMain
  <2>8. UNCHANGED <<status, age, goal, snap>>
    BY <1>1 DEF Take
  <2>9. ASSUME NEW c \in Coros, Syncing(c)'
        PROVE  Syncing(c) /\ status' = status /\ age' <= run'[c[1]]
    BY <1>a, <2>4, <2>5, <2>8, <2>9 DEF Syncing, Runs, RowHeld
  <2> QED
    BY <1>0, <2>4, <2>7, <2>8, <2>9, NothingStarts
<1>2. ASSUME NEW c \in Coros, Skip(c) \/ \E e \in Errors : FetchFails(c, e) PROVE Undisturbed'
  BY <1>0, <1>2, EndKeeps DEF Skip, FetchFails
<1>3. ASSUME NEW c \in Coros, Look(c) PROVE Undisturbed'
  <2>1. \A d \in Coros : ~Syncing(d)
    BY <1>a, <1>3, SyncingIsClaimed DEF Look
  <2>2. \A d \in Coros : ~Syncing(d)'
    BY <1>3, <2>1 DEF TypeOK, Look, Syncing, Runs
  <2>3. Owned'
    BY <1>a, <1>3 DEF TypeOK, Look, Owned, IsMain
  <2>4. ClaimSafe'
    BY <1>3, <2>2 DEF TypeOK, LockInv, Look, ClaimSafe, Claimed
  <2> QED
    BY <2>2, <2>3, <2>4 DEF Undisturbed, RowHeld, OneSync
<1>4. ASSUME NEW c \in Coros, Claim(c) PROVE Undisturbed'
  <2>1. \A d \in Coros : ~Syncing(d)
    BY <1>a, <1>4 DEF Claim, ClaimSafe
  <2>2. \A d \in Coros : d # c => pc'[d] = pc[d] /\ pc[d] # "claim"
    BY <1>4 DEF TypeOK, LockInv, Claim
  <2>3. \A d \in Coros : Syncing(d)' => d = c
    BY <1>4, <2>1, <2>2 DEF Claim, Syncing, Runs
  <2>4. status' = "syncing" /\ age' = 0
    BY <1>a, <1>4 DEF Claim, Written, ClaimSafe
  <2>5. run'[c[1]] \in Nat
    BY <1>4 DEF TypeOK, Claim, Coros
  <2>6. RowHeld' /\ OneSync'
    BY <2>3, <2>4, <2>5 DEF RowHeld, OneSync
  <2>7. ClaimSafe'
    BY <1>4, <2>2 DEF TypeOK, Claim, ClaimSafe
  <2>8. Owned'
    BY <1>a, <1>4 DEF TypeOK, Claim, Owned, IsMain
  <2> QED
    BY <2>6, <2>7, <2>8 DEF Undisturbed
<1>5. ASSUME NEW c \in Coros, NEW g \in Goals \ {"dead_letter"}, NEW e, TurnTo(c, g, e), Syncing(c)
      PROVE  Undisturbed'
  <2>1. \A d \in Coros : Syncing(d)' => Syncing(d)
    BY <1>5 DEF TypeOK, TurnTo, Syncing, Runs
  <2>2. \A d \in Coros : pc'[d] = "claim" => pc[d] = "claim" /\ snap'[d] = snap[d]
    BY <1>5 DEF TypeOK, TurnTo
  <2>3. \A d \in Coros : pc'[d] # "idle" => pc[d] # "idle"
    BY <1>5 DEF TypeOK, TurnTo, Syncing
  <2> QED
    BY <1>0, <1>5, <2>1, <2>2, <2>3, MoveKeeps DEF TurnTo
<1>6. ASSUME NEW c \in Coros, Check(c) PROVE Undisturbed'
  <2>1. CASE TurnTo(c, "exists", "none")
    BY <1>5, <1>6, <2>1 DEF Check, Goals, Syncing
  <2>2. CASE ~TurnTo(c, "exists", "none")
    <3>1. /\ pc[c] = "check" /\ Runs(c) /\ pc' = [pc EXCEPT ![c] = "create"]
          /\ UNCHANGED <<goal, snap, rowVars, taskVars>>
      BY <1>6, <2>2 DEF Check
    <3> QED
      BY <1>0, <3>1, MoveKeeps DEF TypeOK, Syncing, Runs
  <2> QED
    BY <2>1, <2>2
<1>7. ASSUME NEW c \in Coros, Create(c) \/ Load(c) PROVE Undisturbed'
  <2>1. \A d \in Coros : pc'[d] # "idle" => pc[d] # "idle"
    BY <1>7 DEF TypeOK, Create, Load
  <2>2. \A d \in Coros : Syncing(d)' => Syncing(d)
    BY <1>7 DEF TypeOK, Create, Load, Syncing, Runs
  <2>3. \A d \in Coros : pc'[d] = "claim" => pc[d] = "claim" /\ snap'[d] = snap[d]
    BY <1>7 DEF TypeOK, Create, Load
  <2> QED
    BY <1>0, <1>7, <2>1, <2>2, <2>3, MoveKeeps DEF Create, Load
<1>8. ASSUME NEW c \in Coros,
             CreateOutlives(c) \/ Confirm(c) \/ \E e \in Errors : OdooFails(c, e)
      PROVE  Undisturbed'
  BY <1>5, <1>8 DEF CreateOutlives, Confirm, OdooFails, Goals, Syncing
<1>9. ASSUME NEW c \in Coros, Store(c) PROVE Undisturbed'
  <2>1. /\ pc[c] = "store" /\ Runs(c) /\ goal[c] # "none"
        /\ status' = Written(snap[c], Outcome(goal[c]), status)
        /\ age' \in {0, age}
        /\ goal[c] = "dead_letter" /\ status' # status => status \notin {"syncing", "success"}
    BY <1>9 DEF LockInv, Store
  <2>2. CASE Syncing(c) /\ Marks(c)
    <3>1. /\ pc' = [pc EXCEPT ![c] = "load"] /\ goal' = [goal EXCEPT ![c] = "dead_letter"]
          /\ snap' = [snap EXCEPT ![c] = "none"] /\ UNCHANGED taskVars
      BY <1>9, <2>2 DEF Store
    <3>2. \A d \in Coros : pc[d] # "claim" /\ (Syncing(d) => d = c)
      BY <1>a, <2>2 DEF ClaimSafe, OneSync
    <3>3. \A d \in Coros : ~Syncing(d)'
      BY <3>1, <3>2 DEF TypeOK, Syncing, Runs
    <3>4. \A d \in Coros : pc'[d] # "claim" /\ (pc'[d] # "idle" => pc[d] # "idle")
      BY <2>1, <3>1, <3>2 DEF TypeOK
    <3>5. Owned'
      BY <1>a, <3>1, <3>4 DEF Owned, IsMain
    <3> QED
      BY <1>0, <3>3, <3>4, <3>5, NothingStarts
  <2>3. CASE Syncing(c) /\ ~Marks(c)
    BY <1>0, <1>9, <2>1, <2>3, EndKeeps DEF Store
  <2>4. CASE ~Syncing(c)
    <3>1. goal[c] = "dead_letter" /\ ~Marks(c)
      BY <2>1, <2>4 DEF Syncing, Marks
    <3>2. status' = status \/ (status \notin {"syncing", "success"} /\ status' = "dead_letter")
      BY <2>1, <3>1 DEF Written, Outcome
    <3> QED
      BY <1>0, <1>9, <2>1, <3>1, <3>2, EndKeeps DEF Store
  <2> QED
    BY <2>2, <2>3, <2>4
<1>10. ASSUME NEW c \in Coros, DatabaseFails(c) PROVE Undisturbed'
  <2>1. CASE goal[c] = "exists"
    <3>1. /\ pc' = [pc EXCEPT ![c] = "load"] /\ goal' = [goal EXCEPT ![c] = "failed"]
          /\ snap' = [snap EXCEPT ![c] = "none"] /\ UNCHANGED <<rowVars, taskVars>>
      BY <1>10, <2>1 DEF DatabaseFails
    <3>2. Syncing(c) /\ pc[c] # "idle"
      BY <1>10, <2>1 DEF DatabaseFails, LockInv, Syncing
    <3>3. \A d \in Coros : Syncing(d)' => Syncing(d)
      BY <3>1, <3>2 DEF TypeOK, Syncing, Runs
    <3>4. \A d \in Coros : pc'[d] = "claim" => pc[d] = "claim" /\ snap'[d] = snap[d]
      BY <3>1 DEF TypeOK
    <3>5. \A d \in Coros : pc'[d] # "idle" => pc[d] # "idle"
      BY <3>1, <3>2 DEF TypeOK
    <3> QED
      BY <1>0, <3>1, <3>3, <3>4, <3>5, MoveKeeps
  <2>2. CASE goal[c] # "exists"
    BY <1>0, <1>10, <2>2, EndKeeps DEF DatabaseFails
  <2> QED
    BY <2>1, <2>2
<1>11. ASSUME NEW w \in Workers, Die(w), UNCHANGED overlapped PROVE Undisturbed'
  <2>1. \A c \in Coros : pc'[c] # "idle" =>
            c[1] # w /\ pc'[c] = pc[c] /\ goal'[c] = goal[c] /\ snap'[c] = snap[c]
    BY <1>11 DEF TypeOK, Die
  <2>2. \A c \in Coros : c[1] # w =>
            task'[c[1]] = task[c[1]] /\ main'[c[1]] = main[c[1]] /\ run'[c[1]] = run[c[1]]
    BY <1>11 DEF TypeOK, Die, Free, Coros
  <2>3. Owned'
    BY <1>a, <2>1, <2>2 DEF Owned, IsMain
  <2>4. UNCHANGED <<status, age>>
    BY <1>11 DEF Die
  <2>5. ASSUME NEW c \in Coros, Syncing(c)'
        PROVE  Syncing(c) /\ status' = status /\ age' <= run'[c[1]]
    <3>1. pc'[c] # "idle"
      BY <2>5 DEF Syncing
    <3> QED
      BY <1>a, <2>1, <2>2, <2>4, <2>5, <3>1 DEF Syncing, Runs, RowHeld
  <2> QED
    BY <1>0, <2>1, <2>3, <2>4, <2>5, NothingStarts
<1>12. ASSUME NEW w \in Workers, HardLimitKills(w) \/ Crash(w) PROVE Undisturbed'
  BY <1>11, <1>12 DEF HardLimitKills, Crash, Die
<1>13. CASE Tick
  <2>1. ASSUME NEW c \in Coros, Syncing(c)'
        PROVE  Syncing(c) /\ status' = status /\ age' <= run'[c[1]]
    <3>1. UNCHANGED <<status, pc, goal>> /\ run[c[1]] < HardLimit
      BY <1>13 DEF Tick, Coros
    <3>2. Syncing(c)
      BY <2>1, <3>1 DEF Syncing, Runs
    <3>3. Busy(c[1])
      BY <1>a, <3>2 DEF Owned, IsMain, Syncing, Busy
    <3>4. run'[c[1]] = run[c[1]] + 1 /\ age' \in {age, age + 1}
      BY <1>13, <3>3 DEF Tick, Coros
    <3>5. age <= run[c[1]] /\ age \in Nat /\ run[c[1]] \in Nat
      BY <1>a, <3>2 DEF RowHeld, TypeOK, Coros
    <3> QED
      BY <3>1, <3>2, <3>4, <3>5
  <2>2. Owned'
    BY <1>a, <1>13 DEF Tick, Owned, IsMain
  <2> QED
    BY <1>0, <1>13, <2>1, <2>2, NothingStarts DEF Tick
<1>14. CASE AdminStore
  <2>1. status \notin {"syncing", "success"} /\ (status' = status \/ status' = "pending")
    BY <1>14 DEF AdminStore, Written
  <2>2. \A c \in Coros : ~Syncing(c)'
    BY <1>a, <1>14, <2>1 DEF AdminStore, RowHeld, Syncing, Runs
  <2>3. Owned'
    BY <1>a, <1>14 DEF AdminStore, Owned, IsMain
  <2> QED
    BY <1>0, <1>14, <2>1, <2>2, <2>3, NothingStarts DEF AdminStore
<1>15. ASSUME UNCHANGED <<rowVars, pc, goal, snap, taskVars>> PROVE Undisturbed'
  BY <1>0, <1>15, MoveKeeps DEF Syncing, Runs
<1>16. ASSUME \/ LateCreate \/ AdminLoad \/ AdminSend
              \/ \E k \in Kinds : Arrive(k)
              \/ UNCHANGED vars
       PROVE  Undisturbed'
  BY <1>15, <1>16 DEF LateCreate, AdminLoad, AdminSend, Arrive, vars
<1>17. ASSUME NEW w \in Workers, SoftLimitFires(w) PROVE Undisturbed'
  BY <1>17 DEF SoftLimitFires
<1> QED
  BY <1>1, <1>2, <1>3, <1>4, <1>6, <1>7, <1>8, <1>9, <1>10, <1>12, <1>13, <1>14, <1>16, <1>17
     DEF Next, Sync

(* LockInv and Undisturbed hold in every state. *)
LEMMA UndisturbedAlways == Spec => [](TypeOK /\ LockInv /\ Undisturbed)
<1>1. Init => LockInv /\ Undisturbed
  BY DEF Init, LockInv, Undisturbed, Owned, RowHeld, ClaimSafe, OneSync, Syncing
<1> QED
  BY <1>1, TypeCorrect, LockStep, UndisturbedStep, PTL DEF Spec

(* One sync of the order at a time gets through to Odoo, with any number   *)
(* of worker processes, messages, retries, crashes and lost workers, and   *)
(* although the advisory lock is gone by then.                             *)
THEOREM OneSyncAtATime == Spec => []ExclusiveSync
<1>1. Undisturbed => ExclusiveSync
  BY DEF Undisturbed, OneSync, ExclusiveSync
<1> QED
  BY <1>1, UndisturbedAlways, PTL

(* A recorded success is never taken back: only a coroutine that syncs     *)
(* records a failure, and while one does the row says "syncing".           *)
LEMMA SuccessStep ==
    TypeOK /\ LockInv /\ Undisturbed /\ [Next]_vars =>
        (status = "success" /\ ~overlapped' => status' = "success")
<1> SUFFICES ASSUME TypeOK, LockInv, Undisturbed, [Next]_vars, status = "success", ~overlapped',
                    status' # status
             PROVE  FALSE
  OBVIOUS
<1> USE DEF rowVars
<1>1. \/ \E c \in Coros : Claim(c) \/ Store(c)
      \/ AdminStore
  BY DEF Next, Sync, Arrive, Take, FetchFails, Skip, Look, Check, TurnTo, Create, CreateOutlives,
         Confirm, OdooFails, LateCreate, Load, DatabaseFails, Tick, SoftLimitFires,
         HardLimitKills, Crash, Die, AdminLoad, AdminSend, vars
<1>2. ~overlapped
  BY <1>1 DEF Claim, Store, AdminStore, historyVars
<1>3. RowHeld /\ ClaimSafe
  BY <1>2 DEF Undisturbed
<1>4. ASSUME NEW c \in Coros, Claim(c) PROVE FALSE
  BY <1>3, <1>4 DEF Claim, ClaimSafe
<1>5. ASSUME NEW c \in Coros, Store(c) PROVE FALSE
  <2>1. ~Syncing(c)
    BY <1>3 DEF RowHeld
  <2>2. goal[c] = "dead_letter"
    BY <1>5, <2>1 DEF Store, Syncing
  <2> QED
    BY <1>5, <2>2 DEF Store
<1> QED
  BY <1>1, <1>4, <1>5 DEF AdminStore

(* No slower sync, failure or retry takes a recorded success back, unless  *)
(* an operator or a dead-letter mark is written over somebody else's sync. *)
THEOREM SuccessAlwaysKept == Spec => SuccessKept
<1>1. TypeOK /\ LockInv /\ Undisturbed /\ [Next]_vars =>
          [status = "success" /\ ~overlapped' => status' = "success"]_vars
  BY SuccessStep
<1> QED
  BY <1>1, UndisturbedAlways, PTL DEF Spec, SuccessKept

----------------------------------------------------------------------------
(* OneOrder adds to exclusion what Odoo was asked: whoever is about to     *)
(* create the order has seen that there is none, and no create is left     *)
(* behind in Odoo that could slip in between.                              *)
CreatedOnce ==
    /\ ~unsure => late = 0
    /\ ~overlapped /\ ~unsure =>
           /\ odooOrders <= 1
           /\ \A c \in Coros : pc[c] = "create" /\ Runs(c) => odooOrders = 0

(* The steps that bring no order to Odoo and send nobody to create one.    *)
LEMMA NothingCreated ==
    ASSUME CreatedOnce, ~unsure', unsure => unsure', overlapped => overlapped',
           UNCHANGED odooVars,
           \A c \in Coros : pc'[c] = "create" /\ Runs(c)' => pc[c] = "create" /\ Runs(c)
    PROVE  CreatedOnce'
  BY DEF CreatedOnce, odooVars

(* Every step keeps CreatedOnce. *)
LEMMA CreatedStep ==
    TypeOK /\ LockInv /\ Undisturbed /\ CreatedOnce /\ [Next]_vars => CreatedOnce'
<1> SUFFICES ASSUME TypeOK, LockInv, Undisturbed, CreatedOnce, [Next]_vars, ~unsure'
             PROVE  CreatedOnce'
  BY DEF CreatedOnce
<1> USE DEF rowVars, coVars, taskVars, adminVars, odooVars, historyVars
<1>a. ASSUME NEW w \in Workers, Die(w) PROVE ~unsure /\ late' = late /\ UNCHANGED overlapped
  <2>1. PICK n \in 0 .. Cardinality({c \in Coros : c[1] = w /\ pc[c] = "create"}) :
            late' = late + n /\ unsure' = (unsure \/ n > 0)
    BY <1>a DEF Die
  <2>2. ~unsure /\ ~(n > 0)
    BY <2>1, Zenon
  <2>3. n = 0
    BY <2>2
  <2> QED
    BY <1>a, <2>1, <2>2, <2>3 DEF Die, TypeOK
<1>b. ~unsure
  BY <1>a DEF Next, Sync, Arrive, Take, FetchFails, Skip, Look, Claim, Check, Create,
         CreateOutlives, Confirm, OdooFails, LateCreate, Load, Store, DatabaseFails, Tick,
         SoftLimitFires, HardLimitKills, Crash, AdminLoad, AdminStore, AdminSend, vars
<1>c. overlapped => overlapped'
  BY <1>a DEF Next, Sync, Arrive, Take, FetchFails, Skip, Look, Claim, Check, Create,
         CreateOutlives, Confirm, OdooFails, LateCreate, Load, Store, DatabaseFails, Tick,
         SoftLimitFires, HardLimitKills, Crash, AdminLoad, AdminStore, AdminSend, vars
<1>0. ~unsure /\ (overlapped => overlapped') /\ late = 0
  BY <1>b, <1>c DEF CreatedOnce
<1>1. ASSUME NEW w \in Workers, NEW m \in Messages, Take(w, m) PROVE CreatedOnce'
  <2>1. PICK i \in {1, 2} : pc[<<w, i>>] = "idle" /\ pc' = [pc EXCEPT ![<<w, i>>] = "fetch"]
    BY <1>1 DEF Take
  <2> QED
    <3>1. ASSUME NEW c \in Coros, pc'[c] = "create", Runs(c)', ~overlapped
          PROVE  pc[c] = "create" /\ Runs(c)
      <4>1. pc[c] = "create" /\ IsMain(c)
        BY <2>1, <3>1 DEF TypeOK, Undisturbed, Owned
      <4>2. c[1] # w
        BY <1>1, <4>1 DEF Take, IsMain
      <4>3. run'[c[1]] = run[c[1]]
        BY <1>1, <4>2 DEF TypeOK, Take, Coros
      <4> QED
        BY <3>1, <4>1, <4>3 DEF Runs
    <3> QED
      BY <1>0, <1>1, <3>1 DEF CreatedOnce, Take
<1>2. ASSUME NEW c \in Coros, NEW e, End(c, e), UNCHANGED odooVars, pc[c] # "idle"
      PROVE  CreatedOnce'
  <2>1. ASSUME ~overlapped, NEW d \in Coros, pc'[d] = "create", Runs(d)'
        PROVE  pc[d] = "create" /\ Runs(d)
    <3>1. Owned
      BY <2>1 DEF Undisturbed
    <3> QED
      BY <1>2, <2>1, <3>1, EndAlone DEF Runs
  <2> QED
    BY <1>0, <1>2, <2>1 DEF CreatedOnce
<1>3. ASSUME NEW c \in Coros, \/ Skip(c) \/ \E e \in Errors : FetchFails(c, e)
                              \/ Store(c) /\ ~Marks(c)
                              \/ DatabaseFails(c) /\ goal[c] # "exists"
      PROVE  CreatedOnce'
  BY <1>2, <1>3 DEF Skip, FetchFails, Store, DatabaseFails
<1>4. ASSUME NEW c \in Coros, NEW p \in Places \ {"create"}, pc' = [pc EXCEPT ![c] = p],
             UNCHANGED <<odooVars, run>>
      PROVE  CreatedOnce'
  BY <1>0, <1>4, NothingCreated DEF TypeOK, Runs
<1>5. ASSUME NEW c \in Coros, \/ Look(c) \/ Claim(c) \/ Load(c)
                              \/ Store(c) /\ Marks(c)
                              \/ DatabaseFails(c) /\ goal[c] = "exists"
                              \/ Confirm(c)
                              \/ \E e \in Errors : OdooFails(c, e)
      PROVE  CreatedOnce'
  BY <1>4, <1>5 DEF Look, Claim, Load, Store, DatabaseFails, Confirm, OdooFails, TurnTo, Places
<1>6. ASSUME NEW c \in Coros, Check(c) PROVE CreatedOnce'
  <2>1. CASE odooOrders > 0
    BY <1>4, <1>6, <2>1 DEF TypeOK, Check, TurnTo, Places
  <2>2. CASE odooOrders = 0
    BY <1>0, <1>6, <2>2 DEF TypeOK, Check, CreatedOnce
  <2> QED
    BY <1>6, <2>1, <2>2 DEF Check
<1>7. ASSUME NEW c \in Coros, Create(c) PROVE CreatedOnce'
  <2>1. ASSUME ~overlapped PROVE odooOrders = 0 /\ OneSync /\ Syncing(c)
    BY <1>0, <1>7, <2>1 DEF Create, CreatedOnce, Undisturbed, Syncing
  <2>2. ASSUME ~overlapped, NEW d \in Coros, pc'[d] = "create", Runs(d)' PROVE FALSE
    <3>1. d # c /\ Syncing(d)
      BY <1>7, <2>2 DEF TypeOK, Create, Syncing, Runs
    <3> QED
      BY <2>1, <2>2, <3>1 DEF OneSync
  <2>3. odooOrders' = odooOrders + 1 /\ UNCHANGED <<late, overlapped, unsure>>
    BY <1>7 DEF Create
  <2> QED
    BY <1>0, <2>1, <2>2, <2>3 DEF CreatedOnce
<1>8. ASSUME NEW w \in Workers, HardLimitKills(w) \/ Crash(w) PROVE CreatedOnce'
  <2>1. Die(w)
    BY <1>8 DEF HardLimitKills, Crash
  <2>2. UNCHANGED odooVars
    BY <1>a, <2>1 DEF Die
  <2>3. \A c \in Coros : pc'[c] # "idle" => c[1] # w /\ pc'[c] = pc[c]
    BY <2>1 DEF TypeOK, Die
  <2>4. \A c \in Coros : c[1] # w => run'[c[1]] = run[c[1]]
    BY <2>1 DEF TypeOK, Die, Free, Coros
  <2> QED
    BY <1>0, <2>2, <2>3, <2>4, NothingCreated DEF Runs
<1>9. CASE Tick
  <2>1. \A c \in Coros : Runs(c)
    BY <1>9 DEF Tick, Runs, Coros
  <2> QED
    BY <1>0, <1>9, <2>1, NothingCreated DEF Tick
<1>10. ASSUME NEW w \in Workers, SoftLimitFires(w) PROVE CreatedOnce'
  BY <1>0, <1>10 DEF SoftLimitFires, CreatedOnce
<1>11. ASSUME \/ AdminLoad \/ AdminStore \/ AdminSend
              \/ \E k \in Kinds : Arrive(k)
              \/ UNCHANGED vars
       PROVE  CreatedOnce'
  BY <1>0, <1>11, NothingCreated DEF AdminLoad, AdminStore, AdminSend, Arrive, Runs, vars
<1>12. ~LateCreate /\ \A c \in Coros : ~CreateOutlives(c)
  BY <1>0 DEF LateCreate, CreateOutlives
<1> QED
  BY <1>1, <1>3, <1>5, <1>6, <1>7, <1>8, <1>9, <1>10, <1>11, <1>12 DEF Next, Sync

(* Retries, redeliveries, crashes and concurrent tasks create the sale     *)
(* order once, also in an Odoo that would accept a second one, as long as  *)
(* no create is carried out behind its caller's back.                      *)
THEOREM CreatedAtMostOnce == Spec => []OneOrder
<1>1. Init => CreatedOnce
  BY DEF Init, CreatedOnce
<1>2. CreatedOnce => OneOrder
  BY DEF CreatedOnce, OneOrder
<1> QED
  BY <1>1, <1>2, UndisturbedAlways, CreatedStep, PTL DEF Spec

----------------------------------------------------------------------------
(* The refinement also needs to know where a row that is not there yet and *)
(* an operator's request can be: nobody has claimed the one, and the other *)
(* is about a row that was given up.                                       *)
RowInv ==
    /\ status = "none" =>
           /\ admin = "idle"
           /\ \A c \in Coros : /\ pc[c] \in {"idle", "fetch", "claim"}
                               /\ pc[c] = "claim" => snap[c] = "none"
    /\ admin = "store" => status \notin {"none", "pending"}

(* A step that leaves the row and the operator alone keeps RowInv if no    *)
(* coroutine goes past its claim.                                          *)
LEMMA RowKept ==
    ASSUME RowInv, UNCHANGED <<status, admin>>,
           \A c \in Coros : \/ pc'[c] = "idle"
                            \/ pc'[c] = "fetch"
                            \/ pc'[c] = pc[c] /\ snap'[c] = snap[c]
                            \/ pc[c] \notin {"idle", "fetch", "claim"}
    PROVE  RowInv'
  BY DEF RowInv

(* Every step keeps RowInv. *)
LEMMA RowStep == TypeOK /\ LockInv /\ RowInv /\ [Next]_vars => RowInv'
<1> SUFFICES ASSUME TypeOK, LockInv, RowInv, [Next]_vars PROVE RowInv'
  OBVIOUS
<1> USE DEF rowVars, coVars, taskVars, adminVars, odooVars, historyVars
<1>1. ASSUME NEW w \in Workers, NEW m \in Messages, Take(w, m) PROVE RowInv'
  BY <1>1, RowKept DEF TypeOK, Take
<1>2. ASSUME NEW c \in Coros, NEW e, End(c, e), UNCHANGED <<status, admin>> PROVE RowInv'
  BY <1>2, RowKept DEF TypeOK, End
<1>3. ASSUME NEW c \in Coros, Skip(c) \/ \E e \in Errors : FetchFails(c, e) PROVE RowInv'
  BY <1>2, <1>3 DEF Skip, FetchFails
<1>4. ASSUME NEW c \in Coros, Look(c) PROVE RowInv'
  BY <1>4 DEF TypeOK, Look, RowInv
<1>5. ASSUME NEW c \in Coros, Claim(c) PROVE RowInv'
  <2>1. status' \in {"syncing", status} /\ status' # "none" /\ UNCHANGED admin
    BY <1>5 DEF Claim, Written, RowInv
  <2> QED
    BY <2>1 DEF RowInv
<1>6. ASSUME NEW c \in Coros, pc[c] \in {"check", "create", "confirm", "load", "store"},
             UNCHANGED <<status, admin>>, \A d \in Coros \ {c} : pc'[d] = pc[d] /\ snap'[d] = snap[d]
      PROVE  RowInv'
  BY <1>6, RowKept
<1>7. ASSUME NEW c \in Coros, \/ Check(c) \/ Create(c) \/ CreateOutlives(c) \/ Confirm(c) \/ Load(c)
                              \/ \E e \in Errors : OdooFails(c, e)
      PROVE  RowInv'
  BY <1>6, <1>7 DEF TypeOK, Check, Create, CreateOutlives, Confirm, Load, OdooFails, TurnTo
<1>8. ASSUME NEW c \in Coros, Store(c) PROVE RowInv'
  <2>1. status # "none" /\ goal[c] # "none" /\ UNCHANGED admin
    BY <1>8 DEF LockInv, RowInv, Store
  <2>2. status' \in {status, "success", "failed", "dead_letter"}
    BY <1>8, <2>1 DEF TypeOK, Goals, Store, Written, Outcome
  <2> QED
    BY <2>1, <2>2 DEF RowInv
<1>9. ASSUME NEW c \in Coros, DatabaseFails(c) PROVE RowInv'
  <2>1. CASE goal[c] = "exists"
    BY <1>6, <1>9, <2>1 DEF TypeOK, LockInv, DatabaseFails
  <2>2. CASE goal[c] # "exists"
    BY <1>2, <1>9, <2>2 DEF DatabaseFails
  <2> QED
    BY <2>1, <2>2
<1>10. ASSUME NEW w \in Workers, HardLimitKills(w) \/ Crash(w) PROVE RowInv'
  BY <1>10, RowKept DEF TypeOK, HardLimitKills, Crash, Die
<1>11. CASE AdminLoad
  BY <1>11 DEF AdminLoad, RowInv
<1>12. CASE AdminStore
  BY <1>12 DEF AdminStore, RowInv, Written
<1>13. CASE AdminSend
  BY <1>13 DEF AdminSend, RowInv
<1>14. ASSUME \/ Tick \/ LateCreate
              \/ \E k \in Kinds : Arrive(k)
              \/ \E w \in Workers : SoftLimitFires(w)
              \/ UNCHANGED vars
       PROVE  RowInv'
  BY <1>14, RowKept DEF Tick, LateCreate, Arrive, SoftLimitFires, vars
<1> QED
  BY <1>1, <1>3, <1>4, <1>5, <1>7, <1>8, <1>9, <1>10, <1>11, <1>12, <1>13, <1>14 DEF Next, Sync

(* No step takes a sale order out of Odoo. *)
LEMMA OrdersStay == TypeOK /\ [Next]_vars => odooOrders' \in Nat /\ odooOrders' >= odooOrders
<1> SUFFICES ASSUME TypeOK, [Next]_vars PROVE odooOrders' \in Nat /\ odooOrders' >= odooOrders
  OBVIOUS
<1>1. odooOrders' \in {odooOrders, odooOrders + 1}
  BY DEF Next, Sync, Arrive, Take, FetchFails, Skip, Look, Claim, Check, Create, CreateOutlives,
         Confirm, OdooFails, LateCreate, Load, Store, DatabaseFails, Tick, SoftLimitFires,
         HardLimitKills, Crash, Die, AdminLoad, AdminStore, AdminSend, vars, odooVars
<1> QED
  BY <1>1 DEF TypeOK

(* Every step of the sync is one of the record, or invisible there. *)
LEMMA RecordStep ==
    ASSUME TypeOK, LockInv, Undisturbed, CreatedOnce, BackedInv, RowInv, [Next]_vars,
           TypeOK', BackedInv'
    PROVE  Promise!Next \/ UNCHANGED Promise!vars
<1> USE DEF rowVars, odooVars, historyVars
<1>1. CASE (overlapped \/ unsure)'
  <2>1. status' \in Promise!Records /\ (overlapped \/ unsure)' \in BOOLEAN
    BY DEF TypeOK, Statuses, Promise!Records
  <2>2. status' = "success" => odooOrders' > 0
    BY DEF BackedInv, SuccessIsBacked
  <2>3. Promise!Disturbed
    BY <1>1, <2>1, <2>2, OrdersStay DEF Promise!Disturbed
  <2> QED
    BY <2>3 DEF Promise!Next
<1>2. CASE ~(overlapped \/ unsure)'
  <2>1. ~overlapped /\ ~unsure /\ ~LateCreate
    <3>1. overlapped => overlapped'
      BY DEF Next, Sync, Arrive, Take, FetchFails, Skip, Look, Claim, Check, TurnTo, Create,
             CreateOutlives, Confirm, OdooFails, LateCreate, Load, Store, DatabaseFails, Tick,
             SoftLimitFires, HardLimitKills, Crash, Die, AdminLoad, AdminStore, AdminSend, vars
    <3>2. ASSUME NEW w \in Workers, Die(w), ~unsure' PROVE ~unsure
      <4>1. PICK n : unsure' = (unsure \/ n > 0)
        BY <3>2 DEF Die
      <4> QED
        BY <3>2, <4>1
    <3>3. unsure => unsure'
      BY <3>2 DEF Next, Sync, Arrive, Take, FetchFails, Skip, Look, Claim, Check, TurnTo, Create,
             CreateOutlives, Confirm, OdooFails, LateCreate, Load, Store, DatabaseFails, Tick,
             SoftLimitFires, HardLimitKills, Crash, AdminLoad, AdminStore, AdminSend, vars
    <3> QED
      BY <1>2, <3>1, <3>3 DEF CreatedOnce, LateCreate
  <2>2. RowHeld /\ ClaimSafe /\ OneSync
    BY <2>1 DEF Undisturbed
  <2>3. UNCHANGED (overlapped \/ unsure)
    BY <1>2, <2>1
  <2>4. ASSUME NEW c \in Coros, Claim(c) PROVE Promise!Next \/ UNCHANGED Promise!vars
    <3>1. status' \in {"syncing", status} /\ status \in Statuses \ {"success"} /\ UNCHANGED odooOrders
      BY <2>2, <2>4 DEF Claim, Written, ClaimSafe, TypeOK
    <3>2. CASE status' = status
      BY <2>3, <3>1, <3>2 DEF Promise!vars
    <3>3. CASE status' # status
      <4>1. Promise!Claim
        BY <2>3, <3>1, <3>3 DEF Promise!Claim, Promise!Write, Statuses
      <4> QED
        BY <2>1, <4>1 DEF Promise!Next
    <3> QED
      BY <3>2, <3>3
  <2>5. ASSUME NEW c \in Coros, Create(c) PROVE Promise!Next
    <3>1. odooOrders = 0 /\ odooOrders' = odooOrders + 1 /\ UNCHANGED status
      BY <2>1, <2>5 DEF Create, CreatedOnce
    <3>2. status = "syncing"
      BY <2>2, <2>5 DEF RowHeld, Syncing, Create
    <3>3. Promise!Create
      BY <2>3, <3>1, <3>2 DEF Promise!Create
    <3> QED
      BY <2>1, <3>3 DEF Promise!Next
  <2>6. ASSUME NEW c \in Coros, Store(c), status' # status PROVE Promise!Next
    <3>1. status' = Outcome(goal[c]) /\ goal[c] \in Goals \ {"none"} /\ UNCHANGED odooOrders
      BY <2>6 DEF TypeOK, LockInv, Store, Written
    <3>2. CASE goal[c] = "dead_letter"
      <4>1. status \in {"pending", "failed"} /\ status' = "dead_letter"
        BY <1>2, <2>6, <3>1, <3>2 DEF TypeOK, RowInv, Statuses, Store, Outcome
      <4>2. Promise!SetAside
        BY <2>3, <3>1, <4>1 DEF Promise!SetAside, Promise!Write
      <4> QED
        BY <2>1, <4>2 DEF Promise!Next
    <3>3. CASE goal[c] # "dead_letter"
      <4>1. status = "syncing"
        BY <2>2, <2>6, <3>3 DEF RowHeld, Syncing, Store
      <4>2. CASE goal[c] = "failed"
        <5>1. Promise!Fail
          BY <2>3, <3>1, <4>1, <4>2 DEF Promise!Fail, Promise!Write, Outcome
        <5> QED
          BY <2>1, <5>1 DEF Promise!Next
      <4>3. CASE goal[c] \in {"exists", "created"}
        <5>1. odooOrders = 1
          BY <2>1, <4>3 DEF TypeOK, BackedInv, Backed, CreatedOnce
        <5>2. Promise!Succeed
          BY <2>3, <3>1, <4>1, <4>3, <5>1 DEF Promise!Succeed, Promise!Write, Outcome
        <5> QED
          BY <2>1, <5>2 DEF Promise!Next
      <4> QED
        BY <3>1, <3>3, <4>2, <4>3 DEF Goals
    <3> QED
      BY <3>2, <3>3
  <2>7. ASSUME AdminStore, status' # status PROVE Promise!Next
    <3>1. status' = "pending" /\ status \in {"failed", "dead_letter"} /\ UNCHANGED odooOrders
      BY <1>2, <2>7 DEF TypeOK, Statuses, RowInv, AdminStore, Written
    <3>2. Promise!Retry
      BY <2>3, <3>1 DEF Promise!Retry, Promise!Write
    <3> QED
      BY <2>1, <3>2 DEF Promise!Next
  <2>8. ASSUME UNCHANGED <<status, odooOrders>> PROVE UNCHANGED Promise!vars
    BY <2>3, <2>8 DEF Promise!vars
  <2>9. ASSUME NEW c \in Coros, Sync(c) \/ DatabaseFails(c)
        PROVE  Promise!Next \/ UNCHANGED Promise!vars
    <3>1. CASE Store(c)
      <4>1. UNCHANGED odooOrders
        BY <3>1 DEF Store
      <4> QED
        BY <2>6, <2>8, <3>1, <4>1
    <3>2. CASE ~(Claim(c) \/ Create(c) \/ Store(c))
      <4>1. UNCHANGED <<status, odooOrders>>
        BY <2>9, <3>2 DEF Sync, Skip, Look, Check, TurnTo, CreateOutlives, Confirm, OdooFails,
                          FetchFails, Load, DatabaseFails
      <4> QED
        BY <2>8, <4>1
    <3> QED
      BY <2>4, <2>5, <3>1, <3>2
  <2>10. CASE AdminStore
    <3>1. UNCHANGED odooOrders
      BY <2>10 DEF AdminStore
    <3> QED
      BY <2>7, <2>8, <2>10, <3>1
  <2>11. ASSUME NEW w \in Workers,
                \/ \E m \in Messages : Take(w, m)
                \/ SoftLimitFires(w) \/ HardLimitKills(w) \/ Crash(w)
         PROVE  UNCHANGED <<status, odooOrders>>
    BY <2>11 DEF Take, SoftLimitFires, HardLimitKills, Crash, Die
  <2>12. ASSUME \/ \E k \in Kinds : Arrive(k)
                \/ Tick \/ AdminLoad \/ AdminSend \/ UNCHANGED vars
         PROVE  UNCHANGED <<status, odooOrders>>
    BY <2>12 DEF Arrive, Tick, AdminLoad, AdminSend, vars
  <2> QED
    BY <2>1, <2>8, <2>9, <2>10, <2>11, <2>12 DEF Next
<1> QED
  BY <1>1, <1>2

(* The order sync implements the record of an order it exists for: for any *)
(* workers, limits, messages, crashes, retries and operators, every step   *)
(* is one of OrderRecord's on the row and Odoo, or invisible there.        *)
THEOREM RecordImplemented == Spec => KeepsRecord
<1>1. Init => Promise!Init
  BY DEF Init, Promise!Init
<1>2. Init => BackedInv /\ CreatedOnce /\ RowInv
  BY DEF Init, BackedInv, SuccessIsBacked, CreatedOnce, RowInv
<1>3. TypeOK /\ LockInv /\ Undisturbed /\ CreatedOnce /\ BackedInv /\ RowInv /\ [Next]_vars
      /\ TypeOK' /\ BackedInv' => [Promise!Next]_(Promise!vars)
  BY RecordStep
<1> QED
  BY <1>1, <1>2, <1>3, UndisturbedAlways, CreatedStep, BackedStep, RowStep, PTL
     DEF Spec, KeepsRecord, Promise!Spec
(* A step that leaves the status as it is strands the row only if it was   *)
(* stranded, as long as whoever would bring it on still would.             *)
LEMMA StaysStranded ==
    ASSUME Stranded', status' = status, \A d \in Coros : Records(d) => Records(d)',
           status = "pending" /\ Called => Called'
    PROVE  Stranded
BY DEF Stranded

(* Coroutine c, which has nothing to record, leaves the others as they are. *)
LEMMA OthersRecord ==
    ASSUME TypeOK, NEW c \in Coros, ~Records(c),
           \A d \in Coros \ {c} : pc'[d] = pc[d] /\ goal'[d] = goal[d] /\ snap'[d] = snap[d]
    PROVE  \A d \in Coros : Records(d) => Records(d)'
<1> SUFFICES ASSUME NEW d \in Coros, Records(d) PROVE Records(d)'
  OBVIOUS
<1>1. d # c
  OBVIOUS
<1> QED
  BY <1>1 DEF Records

(* What a coroutine records is an outcome. *)
LEMMA OutcomeEnds == \A g \in Goals : Outcome(g) \notin {"syncing", "pending"}
BY DEF Goals, Outcome

(* A message that is sent again can be taken. *)
LEMMA RequeueCalls ==
    ASSUME TypeOK, NEW c \in Coros, NEW e, IsMain(c), Requeue(task[c[1]], e)
    PROVE  /\ \A m \in Messages : waiting[m] > 0 => waiting'[m] > 0
           /\ waiting' # waiting => \E m \in Messages : waiting'[m] > 0
<1> DEFINE m == task[c[1]]
           n == [m EXCEPT !.tries = @ + 1]
<1>1. m \in Messages
  BY DEF TypeOK, IsMain, Coros
<1>2. CASE waiting' = waiting
  BY <1>2
<1>3. CASE waiting' # waiting
  <2>1. waiting' = [waiting EXCEPT ![n] = @ + 1] /\ m.tries < MaxTries
    BY <1>3 DEF Requeue
  <2>2. n \in Messages
    BY <1>1, <2>1, OrderSyncAssumption DEF Messages
  <2>3. waiting'[n] = waiting[n] + 1 /\ \A k \in Messages \ {n} : waiting'[k] = waiting[k]
    BY <2>1, <2>2 DEF TypeOK
  <2> QED
    BY <2>2, <2>3 DEF TypeOK
<1> QED
  BY <1>2, <1>3

LEMMA StrandedStep == ASSUME TypeOK, [Next]_vars, Stranded', ~Stranded, ~Loses PROVE FALSE
<1> USE DEF rowVars, coVars, adminVars
<1>1. /\ status' \in {"syncing", "pending"} /\ \A c \in Coros : ~Records(c)'
      /\ status' = "pending" => ~Called'
  BY DEF Stranded
<1>2. ASSUME NEW c \in Coros,
             \/ Claim(c) \/ Check(c) \/ Create(c) \/ CreateOutlives(c) \/ Confirm(c)
             \/ \E e \in Errors : OdooFails(c, e)
      PROVE  FALSE
  <2>1. pc'[c] \in {"check", "create", "confirm", "load"}
    BY <1>2 DEF TypeOK, Claim, Check, Create, CreateOutlives, Confirm, OdooFails, TurnTo
  <2> QED
    BY <1>1, <2>1 DEF Records
<1>3. ASSUME NEW c \in Coros, Load(c) PROVE FALSE
  <2>1. pc'[c] = "store" /\ snap'[c] = status /\ goal' = goal /\ status' = status
    BY <1>3 DEF TypeOK, Load
  <2>2. Outcome(goal[c])' = Outcome(goal[c])
    BY <2>1 DEF Outcome
  <2>3. status = Outcome(goal[c])
    BY <1>1, <2>1, <2>2 DEF Records
  <2> QED
    BY <1>1, <2>1, <2>3, OutcomeEnds DEF TypeOK
<1>4. ASSUME NEW c \in Coros, Store(c) PROVE FALSE
  <2>1. pc[c] = "store" /\ Outcome(goal[c]) \notin {"syncing", "pending"}
    BY <1>4, OutcomeEnds DEF TypeOK, Store
  <2>2. status' = status /\ snap[c] = Outcome(goal[c])
    BY <1>1, <1>4, <2>1 DEF Store, Written
  <2>3. ~Marks(c)
    <3>1. CASE Marks(c)
      <4>1. pc'[c] = "load"
        BY <1>4, <3>1 DEF TypeOK, Store
      <4> QED
        BY <1>1, <4>1 DEF Records
    <3> QED
      BY <3>1
  <2>4. End(c, error[c]) /\ admin' = admin
    BY <1>4, <2>3 DEF Store
  <2>5. \A d \in Coros \ {c} : pc'[d] = pc[d] /\ goal'[d] = goal[d] /\ snap'[d] = snap[d]
    BY <2>4 DEF TypeOK, End
  <2>6. \A d \in Coros : Records(d) => Records(d)'
    BY <2>1, <2>2, <2>5, OthersRecord DEF Records
  <2>7. \A m \in Messages : waiting[m] > 0 => waiting'[m] > 0
    BY <2>4, RequeueCalls DEF End
  <2>8. Called => Called'
    BY <2>1, <2>4, <2>5, <2>7 DEF Called
  <2> QED
    BY <2>2, <2>6, <2>8, StaysStranded
<1>5. ASSUME NEW c \in Coros, Skip(c) \/ Look(c) \/ \E e \in Errors : FetchFails(c, e)
      PROVE  FALSE
  <2>1. /\ pc[c] = "fetch" /\ status' = status
        /\ \A d \in Coros \ {c} : pc'[d] = pc[d] /\ goal'[d] = goal[d] /\ snap'[d] = snap[d]
    BY <1>5 DEF TypeOK, Skip, Look, FetchFails, End
  <2>2. \A d \in Coros : Records(d) => Records(d)'
    BY <2>1, OthersRecord DEF Records
  <2>3. CASE Skip(c)
    BY <1>1, <2>1, <2>2, <2>3, StaysStranded DEF Skip, Claimed
  <2>4. CASE Look(c)
    <3>1. pc'[c] = "claim"
      BY <2>4 DEF TypeOK, Look
    <3>2. Called'
      BY <3>1 DEF Called
    <3> QED
      BY <2>1, <2>2, <3>2, StaysStranded
  <2>5. ASSUME NEW e \in Errors, FetchFails(c, e) PROVE FALSE
    <3>1. waiting' # waiting
      BY <2>5 DEF Loses
    <3>2. IsMain(c) /\ Requeue(task[c[1]], e)
      BY <2>5, <3>1 DEF FetchFails, End
    <3>3. Called'
      BY <3>1, <3>2, RequeueCalls DEF Called
    <3> QED
      BY <2>1, <2>2, <3>3, StaysStranded
  <2> QED
    BY <1>5, <2>3, <2>4, <2>5
<1>6. ASSUME NEW w \in Workers, NEW m \in Messages, Take(w, m) PROVE FALSE
  <2>1. PICK i \in {1, 2} : pc[<<w, i>>] = "idle" /\ pc' = [pc EXCEPT ![<<w, i>>] = "fetch"]
    BY <1>6 DEF Take
  <2>2. <<w, i>> \in Coros /\ status' = status /\ goal' = goal /\ snap' = snap
    BY <1>6 DEF Take, Coros
  <2>3. pc'[<<w, i>>] = "fetch" /\ \A d \in Coros \ {<<w, i>>} : pc'[d] = pc[d]
    BY <2>1, <2>2 DEF TypeOK
  <2>4. \A d \in Coros : Records(d) => Records(d)'
    BY <2>1, <2>2, <2>3, OthersRecord DEF Records
  <2>5. Called'
    BY <2>2, <2>3 DEF Called
  <2> QED
    BY <2>2, <2>4, <2>5, StaysStranded
<1>7. ASSUME UNCHANGED <<pc, goal, snap>>, status' = status, status = "pending" /\ Called => Called'
      PROVE  FALSE
  <2>1. \A d \in Coros : Records(d) => Records(d)'
    BY <1>7 DEF Records, Outcome
  <2> QED
    BY <1>7, <2>1, StaysStranded
<1>8. ASSUME NEW k \in Kinds, Arrive(k) PROVE FALSE
  <2>1. First(k) \in Messages
    BY OrderSyncAssumption DEF Messages, First
  <2>2. Called'
    BY <1>8, <2>1 DEF TypeOK, Arrive, Called
  <2> QED
    BY <1>7, <1>8, <2>2 DEF Arrive
<1>9. CASE AdminStore
  <2>1. Called' /\ UNCHANGED <<pc, goal, snap>>
    BY <1>9 DEF AdminStore, Called
  <2>2. status' = status
    BY <1>1, <1>9, <2>1 DEF AdminStore, Written
  <2> QED
    BY <1>7, <2>1, <2>2
<1>10. CASE AdminSend
  <2>1. waiting' = [waiting EXCEPT ![First("admin")] = @ + 1]
    BY <1>10 DEF AdminSend, Loses
  <2>2. First("admin") \in Messages
    BY OrderSyncAssumption DEF Messages, First, Kinds
  <2>3. Called'
    BY <2>1, <2>2 DEF TypeOK, Called
  <2> QED
    BY <1>7, <1>10, <2>3 DEF AdminSend
<1>11. ASSUME \/ \E w \in Workers : SoftLimitFires(w)
              \/ Tick \/ LateCreate \/ AdminLoad \/ UNCHANGED vars
       PROVE  FALSE
  <2>1. UNCHANGED <<pc, goal, snap, status, waiting>> /\ (admin = "send" => admin' = "send")
    BY <1>11 DEF SoftLimitFires, Tick, LateCreate, AdminLoad, vars
  <2>2. Called => Called'
    BY <2>1 DEF Called
  <2> QED
    BY <1>7, <2>1, <2>2
<1>12. ~\E w \in Workers : HardLimitKills(w) \/ Crash(w)
  BY DEF Loses
<1>13. ~\E c \in Coros : DatabaseFails(c)
  BY DEF Loses
<1> QED
  BY <1>2, <1>3, <1>4, <1>5, <1>6, <1>8, <1>9, <1>10, <1>11, <1>12, <1>13 DEF Next, Sync

(* A claim or an operator's request is left to nobody only by a lost       *)
(* process, a failed transaction, a refused send or the end of a task's    *)
(* retries: of any number of syncs, abandoned ones and operators, the last *)
(* of those that are at the order records an outcome.                      *)
THEOREM StrandedOnlyByLoss == Spec => StrandedByLoss
<1>1. TypeOK /\ [Next]_vars => [Stranded' => Stranded \/ Loses]_vars
  BY StrandedStep
<1> QED
  BY <1>1, TypeCorrect, PTL DEF Spec, StrandedByLoss
----------------------------------------------------------------------------
(* How far a coroutine is from its end, in steps of its own: the places of *)
(* a sync and what it has still to write after the outcome at hand.        *)
Stage(place) ==
    CASE place = "idle"    -> 0
      [] place = "store"   -> 1
      [] place = "load"    -> 2
      [] place = "confirm" -> 7
      [] place = "create"  -> 8
      [] place = "check"   -> 9
      [] place = "claim"   -> 10
      [] place = "fetch"   -> 11

Writes(g) ==
    CASE g \in {"none", "created", "dead_letter"} -> 0
      [] g = "failed"                             -> 2
      [] g = "exists"                             -> 4

Ahead(c) == Stage(pc[c]) + Writes(goal[c])

(* Each step of a sync, also one in which a transaction fails, brings it   *)
(* nearer to its end, and no step of another coroutine, of an operator or  *)
(* of the clock takes it back: a sync writes a failure at most twice, and  *)
(* after it a dead-letter mark at most once.                               *)
GetsOn ==
    [][\A c \in Coros :
         /\ Sync(c) \/ DatabaseFails(c) => Ahead(c)' < Ahead(c)
         /\ Ahead(c)' <= Ahead(c) \/ \E m \in Messages : Take(c[1], m)]_vars

LEMMA AheadType == TypeOK /\ LockInv => \A c \in Coros : Ahead(c) \in 0 .. 11
<1> SUFFICES ASSUME TypeOK, LockInv, NEW c \in Coros PROVE Ahead(c) \in 0 .. 11
  OBVIOUS
<1>1. Stage(pc[c]) \in 0 .. 11 /\ (pc[c] \in {"load", "store"} => Stage(pc[c]) <= 2)
  BY DEF TypeOK, Stage, Places
<1>2. Writes(goal[c]) \in 0 .. 4 /\ (goal[c] = "none" => Writes(goal[c]) = 0)
  BY DEF TypeOK, Writes, Goals
<1>3. pc[c] \in {"load", "store"} \/ goal[c] = "none"
  BY DEF LockInv
<1> QED
  BY <1>1, <1>2, <1>3 DEF Ahead

(* A coroutine's step is nobody else's. *)
LEMMA StepAlone ==
    ASSUME TypeOK, NEW c \in Coros, Sync(c) \/ DatabaseFails(c), NEW d \in Coros \ {c}
    PROVE  pc'[d] = pc[d] /\ goal'[d] = goal[d]
<1> USE DEF TypeOK, coVars
<1>1. CASE Skip(c) \/ Look(c) \/ Claim(c) \/ Load(c) \/ \E e \in Errors : FetchFails(c, e)
  BY <1>1 DEF Skip, Look, Claim, Load, FetchFails, End
<1>2. CASE Check(c) \/ Create(c) \/ CreateOutlives(c) \/ Confirm(c)
           \/ \E e \in Errors : OdooFails(c, e)
  BY <1>2 DEF Check, Create, CreateOutlives, Confirm, OdooFails, TurnTo
<1>3. CASE Store(c) \/ DatabaseFails(c)
  BY <1>3 DEF Store, DatabaseFails, End
<1> QED
  BY <1>1, <1>2, <1>3 DEF Sync

LEMMA SyncGetsOn ==
    ASSUME TypeOK, LockInv, NEW c \in Coros, Sync(c) \/ DatabaseFails(c)
    PROVE  Ahead(c)' < Ahead(c)
<1> USE DEF TypeOK
<1>1. pc[c] \in Places /\ goal[c] \in Goals /\ (pc[c] \in {"load", "store"} <=> goal[c] # "none")
  BY DEF LockInv
<1>2. ASSUME NEW e, End(c, e), pc[c] # "idle" PROVE Ahead(c)' < Ahead(c)
  <2>1. pc'[c] = "idle" /\ goal'[c] = "none"
    BY <1>2 DEF End
  <2>2. Ahead(c)' = 0
    BY <2>1 DEF Ahead, Stage, Writes
  <2>3. Stage(pc[c]) \in 1 .. 11 /\ Writes(goal[c]) \in 0 .. 4
    BY <1>1, <1>2 DEF Places, Goals, Stage, Writes
  <2> QED
    BY <2>2, <2>3 DEF Ahead
<1>3. ASSUME NEW g \in {"exists", "created", "failed"}, NEW e, TurnTo(c, g, e),
             pc[c] \in {"check", "create", "confirm"}
      PROVE  Ahead(c)' < Ahead(c)
  <2>1. pc'[c] = "load" /\ goal'[c] = g /\ goal[c] = "none"
    BY <1>1, <1>3 DEF TurnTo
  <2>2. Stage(pc'[c]) = 2 /\ Writes(g) \in 0 .. 4
    BY <2>1 DEF Stage, Writes
  <2>3. Stage(pc[c]) \in 7 .. 9 /\ Writes(goal[c]) = 0
    BY <1>3, <2>1 DEF Stage, Writes
  <2> QED
    BY <2>1, <2>2, <2>3 DEF Ahead
<1>4. ASSUME goal'[c] = goal[c], Stage(pc[c]) \in 0 .. 11, Stage(pc'[c]) \in 0 .. 11,
             Stage(pc'[c]) < Stage(pc[c])
      PROVE  Ahead(c)' < Ahead(c)
  <2>1. Writes(goal[c]) \in 0 .. 4
    BY <1>1 DEF Goals, Writes
  <2> QED
    BY <1>4, <2>1 DEF Ahead
<1>5. CASE Skip(c) \/ \E e \in Errors : FetchFails(c, e)
  BY <1>2, <1>5 DEF Skip, FetchFails
<1>6. CASE Look(c) \/ Claim(c) \/ Create(c) \/ Load(c)
  <2>1. /\ goal'[c] = goal[c]
        /\ \/ pc[c] = "fetch" /\ pc'[c] = "claim"
           \/ pc[c] = "claim" /\ pc'[c] = "check"
           \/ pc[c] = "create" /\ pc'[c] = "confirm"
           \/ pc[c] = "load" /\ pc'[c] = "store"
    BY <1>6 DEF Look, Claim, Create, Load
  <2>2. /\ Stage(pc[c]) \in 0 .. 11 /\ Stage(pc'[c]) \in 0 .. 11
        /\ Stage(pc'[c]) < Stage(pc[c])
    BY <2>1 DEF Stage
  <2> QED
    BY <1>4, <2>1, <2>2
<1>7. CASE Check(c)
  <2>1. CASE TurnTo(c, "exists", "none")
    BY <1>3, <1>7, <2>1 DEF Check
  <2>2. CASE goal'[c] = goal[c] /\ pc[c] = "check" /\ pc'[c] = "create"
    <3>1. /\ Stage(pc[c]) \in 0 .. 11 /\ Stage(pc'[c]) \in 0 .. 11
          /\ Stage(pc'[c]) < Stage(pc[c])
      BY <2>2 DEF Stage
    <3> QED
      BY <1>4, <2>2, <3>1
  <2> QED
    BY <1>7, <2>1, <2>2 DEF Check
<1>8. CASE CreateOutlives(c) \/ Confirm(c) \/ \E e \in Errors : OdooFails(c, e)
  BY <1>3, <1>8 DEF CreateOutlives, Confirm, OdooFails
<1>9. ASSUME pc[c] = "store", goal[c] = "failed", pc'[c] = "load", goal'[c] = "dead_letter"
      PROVE  Ahead(c)' < Ahead(c)
  BY <1>9 DEF Ahead, Stage, Writes
<1>10. CASE Store(c)
  <2>1. CASE Marks(c)
    <3>1. pc[c] = "store" /\ goal[c] = "failed" /\ pc'[c] = "load" /\ goal'[c] = "dead_letter"
      BY <1>10, <2>1 DEF Store, Marks
    <3> QED
      BY <1>9, <3>1
  <2> QED
    BY <1>2, <1>10, <2>1 DEF Store
<1>11. CASE DatabaseFails(c)
  <2>1. CASE goal[c] = "exists"
    <3>1. pc[c] \in {"load", "store"} /\ pc'[c] = "load" /\ goal'[c] = "failed"
      BY <1>1, <1>11, <2>1 DEF DatabaseFails
    <3>2. Stage(pc[c]) >= 1 /\ Stage(pc[c]) \in Nat /\ Stage(pc'[c]) = 2
      BY <3>1 DEF Stage
    <3>3. Writes(goal[c]) = 4 /\ Writes(goal'[c]) = 2
      BY <2>1, <3>1 DEF Writes
    <3> QED
      BY <3>2, <3>3 DEF Ahead
  <2> QED
    BY <1>2, <1>11, <2>1 DEF DatabaseFails
<1> QED
  BY <1>5, <1>6, <1>7, <1>8, <1>10, <1>11 DEF Sync

(* A sync is over after at most 11 steps of its own, whatever other syncs, *)
(* operators, limits and lost workers do meanwhile, and also if it outlives *)
(* its task.                                                               *)
THEOREM EverySyncGetsOn == Spec => GetsOn /\ [](\A c \in Coros : Ahead(c) \in 0 .. 11)
<1>0. (TypeOK /\ LockInv)' => (\A c \in Coros : Ahead(c) \in 0 .. 11)'
  BY AheadType, PTL
<1>1. ASSUME TypeOK, LockInv, TypeOK', LockInv', [Next]_vars, NEW c \in Coros
      PROVE  /\ Sync(c) \/ DatabaseFails(c) => Ahead(c)' < Ahead(c)
             /\ Ahead(c)' <= Ahead(c) \/ \E m \in Messages : Take(c[1], m)
  <2>1. Ahead(c) \in 0 .. 11 /\ Ahead(c)' \in 0 .. 11
    BY <1>0, <1>1, AheadType
  <2>2. Sync(c) \/ DatabaseFails(c) => Ahead(c)' < Ahead(c)
    BY <1>1, SyncGetsOn
  <2>3. ASSUME pc'[c] = pc[c], goal'[c] = goal[c] PROVE Ahead(c)' <= Ahead(c)
    BY <2>1, <2>3 DEF Ahead
  <2>4. ASSUME NEW d \in Coros, d # c, Sync(d) \/ DatabaseFails(d) PROVE Ahead(c)' <= Ahead(c)
    BY <1>1, <2>3, <2>4, StepAlone
  <2>5. ASSUME NEW w \in Workers, NEW m \in Messages, Take(w, m), w # c[1]
        PROVE  Ahead(c)' <= Ahead(c)
    <3>1. pc'[c] = pc[c] /\ goal'[c] = goal[c]
      BY <1>1, <2>5 DEF Take, TypeOK
    <3> QED
      BY <2>3, <3>1
  <2>6. ASSUME NEW w \in Workers, Die(w) PROVE Ahead(c)' <= Ahead(c)
    <3>1. CASE c[1] = w
      <4>1. pc'[c] = "idle" /\ goal'[c] = "none"
        BY <2>6, <3>1 DEF Die
      <4>2. Ahead(c)' = 0
        BY <4>1 DEF Ahead, Stage, Writes
      <4> QED
        BY <2>1, <4>2
    <3>2. CASE c[1] # w
      <4>1. pc'[c] = pc[c] /\ goal'[c] = goal[c]
        BY <2>6, <3>2 DEF Die
      <4> QED
        BY <2>3, <4>1
    <3> QED
      BY <3>1, <3>2
  <2>7. ASSUME \/ \E k \in Kinds : Arrive(k)
               \/ \E w \in Workers : SoftLimitFires(w)
               \/ Tick \/ LateCreate \/ AdminLoad \/ AdminStore \/ AdminSend \/ UNCHANGED vars
        PROVE  Ahead(c)' <= Ahead(c)
    <3>1. pc'[c] = pc[c] /\ goal'[c] = goal[c]
      BY <2>7 DEF Arrive, SoftLimitFires, Tick, LateCreate, AdminLoad, AdminStore, AdminSend,
                  vars, coVars
    <3> QED
      BY <2>3, <3>1
  <2>8. Sync(c) \/ DatabaseFails(c) => Ahead(c)' <= Ahead(c)
    BY <2>1, <2>2
  <2> QED
    BY <1>1, <2>2, <2>4, <2>5, <2>6, <2>7, <2>8 DEF Next, HardLimitKills, Crash
<1>2. TypeOK /\ LockInv /\ TypeOK' /\ LockInv' /\ [Next]_vars =>
          [\A c \in Coros :
             /\ Sync(c) \/ DatabaseFails(c) => Ahead(c)' < Ahead(c)
             /\ Ahead(c)' <= Ahead(c) \/ \E m \in Messages : Take(c[1], m)]_vars
  BY <1>1
<1> QED
  BY <1>2, AheadType, TypeCorrect, UndisturbedAlways, PTL DEF Spec, GetsOn
=============================================================================
