------------------------ MODULE ReconciliationProofs ------------------------
(***************************************************************************)
(* TLAPS proofs about Reconciliation, for any orders, coroutines, page     *)
(* size and tolerance, and any value of the bounds.                        *)
(***************************************************************************)
EXTENDS Reconciliation, FiniteSetTheorems, TLAPS

(* The types by part, since most actions touch few of them. *)
WorldTypes ==
    /\ shopee \in [Orders -> ShopeeOrders]
    /\ odoo \in [Orders -> SUBSET OdooOrders]
    /\ row \in [Orders -> {"open", "syncing", "success"}]
    /\ holder \in [Orders -> {"nobody", "worker"} \union Runners]

RunTypes ==
    /\ pc \in [Runners -> {"idle", "list", "detail", "snapshot", "fix", "fixing",
                           "compare", "alert"}]
    /\ page \in [Runners -> SUBSET Orders]
    /\ fetched \in [Runners -> SUBSET Snapshots]
    /\ synced \in [Runners -> SUBSET Orders]
    /\ todo \in [Runners -> SUBSET Orders]
    /\ current \in [Runners -> SUBSET Orders]
    /\ review \in [Runners -> SUBSET Orders]
    /\ fixed \in [Runners -> SUBSET Orders]
    /\ drifts \in [Runners -> SUBSET (Orders \X Fields)]
    /\ unread \in [Runners -> SUBSET Orders]

StillType == still \in [Runners -> SUBSET Orders]

RestTypes ==
    /\ queue \in Nat
    /\ log \subseteq Orders
    /\ told \subseteq Orders \union {"failed"}
    /\ slow \subseteq Runners
    /\ excused \in BOOLEAN

BoundTypes == runs \in 0 .. MaxRuns /\ edits \in 0 .. MaxEdits /\ faults \in 0 .. MaxFaults

LEMMA TypeParts == TypeOK <=> WorldTypes /\ RunTypes /\ StillType /\ RestTypes /\ BoundTypes
  BY DEF TypeOK, WorldTypes, RunTypes, StillType, RestTypes, BoundTypes

LEMMA TypeInit == Init => TypeOK
<1> SUFFICES ASSUME Init PROVE TypeOK
  OBVIOUS
<1>1. WorldTypes
  BY DEF Init, WorldTypes
<1>2. RunTypes /\ StillType
  BY DEF Init, RunTypes, StillType
<1>3. RestTypes
  BY DEF Init, RestTypes
<1>4. BoundTypes
  BY ReconciliationAssumption DEF Init, BoundTypes
<1> QED
  BY <1>1, <1>2, <1>3, <1>4, TypeParts

LEMMA StillWorld == ASSUME WorldTypes, UNCHANGED worldVars PROVE WorldTypes'
  BY DEF WorldTypes, worldVars

LEMMA StillRun == ASSUME RunTypes, UNCHANGED runVars PROVE RunTypes'
  BY DEF RunTypes, runVars, fetchVars, loopVars, resultVars

LEMMA StillRest == ASSUME RestTypes, UNCHANGED <<queue, reportVars, slow, excused>> PROVE RestTypes'
  BY DEF RestTypes, reportVars

LEMMA StillBounds == ASSUME BoundTypes, UNCHANGED boundVars PROVE BoundTypes'
  BY DEF BoundTypes, boundVars

LEMMA EditType == ASSUME BoundTypes, Edit PROVE BoundTypes'
  BY ReconciliationAssumption DEF BoundTypes, Edit

LEMMA FaultType == ASSUME BoundTypes, Fault PROVE BoundTypes'
  BY ReconciliationAssumption DEF BoundTypes, Fault

LEMMA TouchType == ASSUME StillType, NEW o, NEW R, Touch(o, R) PROVE StillType'
  BY DEF StillType, Touch

(* What a sync leaves in Odoo is a sale order or none. *)
LEMMA InOdooType ==
    ASSUME WorldTypes, NEW o \in Orders
    PROVE  InOdoo(o) \union {odoo[o]} \subseteq SUBSET OdooOrders
  BY DEF WorldTypes, InOdoo

LEMMA NamedType == ASSUME RunTypes, NEW r \in Runners PROVE Named(r) \subseteq Orders
<1>1. review[r] \subseteq Orders /\ drifts[r] \subseteq Orders \X Fields
  BY DEF RunTypes
<1> QED
  BY <1>1 DEF Named

LEMMA ForgetType ==
    ASSUME RunTypes, StillType, slow \subseteq Runners, NEW r \in Runners, NEW S, Forget(r, S)
    PROVE  RunTypes' /\ StillType' /\ slow' \subseteq Runners
<1>1. RunTypes'
  BY DEF Forget, RunTypes
<1> QED
  BY <1>1 DEF Forget, StillType

(* The steps of the order workers, of Shopee and of Odoo. *)
LEMMA WorldTypeStep ==
    ASSUME TypeOK, NEW o \in Orders,
           \/ ShopeeChange(o) \/ OdooChange(o) \/ RowReset(o)
           \/ WorkerClaims(o) \/ WorkerSyncs(o) \/ WorkerFails(o)
    PROVE  TypeOK'
<1>0. WorldTypes /\ RunTypes /\ StillType /\ RestTypes /\ BoundTypes
  BY TypeParts
<1>1. RunTypes' /\ RestTypes'
  <2>1. UNCHANGED runVars /\ UNCHANGED <<queue, reportVars, slow, excused>>
    BY DEF ShopeeChange, OdooChange, RowReset, WorkerClaims, WorkerSyncs, WorkerFails
  <2> QED
    BY <1>0, <2>1, StillRun, StillRest
<1>2. StillType'
  BY <1>0, TouchType
     DEF ShopeeChange, OdooChange, RowReset, WorkerClaims, WorkerSyncs, WorkerFails
<1>3. BoundTypes'
  BY <1>0, EditType, StillBounds
     DEF ShopeeChange, OdooChange, RowReset, WorkerClaims, WorkerSyncs, WorkerFails
<1>4. WorldTypes'
  <2>1. CASE ShopeeChange(o)
    BY <1>0, <2>1 DEF WorldTypes, ShopeeChange
  <2>2. CASE OdooChange(o)
    BY <1>0, <2>2 DEF WorldTypes, OdooChange
  <2>3. CASE RowReset(o)
    BY <1>0, <2>3 DEF WorldTypes, RowReset
  <2>4. CASE WorkerClaims(o)
    BY <1>0, <2>4 DEF WorldTypes, WorkerClaims, Claim
  <2>5. CASE WorkerSyncs(o)
    <3>1. PICK Y \in InOdoo(o) : odoo' = [odoo EXCEPT ![o] = Y]
      BY <2>5 DEF WorkerSyncs
    <3>2. Y \in SUBSET OdooOrders
      BY <1>0, InOdooType
    <3> QED
      BY <1>0, <2>5, <3>1, <3>2 DEF WorldTypes, WorkerSyncs, Release
  <2>6. CASE WorkerFails(o)
    <3>1. PICK Y \in InOdoo(o) \union {odoo[o]} : odoo' = [odoo EXCEPT ![o] = Y]
      BY <2>6 DEF WorkerFails
    <3>2. Y \in SUBSET OdooOrders
      BY <1>0, InOdooType
    <3>3. row' \in [Orders -> {"open", "syncing", "success"}]
      BY <1>0, <2>6 DEF WorldTypes, WorkerFails
    <3> QED
      BY <1>0, <2>6, <3>1, <3>2, <3>3 DEF WorldTypes, WorkerFails, Release
  <2> QED
    BY <2>1, <2>2, <2>3, <2>4, <2>5, <2>6
<1> QED
  BY <1>1, <1>2, <1>3, <1>4, TypeParts DEF TypeOK, WorldTypes, RunTypes, StillType, RestTypes, BoundTypes

(* The steps of a run up to its first loop. *)
LEMMA FetchTypeStep ==
    ASSUME TypeOK, NEW r \in Runners,
           Take(r) \/ ListPage(r) \/ FetchDetails(r) \/ Snapshot(r) \/ FixesDone(r)
    PROVE  TypeOK'
<1>0. WorldTypes /\ RunTypes /\ StillType /\ RestTypes /\ BoundTypes
  BY TypeParts
<1>1. WorldTypes' /\ BoundTypes'
  <2>1. UNCHANGED worldVars /\ UNCHANGED boundVars
    BY DEF Take, ListPage, FetchDetails, Snapshot, FixesDone
  <2> QED
    BY <1>0, <2>1, StillWorld, StillBounds
<1>2. RestTypes'
  BY <1>0 DEF RestTypes, reportVars, Take, ListPage, FetchDetails, Snapshot, FixesDone
<1>3. StillType'
  BY <1>0 DEF StillType, Take, ListPage, FetchDetails, Snapshot, FixesDone
<1>4. RunTypes'
  <2> USE DEF fetchVars, loopVars, resultVars
  <2>1. CASE Take(r)
    BY <1>0, <2>1 DEF RunTypes, Take
  <2>2. CASE ListPage(r)
    BY <1>0, <2>2 DEF RunTypes, ListPage
  <2>3. CASE FetchDetails(r)
    <3>1. {[id |-> o, data |-> shopee[o]] : o \in page[r]} \subseteq Snapshots
      BY <1>0 DEF RunTypes, WorldTypes, Snapshots
    <3> QED
      BY <1>0, <2>3, <3>1 DEF RunTypes, FetchDetails
  <2>4. CASE Snapshot(r)
    <3>1. Ids(fetched[r]) \subseteq Orders
      BY <1>0 DEF RunTypes, Ids, Snapshots
    <3> QED
      BY <1>0, <2>4, <3>1 DEF RunTypes, Snapshot
  <2>5. CASE FixesDone(r)
    BY <1>0, <2>5 DEF RunTypes, FixesDone
  <2> QED
    BY <2>1, <2>2, <2>3, <2>4, <2>5
<1> QED
  BY <1>1, <1>2, <1>3, <1>4 DEF TypeOK, WorldTypes, RunTypes, StillType, RestTypes, BoundTypes

(* The steps of its two loops. *)
LEMMA FixTypeStep ==
    ASSUME TypeOK, NEW r \in Runners, NEW f \in fetched[r], FixNothing(r, f) \/ FixClaim(r, f)
    PROVE  TypeOK'
<1>0. WorldTypes /\ RunTypes /\ StillType /\ RestTypes /\ BoundTypes
  BY TypeParts
<1>1. f.id \in Orders
  BY <1>0 DEF RunTypes, Snapshots
<1>2. BoundTypes' /\ RestTypes'
  <2>1. UNCHANGED boundVars /\ UNCHANGED <<queue, reportVars, slow, excused>>
    BY DEF FixNothing, FixClaim
  <2> QED
    BY <1>0, <2>1, StillBounds, StillRest
<1>3. StillType'
  BY <1>0, TouchType DEF StillType, FixNothing, FixClaim
<1>4. RunTypes'
  BY <1>0, <1>1 DEF RunTypes, FixNothing, FixClaim, fetchVars, resultVars
<1>5. WorldTypes'
  BY <1>0, <1>1 DEF WorldTypes, worldVars, FixNothing, FixClaim, Claim
<1> QED
  BY <1>2, <1>3, <1>4, <1>5 DEF TypeOK, WorldTypes, RunTypes, StillType, RestTypes, BoundTypes

LEMMA FixEndTypeStep ==
    ASSUME TypeOK, NEW r \in Runners, NEW o \in Orders, FixDone(r, o) \/ FixFails(r, o)
    PROVE  TypeOK'
<1>0. WorldTypes /\ RunTypes /\ StillType /\ RestTypes /\ BoundTypes
  BY TypeParts
<1>1. FixEnds(r, o)
  BY DEF FixDone, FixFails
<1>2. BoundTypes'
  BY <1>0, StillBounds, FaultType DEF FixDone, FixFails
<1>3. RestTypes' /\ StillType'
  BY <1>0, <1>1, StillRest, TouchType DEF FixEnds
<1>4. review' \in [Runners -> SUBSET Orders] /\ fixed' \in [Runners -> SUBSET Orders]
  BY <1>0 DEF RunTypes, FixDone, FixFails
<1>5. RunTypes'
  BY <1>0, <1>1, <1>4 DEF RunTypes, FixEnds, fetchVars
<1>6. WorldTypes'
  <2>1. PICK Y \in InOdoo(o) \union {odoo[o]} : odoo' = [odoo EXCEPT ![o] = Y]
    BY DEF FixDone, FixFails
  <2>2. Y \in SUBSET OdooOrders
    BY <1>0, InOdooType
  <2>3. row' \in [Orders -> {"open", "syncing", "success"}]
    BY <1>0 DEF WorldTypes, FixDone, FixFails
  <2> QED
    BY <1>0, <1>1, <2>1, <2>2, <2>3 DEF WorldTypes, FixEnds, Release
<1> QED
  BY <1>2, <1>3, <1>5, <1>6 DEF TypeOK, WorldTypes, RunTypes, StillType, RestTypes, BoundTypes

LEMMA CompareTypeStep ==
    ASSUME TypeOK, NEW r \in Runners,
           \/ \E f \in fetched[r] : Compare(r, f)
           \/ \E o \in Orders : CompareFails(r, o)
    PROVE  TypeOK'
<1>0. WorldTypes /\ RunTypes /\ StillType /\ RestTypes /\ BoundTypes
  BY TypeParts
<1>1. WorldTypes' /\ RestTypes' /\ StillType'
  <2>1. UNCHANGED <<worldVars, still>> /\ UNCHANGED <<queue, reportVars, slow, excused>>
    BY DEF Compare, CompareFails
  <2> QED
    BY <1>0, <2>1, StillWorld, StillRest DEF StillType
<1>2. BoundTypes'
  BY <1>0, StillBounds, FaultType DEF Compare, CompareFails
<1>3. RunTypes'
  <2>1. ASSUME NEW f \in fetched[r], Compare(r, f) PROVE RunTypes'
    <3>1. f.id \in Orders
      BY <1>0 DEF RunTypes, Snapshots
    <3>2. {f.id} \X UNION {Differs(f.data, y) : y \in odoo[f.id]} \subseteq Orders \X Fields
      BY <3>1 DEF Differs
    <3> QED
      BY <1>0, <2>1, <3>2 DEF RunTypes, Compare, fetchVars
  <2>2. ASSUME NEW o \in Orders, CompareFails(r, o) PROVE RunTypes'
    BY <1>0, <2>2 DEF RunTypes, CompareFails, fetchVars
  <2> QED
    BY <2>1, <2>2
<1> QED
  BY <1>1, <1>2, <1>3 DEF TypeOK, WorldTypes, RunTypes, StillType, RestTypes, BoundTypes

(* The end of a run. *)
LEMMA EndTypeStep ==
    ASSUME TypeOK, NEW r \in Runners,
           Persist(r) \/ Alert(r) \/ AlertLost(r) \/ RunFails(r) \/ SoftLimit(r) \/ Crash(r)
    PROVE  TypeOK'
<1>0. WorldTypes /\ RunTypes /\ StillType /\ RestTypes /\ BoundTypes
  BY TypeParts
<1>1. BoundTypes'
  BY <1>0, StillBounds, FaultType DEF Persist, Alert, AlertLost, RunFails, SoftLimit, Crash
<1>2. CASE Persist(r)
  BY <1>0, <1>1, <1>2, NamedType
     DEF Persist, TypeOK, WorldTypes, RunTypes, StillType, RestTypes, BoundTypes,
         worldVars, fetchVars, loopVars, resultVars
<1>3. CASE SoftLimit(r)
  <2>1. WorldTypes' /\ RunTypes'
    BY <1>0, <1>3, StillWorld, StillRun DEF SoftLimit
  <2> QED
    BY <1>0, <1>1, <1>3, <2>1
       DEF SoftLimit, TypeOK, WorldTypes, RunTypes, StillType, RestTypes, BoundTypes, reportVars
<1>4. ASSUME NEW S, Forget(r, S), WorldTypes', queue' \in Nat, log' \subseteq Orders,
             told' \subseteq Orders \union {"failed"}, excused' \in BOOLEAN
      PROVE  TypeOK'
  <2>1. RunTypes' /\ StillType' /\ slow' \subseteq Runners
    BY <1>0, <1>4, ForgetType DEF RestTypes
  <2> QED
    BY <1>1, <1>4, <2>1 DEF TypeOK, WorldTypes, RunTypes, StillType, RestTypes, BoundTypes
<1>5. CASE Alert(r) \/ AlertLost(r) \/ RunFails(r)
  <2>1. WorldTypes' /\ queue' \in Nat /\ log' \subseteq Orders /\ excused' \in BOOLEAN
    <3>1. UNCHANGED worldVars /\ UNCHANGED queue /\ UNCHANGED log
          /\ (excused' = excused \/ excused' = TRUE)
      BY <1>5 DEF Alert, AlertLost, RunFails, reportVars
    <3> QED
      BY <1>0, <3>1, StillWorld DEF RestTypes
  <2>2. told' \subseteq Orders \union {"failed"}
    BY <1>0, <1>5, NamedType DEF RestTypes, Alert, AlertLost, RunFails, reportVars
  <2> QED
    BY <1>4, <1>5, <2>1, <2>2 DEF Alert, AlertLost, RunFails
<1>6. CASE Crash(r)
  <2>1. PICK Y \in [Orders -> SUBSET OdooOrders] :
           odoo' = [o \in Orders |-> IF o \in current[r] THEN Y[o] ELSE odoo[o]]
    BY <1>6 DEF Crash
  <2>2. WorldTypes'
    BY <1>0, <1>6, <2>1 DEF WorldTypes, Crash
  <2>3. queue' \in Nat /\ log' \subseteq Orders /\ told' \subseteq Orders \union {"failed"}
        /\ excused' \in BOOLEAN
    BY <1>0, <1>6 DEF RestTypes, Crash, reportVars
  <2> QED
    BY <1>4, <1>6, <2>2, <2>3 DEF Crash
<1> QED
  BY <1>2, <1>3, <1>5, <1>6

LEMMA TypeStep == TypeOK /\ [Next]_vars => TypeOK'
<1> SUFFICES ASSUME TypeOK, [Next]_vars PROVE TypeOK'
  OBVIOUS
<1>1. CASE Trigger
  <2>0. WorldTypes /\ RunTypes /\ StillType /\ RestTypes /\ BoundTypes
    BY TypeParts
  <2>1. WorldTypes' /\ RunTypes' /\ StillType'
    BY <1>1, <2>0, StillWorld, StillRun DEF Trigger, StillType
  <2>2. RestTypes' /\ BoundTypes'
    BY <1>1, <2>0, ReconciliationAssumption DEF Trigger, RestTypes, BoundTypes, reportVars
  <2> QED
    BY <2>1, <2>2 DEF TypeOK, WorldTypes, RunTypes, StillType, RestTypes, BoundTypes
<1>2. CASE UNCHANGED vars
  BY <1>2 DEF vars, TypeOK, worldVars, runVars, fetchVars, loopVars, resultVars, reportVars, boundVars
<1> QED
  BY <1>1, <1>2, WorldTypeStep, FetchTypeStep, FixTypeStep, FixEndTypeStep, CompareTypeStep,
     EndTypeStep DEF Next, World, Step

(* Every variable keeps its type, whatever the orders and the bounds.      *)
THEOREM TypeCorrect == Spec => []TypeOK
  BY TypeInit, TypeStep, PTL DEF Spec

----------------------------------------------------------------------------
(* What holds of a coroutine r, and of every order that nobody else has     *)
(* touched since r began.                                                   *)

(* r goes on once it has every order of the day. *)
Complete(r) ==
    /\ pc[r] = "idle" => fetched[r] = {}
    /\ pc[r] = "list" => Ids(fetched[r]) # Orders \/ Orders = {}
    /\ pc[r] = "snapshot" => Orders \subseteq Ids(fetched[r])

(* r syncs one order at a time. *)
OneAtATime(r) ==
    /\ pc[r] # "fixing" => current[r] = {}
    /\ \A o, p \in current[r] : o = p

(* Its copy of an order is Shopee's. *)
Fresh(r) == \A f \in fetched[r] : f.id \in still[r] => f.data = shopee[f.id]

(* While it syncs, an order is synced, or it is to come to it, or in the    *)
(* report.                                                                  *)
Sorted(r) ==
    pc[r] \in {"fix", "fixing"} =>
        \A o \in still[r] :
            \/ o \in todo[r] \union current[r] \union review[r]
            \/ o \in synced[r] \union fixed[r] /\ row[o] = "success"

(* While it compares, an order is in the report, or synced and either to be *)
(* compared or in no need of it.                                            *)
Compared(r) ==
    pc[r] = "compare" =>
        \A o \in still[r] :
            \/ o \in Named(r)
            \/ row[o] = "success" /\ (o \in fixed[r] \union unread[r] \union todo[r] \/ Agrees(o))

RunInv(r) == Complete(r) /\ OneAtATime(r) /\ Fresh(r) /\ Sorted(r) /\ Compared(r)

RInv == TypeOK /\ \A r \in Runners : RunInv(r)

(* What the others do leaves r and its untouched orders alone. *)
Frame(r) ==
    /\ pc'[r] = pc[r] /\ fetched'[r] = fetched[r] /\ synced'[r] = synced[r]
    /\ todo'[r] = todo[r] /\ current'[r] = current[r]
    /\ review'[r] = review[r] /\ fixed'[r] = fixed[r]
    /\ drifts'[r] = drifts[r] /\ unread'[r] = unread[r]
    /\ still'[r] \subseteq still[r]
    /\ \A o \in still'[r] : shopee'[o] = shopee[o] /\ odoo'[o] = odoo[o] /\ row'[o] = row[o]

LEMMA FrameKeeps == ASSUME NEW r \in Runners, RunInv(r), Frame(r) PROVE RunInv(r)'
<1>1. Complete(r)' /\ OneAtATime(r)'
  BY DEF RunInv, Frame, Complete, OneAtATime, Ids
<1>2. Fresh(r)'
  BY DEF RunInv, Frame, Fresh
<1>3. Sorted(r)'
  BY DEF RunInv, Frame, Sorted
<1>4. Compared(r)'
  <2>1. \A o \in still'[r] : o \in still[r] /\ (Agrees(o) => Agrees(o)')
    BY DEF Frame, Agrees
  <2> QED
    BY <2>1 DEF RunInv, Frame, Compared, Named
<1> QED
  BY <1>1, <1>2, <1>3, <1>4 DEF RunInv

(* The world's steps frame every coroutine. *)
LEMMA WorldFrames ==
    ASSUME TypeOK, NEW o \in Orders, NEW r \in Runners,
           \/ ShopeeChange(o) \/ OdooChange(o) \/ RowReset(o)
           \/ WorkerClaims(o) \/ WorkerSyncs(o) \/ WorkerFails(o)
    PROVE  Frame(r)
<1>1. UNCHANGED runVars
  BY DEF ShopeeChange, OdooChange, RowReset, WorkerClaims, WorkerSyncs, WorkerFails
<1>2. still'[r] = still[r] \ {o}
  BY DEF Touch, ShopeeChange, OdooChange, RowReset, WorkerClaims, WorkerSyncs, WorkerFails
<1>3. \A q \in Orders \ {o} : shopee'[q] = shopee[q] /\ odoo'[q] = odoo[q] /\ row'[q] = row[q]
  BY DEF TypeOK, Claim, ShopeeChange, OdooChange, RowReset, WorkerClaims, WorkerSyncs, WorkerFails
<1>4. still[r] \subseteq Orders
  BY DEF TypeOK
<1> QED
  BY <1>1, <1>2, <1>3, <1>4 DEF Frame, runVars, fetchVars, loopVars, resultVars

(* So do the steps of another coroutine. *)
LEMMA OthersFrame ==
    ASSUME TypeOK, NEW r \in Runners, NEW q \in Runners, q # r,
           \/ Take(q) \/ Step(q)
           \/ \E o \in Orders : FixFails(q, o) \/ CompareFails(q, o)
           \/ RunFails(q) \/ AlertLost(q) \/ SoftLimit(q) \/ Crash(q)
    PROVE  Frame(r)
<1>0. still[r] \subseteq Orders
  BY DEF TypeOK
<1>1. CASE Take(q) \/ ListPage(q) \/ FetchDetails(q) \/ Snapshot(q) \/ FixesDone(q) \/ Persist(q)
  BY <1>1 DEF TypeOK, Frame, Take, ListPage, FetchDetails, Snapshot, FixesDone, Persist, worldVars,
     fetchVars, loopVars, resultVars
<1>2. ASSUME NEW f \in fetched[q], FixNothing(q, f) \/ Compare(q, f) PROVE Frame(r)
  BY <1>2 DEF TypeOK, Frame, FixNothing, Compare, worldVars, fetchVars, loopVars, resultVars
<1>3. ASSUME NEW o \in Orders, CompareFails(q, o) PROVE Frame(r)
  BY <1>3 DEF TypeOK, Frame, CompareFails, worldVars, fetchVars, loopVars, resultVars
<1>4. ASSUME NEW f \in fetched[q], FixClaim(q, f) PROVE Frame(r)
  BY <1>0, <1>4 DEF TypeOK, Frame, FixClaim, Claim, Touch, fetchVars, resultVars
<1>5. ASSUME NEW o \in Orders, FixDone(q, o) \/ FixFails(q, o) PROVE Frame(r)
  <2>1. FixEnds(q, o)
    BY <1>5 DEF FixDone, FixFails
  <2>2. still'[r] = still[r] \ {o}
    BY <2>1 DEF FixEnds, Touch
  <2>3. \A p \in Orders \ {o} : shopee'[p] = shopee[p] /\ odoo'[p] = odoo[p] /\ row'[p] = row[p]
    BY <1>5, <2>1 DEF TypeOK, FixEnds, FixDone, FixFails
  <2>4. review'[r] = review[r] /\ fixed'[r] = fixed[r]
    BY <1>5 DEF TypeOK, FixDone, FixFails
  <2> QED
    BY <1>0, <2>1, <2>2, <2>3, <2>4 DEF TypeOK, Frame, FixEnds, fetchVars
<1>6. CASE Alert(q) \/ AlertLost(q) \/ RunFails(q)
  <2>1. UNCHANGED worldVars /\ Forget(q, {})
    BY <1>6 DEF Alert, AlertLost, RunFails
  <2> QED
    BY <1>0, <2>1 DEF TypeOK, Frame, Forget, worldVars
<1>7. CASE SoftLimit(q)
  BY <1>7 DEF Frame, SoftLimit, worldVars, runVars, fetchVars, loopVars, resultVars
<1>8. CASE Crash(q)
  <2>1. Forget(q, current[q]) /\ UNCHANGED <<shopee, row>>
    BY <1>8 DEF Crash
  <2>2. \A o \in Orders \ current[q] : odoo'[o] = odoo[o]
    BY <1>8 DEF Crash
  <2> QED
    BY <1>0, <2>1, <2>2 DEF TypeOK, Frame, Forget
<1> QED
  BY <1>1, <1>2, <1>3, <1>4, <1>5, <1>6, <1>7, <1>8 DEF Step

(* A coroutine's own steps, up to its first loop. *)
LEMMA FetchKeeps ==
    ASSUME TypeOK, NEW r \in Runners, RunInv(r),
           Take(r) \/ ListPage(r) \/ FetchDetails(r) \/ Snapshot(r)
    PROVE  RunInv(r)'
<1>0. still[r] \subseteq Orders /\ Ids(fetched[r]) \subseteq Orders
  BY DEF TypeOK, Ids, Snapshots
<1>1. CASE Take(r)
  <2>1. pc'[r] = "list" /\ fetched'[r] = {} /\ current'[r] = {}
    BY <1>1 DEF TypeOK, Take, fetchVars, loopVars, RunInv, Complete, OneAtATime
  <2>2. Ids(fetched[r])' = {}
    BY <2>1 DEF Ids
  <2> QED
    BY <2>1, <2>2, <1>1 DEF Take, RunInv, Complete, OneAtATime, Fresh, Sorted, Compared
<1>2. CASE ListPage(r)
  <2>1. PICK S \in SUBSET (Orders \ Ids(fetched[r])) :
           /\ Cardinality(S) = Smaller(PageSize, Cardinality(Orders \ Ids(fetched[r])))
           /\ pc' = [pc EXCEPT ![r] = IF S = {} THEN "compare" ELSE "detail"]
    BY <1>2 DEF ListPage
  <2>2. UNCHANGED <<shopee, fetched, current, still>>
    BY <1>2 DEF ListPage, worldVars, loopVars
  <2>3. S = {} => Orders = {}
    <3> SUFFICES ASSUME S = {} PROVE Orders = {}
      OBVIOUS
    <3>1. IsFiniteSet(Orders \ Ids(fetched[r]))
      BY ReconciliationAssumption, FS_Subset
    <3>2. Cardinality(Orders \ Ids(fetched[r])) \in Nat
      BY <3>1, FS_CardinalityType
    <3>3. Cardinality(S) = 0
      BY FS_EmptySet
    <3>4. Cardinality(Orders \ Ids(fetched[r])) = 0
      BY <2>1, <3>2, <3>3, ReconciliationAssumption DEF Smaller
    <3>5. Orders \ Ids(fetched[r]) = {}
      BY <3>1, <3>4, FS_EmptySet
    <3>6. pc[r] = "list"
      BY <1>2 DEF ListPage
    <3> QED
      BY <1>0, <3>5, <3>6 DEF RunInv, Complete
  <2>4. pc'[r] \in {"compare", "detail"} /\ (pc'[r] = "compare" => still'[r] = {})
    BY <1>0, <2>1, <2>2, <2>3 DEF TypeOK
  <2>5. OneAtATime(r)' /\ Fresh(r)'
    BY <1>2, <2>2, <2>4 DEF ListPage, RunInv, OneAtATime, Fresh
  <2> QED
    BY <2>4, <2>5 DEF RunInv, Complete, Sorted, Compared
<1>3. CASE FetchDetails(r)
  <2>1. fetched'[r] = fetched[r] \union {[id |-> o, data |-> shopee[o]] : o \in page[r]}
    BY <1>3 DEF TypeOK, FetchDetails
  <2>2. Ids(fetched[r])' = Ids(fetched[r]) \union page[r]
    <3>1. \A o \in page[r] : [id |-> o, data |-> shopee[o]] \in fetched'[r]
                            /\ [id |-> o, data |-> shopee[o]].id = o
      BY <2>1
    <3>2. \A f \in fetched'[r] : f \in fetched[r] \/ f.id \in page[r]
      BY <2>1
    <3>3. fetched[r] \subseteq fetched'[r]
      BY <2>1
    <3> QED
      BY <3>1, <3>2, <3>3 DEF Ids
  <2>3. pc'[r] = IF Ids(fetched[r])' # Orders THEN "list" ELSE "snapshot"
    BY <1>3, <2>2 DEF TypeOK, FetchDetails, More
  <2>4. UNCHANGED <<shopee, current, still>>
    BY <1>3 DEF FetchDetails, worldVars, loopVars
  <2>5. Fresh(r)'
    BY <2>1, <2>4 DEF RunInv, Fresh
  <2>6. OneAtATime(r)'
    BY <1>3, <2>3, <2>4 DEF FetchDetails, RunInv, OneAtATime
  <2> QED
    BY <2>3, <2>5, <2>6 DEF RunInv, Complete, Sorted, Compared
<1>4. CASE Snapshot(r)
  <2>1. pc'[r] = "fix" /\ UNCHANGED <<shopee, row, fetched, current, still>>
    BY <1>4 DEF TypeOK, Snapshot, worldVars
  <2>2. Orders \subseteq Ids(fetched[r]) /\ current[r] = {}
    BY <1>4 DEF Snapshot, RunInv, Complete, OneAtATime
  <2>3. synced'[r] = {o \in Ids(fetched[r]) : row[o] = "success"}
    BY <1>4 DEF TypeOK, Snapshot
  <2>4. todo'[r] = {o \in Ids(fetched[r]) : row[o] # "success"}
    BY <1>4 DEF TypeOK, Snapshot
  <2>5. Sorted(r)'
    BY <1>0, <2>1, <2>2, <2>3, <2>4 DEF Sorted
  <2>6. OneAtATime(r)' /\ Fresh(r)'
    BY <2>1, <2>2 DEF RunInv, OneAtATime, Fresh
  <2> QED
    BY <2>1, <2>5, <2>6 DEF RunInv, Complete, Compared
<1> QED
  BY <1>1, <1>2, <1>3, <1>4

(* Its steps while it syncs. *)
LEMMA FixKeeps ==
    ASSUME TypeOK, NEW r \in Runners, RunInv(r),
           \/ \E f \in fetched[r] : FixNothing(r, f) \/ FixClaim(r, f)
           \/ \E o \in Orders : FixDone(r, o) \/ FixFails(r, o)
           \/ FixesDone(r)
    PROVE  RunInv(r)'
<1>1. ASSUME NEW f \in fetched[r], FixNothing(r, f) PROVE RunInv(r)'
  <2>1. pc[r] = "fix" /\ UNCHANGED <<shopee, row, pc, fetched, synced, current, fixed, still>>
    BY <1>1 DEF FixNothing, worldVars, fetchVars
  <2>2. todo'[r] = todo[r] \ {f.id} /\ review'[r] = review[r] \union {f.id}
    BY <1>1 DEF TypeOK, FixNothing
  <2>3. Sorted(r)'
    BY <2>1, <2>2 DEF RunInv, Sorted
  <2>4. Complete(r)' /\ OneAtATime(r)' /\ Fresh(r)'
    BY <2>1 DEF RunInv, Complete, OneAtATime, Fresh
  <2> QED
    BY <2>1, <2>3, <2>4 DEF RunInv, Compared
<1>2. ASSUME NEW f \in fetched[r], FixClaim(r, f) PROVE RunInv(r)'
  <2>0. f.id \in Orders /\ still[r] \subseteq Orders
    BY DEF TypeOK, Snapshots
  <2>1. pc[r] = "fix" /\ pc'[r] = "fixing" /\ UNCHANGED <<shopee, fetched, synced, review, fixed>>
    BY <1>2 DEF TypeOK, FixClaim, fetchVars, resultVars
  <2>2. todo'[r] = todo[r] \ {f.id} /\ current'[r] = {f.id} /\ still'[r] = still[r]
    BY <1>2 DEF TypeOK, FixClaim, Touch
  <2>3. \A o \in Orders \ {f.id} : row'[o] = row[o]
    BY <1>2 DEF TypeOK, FixClaim, Claim
  <2>4. current[r] = {}
    BY <2>1 DEF RunInv, OneAtATime
  <2>5. Sorted(r)'
    BY <2>0, <2>1, <2>2, <2>3, <2>4 DEF RunInv, Sorted
  <2>6. OneAtATime(r)' /\ Fresh(r)'
    BY <2>1, <2>2 DEF RunInv, OneAtATime, Fresh
  <2> QED
    BY <2>1, <2>5, <2>6 DEF RunInv, Complete, Compared
<1>3. ASSUME NEW o \in Orders, FixDone(r, o) \/ FixFails(r, o) PROVE RunInv(r)'
  <2>0. FixEnds(r, o) /\ still[r] \subseteq Orders
    BY <1>3 DEF TypeOK, FixDone, FixFails
  <2>1. /\ pc[r] = "fixing" /\ pc'[r] = "fix" /\ current[r] = {o} /\ current'[r] = {}
        /\ still'[r] = still[r]
        /\ UNCHANGED <<shopee, fetched, synced, todo>>
    BY <2>0 DEF TypeOK, FixEnds, Touch, fetchVars, RunInv, OneAtATime
  <2>2. \A p \in Orders \ {o} : row'[p] = row[p]
    BY <1>3 DEF TypeOK, FixDone, FixFails
  <2>3. /\ review[r] \subseteq review'[r] /\ fixed[r] \subseteq fixed'[r]
        /\ o \in review'[r] \/ (o \in fixed'[r] /\ row'[o] = "success")
    BY <1>3 DEF TypeOK, FixDone, FixFails
  <2>4. Sorted(r)'
    BY <2>0, <2>1, <2>2, <2>3 DEF RunInv, Sorted
  <2>5. OneAtATime(r)' /\ Fresh(r)'
    BY <2>1 DEF RunInv, OneAtATime, Fresh
  <2> QED
    BY <2>1, <2>4, <2>5 DEF RunInv, Complete, Compared
<1>4. CASE FixesDone(r)
  <2>1. /\ pc[r] = "fix" /\ todo[r] = {} /\ pc'[r] = "compare" /\ todo'[r] = synced[r]
        /\ UNCHANGED <<shopee, row, fetched, current, review, fixed, unread, drifts, still>>
    BY <1>4 DEF TypeOK, FixesDone, worldVars, fetchVars, resultVars
  <2>2. current[r] = {}
    BY <2>1 DEF RunInv, OneAtATime
  <2>3. Compared(r)'
    BY <2>1, <2>2 DEF RunInv, Sorted, Compared, Named
  <2>4. OneAtATime(r)' /\ Fresh(r)'
    BY <2>1, <2>2 DEF RunInv, OneAtATime, Fresh
  <2> QED
    BY <2>1, <2>3, <2>4 DEF RunInv, Complete, Sorted
<1> QED
  BY <1>1, <1>2, <1>3, <1>4

(* Its steps while it compares. *)
LEMMA CompareKeeps ==
    ASSUME TypeOK, NEW r \in Runners, RunInv(r),
           \/ \E f \in fetched[r] : Compare(r, f)
           \/ \E o \in Orders : CompareFails(r, o)
    PROVE  RunInv(r)'
<1>1. ASSUME NEW f \in fetched[r], Compare(r, f) PROVE RunInv(r)'
  <2>1. /\ pc[r] = "compare"
        /\ UNCHANGED <<shopee, odoo, row, pc, fetched, current, review, fixed, unread, still>>
    BY <1>1 DEF Compare, worldVars, fetchVars
  <2>2. todo'[r] = todo[r] \ {f.id}
    BY <1>1 DEF TypeOK, Compare
  <2>3. drifts'[r] = drifts[r] \union ({f.id} \X UNION {Differs(f.data, y) : y \in odoo[f.id]})
    BY <1>1 DEF TypeOK, Compare
  <2>4. Named(r) \subseteq Named(r)'
    BY <2>1, <2>3 DEF Named
  <2>5. f.id \in still[r] => f.id \in Named(r)' \/ Agrees(f.id)
    <3> SUFFICES ASSUME f.id \in still[r], ~Agrees(f.id) PROVE f.id \in Named(r)'
      OBVIOUS
    <3>1. f.data = shopee[f.id]
      BY DEF RunInv, Fresh
    <3>2. PICK y \in odoo[f.id] : Differs(f.data, y) # {}
      BY <3>1 DEF Agrees
    <3>3. PICK k \in Differs(f.data, y) : TRUE
      BY <3>2
    <3>4. <<f.id, k>> \in drifts'[r]
      BY <2>3, <3>3
    <3> QED
      BY <3>4 DEF Named
  <2>6. \A o : Agrees(o) => Agrees(o)'
    BY <2>1 DEF Agrees
  <2>7. Compared(r)'
    BY <2>1, <2>2, <2>4, <2>5, <2>6 DEF RunInv, Compared
  <2>8. Complete(r)' /\ OneAtATime(r)' /\ Fresh(r)'
    BY <2>1 DEF RunInv, Complete, OneAtATime, Fresh
  <2> QED
    BY <2>1, <2>7, <2>8 DEF RunInv, Sorted
<1>2. ASSUME NEW o \in Orders, CompareFails(r, o) PROVE RunInv(r)'
  <2>1. /\ pc[r] = "compare"
        /\ UNCHANGED <<shopee, odoo, row, pc, fetched, current, review, fixed, drifts, still>>
    BY <1>2 DEF CompareFails, worldVars, fetchVars
  <2>2. todo'[r] = todo[r] \ {o} /\ unread'[r] = unread[r] \union {o}
    BY <1>2 DEF TypeOK, CompareFails
  <2>3. \A p : (Agrees(p) => Agrees(p)') /\ (p \in Named(r) => p \in Named(r)')
    BY <2>1 DEF Agrees, Named
  <2>4. Compared(r)'
    BY <2>1, <2>2, <2>3 DEF RunInv, Compared
  <2>5. Complete(r)' /\ OneAtATime(r)' /\ Fresh(r)'
    BY <2>1 DEF RunInv, Complete, OneAtATime, Fresh
  <2> QED
    BY <2>1, <2>4, <2>5 DEF RunInv, Sorted
<1> QED
  BY <1>1, <1>2

(* Its end. *)
LEMMA EndKeeps ==
    ASSUME TypeOK, NEW r \in Runners, RunInv(r),
           Persist(r) \/ Alert(r) \/ AlertLost(r) \/ RunFails(r) \/ SoftLimit(r) \/ Crash(r)
    PROVE  RunInv(r)'
<1>1. CASE Persist(r)
  <2>1. pc[r] = "compare" /\ pc'[r] = "alert" /\ UNCHANGED <<shopee, fetched, current, still>>
    BY <1>1 DEF TypeOK, Persist, worldVars, fetchVars, loopVars
  <2> QED
    BY <2>1 DEF RunInv, Complete, OneAtATime, Fresh, Sorted, Compared
<1>2. CASE SoftLimit(r)
  <2>1. Frame(r)
    BY <1>2 DEF Frame, SoftLimit, worldVars, runVars, fetchVars, loopVars, resultVars
  <2> QED
    BY <2>1, FrameKeeps
<1>3. CASE Alert(r) \/ AlertLost(r) \/ RunFails(r) \/ Crash(r)
  <2>1. PICK S : Forget(r, S)
    BY <1>3 DEF Alert, AlertLost, RunFails, Crash
  <2>2. pc'[r] = "idle" /\ fetched'[r] = {} /\ current'[r] = {}
    BY <2>1 DEF TypeOK, Forget
  <2> QED
    BY <2>2 DEF RunInv, Complete, OneAtATime, Fresh, Sorted, Compared
<1> QED
  BY <1>1, <1>2, <1>3

LEMMA RunInit == Init => RInv
<1> SUFFICES ASSUME Init PROVE RInv
  OBVIOUS
<1>1. ASSUME NEW r \in Runners PROVE pc[r] = "idle" /\ fetched[r] = {} /\ current[r] = {}
  BY DEF Init
<1> QED
  BY <1>1, TypeInit DEF RInv, RunInv, Complete, OneAtATime, Fresh, Sorted, Compared

LEMMA RunStep == RInv /\ [Next]_vars => RInv'
<1> SUFFICES ASSUME RInv, [Next]_vars PROVE RInv'
  OBVIOUS
<1>1. TypeOK /\ TypeOK'
  BY TypeStep DEF RInv
<1>2. ASSUME NEW r \in Runners PROVE RunInv(r)'
  <2>1. RunInv(r)
    BY DEF RInv
  <2>2. CASE World
    BY <1>1, <2>1, <2>2, WorldFrames, FrameKeeps DEF World
  <2>3. CASE Trigger \/ UNCHANGED vars
    <3>1. Frame(r)
      BY <2>3 DEF Trigger, vars, Frame, worldVars, runVars, fetchVars, loopVars, resultVars
    <3> QED
      BY <2>1, <3>1, FrameKeeps
  <2>4. ASSUME NEW q \in Runners,
               \/ Take(q) \/ Step(q)
               \/ \E o \in Orders : FixFails(q, o) \/ CompareFails(q, o)
               \/ RunFails(q) \/ AlertLost(q) \/ SoftLimit(q) \/ Crash(q)
        PROVE  RunInv(r)'
    <3>1. CASE q # r
      BY <1>1, <2>1, <2>4, <3>1, OthersFrame, FrameKeeps
    <3>2. CASE q = r
      BY <1>1, <2>1, <2>4, <3>2, FetchKeeps, FixKeeps, CompareKeeps, EndKeeps DEF Step
    <3> QED
      BY <3>1, <3>2
  <2> QED
    BY <2>2, <2>3, <2>4 DEF Next
<1> QED
  BY <1>1, <1>2 DEF RInv

(* A report that is about to be saved names every order that nobody else   *)
(* has touched, unless it is synced and agrees with its sale order, was    *)
(* just created or cannot be read.                                         *)
THEOREM NothingOverlookedAlways == Spec => []NothingOverlooked
<1>1. RInv => NothingOverlooked
  <2> SUFFICES ASSUME RInv, NEW r \in Runners, pc[r] = "compare", todo[r] = {},
                      NEW o \in still[r] \ Named(r)
               PROVE  row[o] = "success" /\ (o \in fixed[r] \union unread[r] \/ Agrees(o))
    BY DEF NothingOverlooked
  <2> QED
    BY DEF RInv, RunInv, Compared
<1> QED
  BY <1>1, RunInit, RunStep, PTL DEF Spec
=============================================================================
