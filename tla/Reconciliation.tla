--------------------------- MODULE Reconciliation ---------------------------
(***************************************************************************)
(* The nightly reconciliation (services/reconciliation_service.py): it     *)
(* lists yesterday's orders on Shopee, looks up in one snapshot which are  *)
(* synced, syncs the missing ones it may, compares the others with Odoo,   *)
(* saves a report and alerts.  Order workers, Shopee and Odoo go on        *)
(* between any two of its calls.  How a sync keeps to one sale order is    *)
(* OrderSync's subject; here it claims the row, then ends.                 *)
(***************************************************************************)
EXTENDS FiniteSets, Integers

CONSTANTS Orders,          \* yesterday's orders on Shopee
          Runners,         \* coroutines of run_reconciliation at a time
          ShopeeOrders,    \* what Shopee may say of an order
          OdooOrders,      \* what Odoo may say of its sale order
          NoTracking,      \* no tracking number
          Tolerance,       \* DRIFT_TOTAL_TOLERANCE_VND
          PageSize,        \* orders in a page of get_order_list
          MaxRuns,         \* bound: runs that beat starts, and an operator by hand
          MaxEdits,        \* bound: changes on Shopee and in Odoo, rows reset
          MaxFaults        \* bound: failures and crashes

ASSUME ReconciliationAssumption ==
    /\ IsFiniteSet(Orders)
    /\ ShopeeOrders # {}
    /\ \A x \in ShopeeOrders : x.fixable \in BOOLEAN /\ x.total \in Int
    /\ \A y \in OdooOrders : y.total \in Int
    /\ Tolerance \in Nat
    /\ PageSize \in Nat \ {0}
    /\ {MaxRuns, MaxEdits, MaxFaults} \subseteq Nat

VARIABLES shopee,    \* each order on Shopee
          odoo,      \* its sale order, if there is one
          row,       \* its order_mapping row; "open": none yet, or one whose sync may start
          holder,    \* who has claimed a "syncing" row
          queue,     \* messages of the task in the broker
          pc,        \* what each coroutine does next
          page,      \* the order_sn of the page it has listed
          fetched,   \* the orders it has fetched, as they were then
          synced,    \* those whose rows said "success" in its snapshot
          todo,      \* orders its present loop has not come to
          current,   \* the order it is syncing
          review,    \* missing_details
          fixed,     \* orders counted as auto_fixed
          drifts,    \* fields that differ
          unread,    \* history: orders whose sale order it could not read
          still,     \* history: orders nobody else has touched since it began
          log,       \* orders named by the saved reports
          told,      \* what the alerts were about
          slow,      \* coroutines whose task has met its soft time limit
          excused,   \* history: a run was cut short, or an alert lost
          runs, edits, faults

worldVars  == <<shopee, odoo, row, holder>>
fetchVars  == <<page, fetched, synced>>
resultVars == <<review, fixed, drifts, unread>>
loopVars   == <<todo, current>>
runVars    == <<pc, fetchVars, loopVars, resultVars>>
reportVars == <<log, told>>
boundVars  == <<runs, edits, faults>>
vars == <<worldVars, queue, runVars, still, reportVars, slow, excused, boundVars>>

Snapshots == [id : Orders, data : ShopeeOrders]
Fields    == {"total_amount", "tracking_number"}

(* The type of every variable. *)
TypeOK ==
    /\ shopee \in [Orders -> ShopeeOrders]
    /\ odoo \in [Orders -> SUBSET OdooOrders]
    /\ row \in [Orders -> {"open", "syncing", "success"}]
    /\ holder \in [Orders -> {"nobody", "worker"} \union Runners]
    /\ queue \in Nat
    /\ pc \in [Runners -> {"idle", "list", "detail", "snapshot", "fix", "fixing",
                           "compare", "alert"}]
    /\ page \in [Runners -> SUBSET Orders]
    /\ fetched \in [Runners -> SUBSET Snapshots]
    /\ synced \in [Runners -> SUBSET Orders]
    /\ todo \in [Runners -> SUBSET Orders]
    /\ current \in [Runners -> SUBSET Orders]
    /\ review \in [Runners -> SUBSET Orders]
    /\ fixed \in [Runners -> SUBSET Orders]
    /\ drifts \in [Runners -> SUBSET (Orders \X Fields)]
    /\ unread \in [Runners -> SUBSET Orders]
    /\ still \in [Runners -> SUBSET Orders]
    /\ log \subseteq Orders
    /\ told \subseteq Orders \union {"failed"}
    /\ slow \subseteq Runners
    /\ excused \in BOOLEAN
    /\ runs \in 0 .. MaxRuns
    /\ edits \in 0 .. MaxEdits
    /\ faults \in 0 .. MaxFaults

Init ==
    /\ shopee \in [Orders -> ShopeeOrders]
    /\ odoo = [o \in Orders |-> {}]
    /\ row = [o \in Orders |-> "open"]
    /\ holder = [o \in Orders |-> "nobody"]
    /\ queue = 0
    /\ pc = [r \in Runners |-> "idle"]
    /\ page = [r \in Runners |-> {}]
    /\ fetched = [r \in Runners |-> {}]
    /\ synced = [r \in Runners |-> {}]
    /\ todo = [r \in Runners |-> {}]
    /\ current = [r \in Runners |-> {}]
    /\ review = [r \in Runners |-> {}]
    /\ fixed = [r \in Runners |-> {}]
    /\ drifts = [r \in Runners |-> {}]
    /\ unread = [r \in Runners |-> {}]
    /\ still = [r \in Runners |-> {}]
    /\ log = {}
    /\ told = {}
    /\ slow = {}
    /\ excused = FALSE
    /\ runs = 0 /\ edits = 0 /\ faults = 0

Edit  == edits < MaxEdits /\ edits' = edits + 1 /\ UNCHANGED <<runs, faults>>
Fault == faults < MaxFaults /\ faults' = faults + 1 /\ UNCHANGED <<runs, edits>>

----------------------------------------------------------------------------
(* Shopee, Odoo and the order workers *)

(* Order o changes, which the coroutines other than those in R notice. *)
Touch(o, R) ==
    still' = [r \in Runners |-> IF r \in R THEN still[r] ELSE still[r] \ {o}]

ShopeeChange(o) ==
    /\ Edit
    /\ \E x \in ShopeeOrders \ {shopee[o]} : shopee' = [shopee EXCEPT ![o] = x]
    /\ Touch(o, {})
    /\ UNCHANGED <<odoo, row, holder, queue, runVars, reportVars, slow, excused>>

(* The sale order is changed or deleted. *)
OdooChange(o) ==
    /\ odoo[o] # {}
    /\ Edit
    /\ \E Y \in ({{y} : y \in OdooOrders} \union {{}}) \ {odoo[o]} :
          odoo' = [odoo EXCEPT ![o] = Y]
    /\ Touch(o, {})
    /\ UNCHANGED <<shopee, row, holder, queue, runVars, reportVars, slow, excused>>

(* A dead-letter mark or an operator's reset is written over a success     *)
(* (OrderSync's "overlapped").                                             *)
RowReset(o) ==
    /\ row[o] = "success"
    /\ Edit
    /\ row' = [row EXCEPT ![o] = "open"]
    /\ Touch(o, {})
    /\ UNCHANGED <<shopee, odoo, holder, queue, runVars, reportVars, slow, excused>>

(* A sync may claim the row unless it is done or somebody is at it; a      *)
(* claim is stale only when its task is over.                              *)
Claimable(o) ==
    \/ row[o] = "open"
    \/ row[o] = "syncing" /\ holder[o] \in {"nobody"} \union slow

Claim(o, who) ==
    /\ row' = [row EXCEPT ![o] = "syncing"]
    /\ holder' = [holder EXCEPT ![o] = who]

(* The sale order there is, or the one that a sync creates. *)
InOdoo(o) == IF odoo[o] = {} THEN {{y} : y \in OdooOrders} ELSE {odoo[o]}

(* Who gives up a claim does not take it from another. *)
Release(o, who) == holder' = [holder EXCEPT ![o] = IF @ = who THEN "nobody" ELSE @]

WorkerClaims(o) ==
    /\ Claimable(o)
    /\ Claim(o, "worker")
    /\ Touch(o, {})
    /\ UNCHANGED <<shopee, odoo, queue, runVars, reportVars, slow, excused, boundVars>>

WorkerSyncs(o) ==
    /\ holder[o] = "worker"
    /\ \E Y \in InOdoo(o) : odoo' = [odoo EXCEPT ![o] = Y]
    /\ row' = [row EXCEPT ![o] = "success"]
    /\ Release(o, "worker")
    /\ Touch(o, {})
    /\ UNCHANGED <<shopee, queue, runVars, reportVars, slow, excused, boundVars>>

(* The sync fails, maybe with its sale order created, or its worker dies.  *)
WorkerFails(o) ==
    /\ holder[o] = "worker"
    /\ \E Y \in InOdoo(o) \union {odoo[o]} : odoo' = [odoo EXCEPT ![o] = Y]
    /\ \E s \in {"open", row[o]} : row' = [row EXCEPT ![o] = s]
    /\ Release(o, "worker")
    /\ Touch(o, {})
    /\ UNCHANGED <<shopee, queue, runVars, reportVars, slow, excused, boundVars>>

----------------------------------------------------------------------------
(* A run *)

(* Beat at 2:07, or an operator (docs/14_RUNBOOK.md). *)
Trigger ==
    /\ runs < MaxRuns
    /\ runs' = runs + 1
    /\ queue' = queue + 1
    /\ UNCHANGED <<worldVars, runVars, still, reportVars, slow, excused, edits, faults>>

Take(r) ==
    /\ pc[r] = "idle"
    /\ queue > 0
    /\ queue' = queue - 1
    /\ pc' = [pc EXCEPT ![r] = "list"]
    /\ still' = [still EXCEPT ![r] = Orders]
    /\ UNCHANGED <<worldVars, fetchVars, loopVars, resultVars, reportVars, slow, excused, boundVars>>

Ids(F) == {f.id : f \in F}

Smaller(m, n) == IF m < n THEN m ELSE n

(* get_order_list: the page after those that were fetched. *)
ListPage(r) ==
    LET unseen == Orders \ Ids(fetched[r]) IN
    /\ pc[r] = "list"
    /\ \E S \in SUBSET unseen :
          /\ Cardinality(S) = Smaller(PageSize, Cardinality(unseen))
          /\ page' = [page EXCEPT ![r] = S]
          /\ pc' = [pc EXCEPT ![r] = IF S = {} THEN "compare" ELSE "detail"]
    /\ UNCHANGED <<worldVars, queue, fetched, synced, loopVars, resultVars, still, reportVars,
                   slow, excused, boundVars>>

(* A bug: the first page is taken for the whole day. *)
MoreNever(r) == FALSE

(* response["more"] *)
More(r) == Orders # Ids(fetched[r]) \union page[r]

(* get_order_detail of the whole page in one request. *)
FetchDetails(r) ==
    /\ pc[r] = "detail"
    /\ fetched' = [fetched EXCEPT ![r] = @ \union {[id |-> o, data |-> shopee[o]] : o \in page[r]}]
    /\ page' = [page EXCEPT ![r] = {}]
    /\ pc' = [pc EXCEPT ![r] = IF More(r) THEN "list" ELSE "snapshot"]
    /\ UNCHANGED <<worldVars, queue, synced, loopVars, resultVars, still, reportVars,
                   slow, excused, boundVars>>

(* The lookups of the synced orders and of their mappings, in one          *)
(* REPEATABLE READ transaction.                                            *)
Snapshot(r) ==
    /\ pc[r] = "snapshot"
    /\ synced' = [synced EXCEPT ![r] = {o \in Ids(fetched[r]) : row[o] = "success"}]
    /\ todo' = [todo EXCEPT ![r] = {o \in Ids(fetched[r]) : row[o] # "success"}]
    /\ pc' = [pc EXCEPT ![r] = "fix"]
    /\ UNCHANGED <<worldVars, queue, page, fetched, current, resultVars, still, reportVars,
                   slow, excused, boundVars>>

(* _try_auto_fix returns False without a claim: the status is not a safe   *)
(* one, or the sync is skipped because the order is synced or in flight by *)
(* now.                                                                    *)
FixNothing(r, f) ==
    /\ pc[r] = "fix" /\ f \in fetched[r] /\ f.id \in todo[r]
    /\ f.data.fixable => ~Claimable(f.id)
    /\ review' = [review EXCEPT ![r] = @ \union {f.id}]
    /\ todo' = [todo EXCEPT ![r] = @ \ {f.id}]
    /\ UNCHANGED <<worldVars, queue, pc, fetchVars, current, fixed, drifts, unread, still,
                   reportVars, slow, excused, boundVars>>

FixClaim(r, f) ==
    /\ pc[r] = "fix" /\ f \in fetched[r] /\ f.id \in todo[r]
    /\ f.data.fixable
    /\ Claimable(f.id)
    /\ Claim(f.id, r)
    /\ current' = [current EXCEPT ![r] = {f.id}]
    /\ todo' = [todo EXCEPT ![r] = @ \ {f.id}]
    /\ pc' = [pc EXCEPT ![r] = "fixing"]
    /\ Touch(f.id, {r})
    /\ UNCHANGED <<shopee, odoo, queue, fetchVars, resultVars, reportVars, slow, excused, boundVars>>

FixEnds(r, o) ==
    /\ pc[r] = "fixing" /\ o \in current[r]
    /\ current' = [current EXCEPT ![r] = {}]
    /\ pc' = [pc EXCEPT ![r] = "fix"]
    /\ Release(o, r)
    /\ Touch(o, {r})
    /\ UNCHANGED <<shopee, queue, fetchVars, todo, drifts, unread, reportVars, slow, excused>>

(* Only a sale order that the sync created counts as a fix; one it finds   *)
(* in Odoo makes the row a success, too, but the order is to be reviewed.  *)
FixDone(r, o) ==
    /\ FixEnds(r, o)
    /\ row' = [row EXCEPT ![o] = "success"]
    /\ \E Y \in InOdoo(o) : odoo' = [odoo EXCEPT ![o] = Y]
    /\ IF odoo[o] = {}
       THEN fixed' = [fixed EXCEPT ![r] = @ \union {o}] /\ UNCHANGED review
       ELSE review' = [review EXCEPT ![r] = @ \union {o}] /\ UNCHANGED fixed
    /\ UNCHANGED boundVars

(* The sync raises, maybe with its sale order created and its row as it is. *)
FixFails(r, o) ==
    /\ FixEnds(r, o)
    /\ \E s \in {"open", row[o]} : row' = [row EXCEPT ![o] = s]
    /\ \E Y \in InOdoo(o) \union {odoo[o]} : odoo' = [odoo EXCEPT ![o] = Y]
    /\ review' = [review EXCEPT ![r] = @ \union {o}]
    /\ Fault
    /\ UNCHANGED fixed

FixesDone(r) ==
    /\ pc[r] = "fix" /\ todo[r] = {}
    /\ todo' = [todo EXCEPT ![r] = synced[r]]
    /\ pc' = [pc EXCEPT ![r] = "compare"]
    /\ UNCHANGED <<worldVars, queue, fetchVars, current, resultVars, still, reportVars,
                   slow, excused, boundVars>>

Distance(m, n) == IF m < n THEN n - m ELSE m - n

(* A bug: a drift carries Odoo's name of the field. *)
DiffersOdooNames(x, y) ==
    {k \in {"amount_total", "x_tracking_number"} :
       /\ k = "amount_total" => Distance(x.total, y.total) > Tolerance
       /\ k = "x_tracking_number" => x.tracking # NoTracking /\ x.tracking # y.tracking}

(* The fields of a sale order y that differ from Shopee's x. *)
Differs(x, y) ==
    {k \in Fields :
       /\ k = "total_amount" => Distance(x.total, y.total) > Tolerance
       /\ k = "tracking_number" => x.tracking # NoTracking /\ x.tracking # y.tracking}

(* One order of _check_field_drift.  A sale order that is gone, like one   *)
(* that cannot be read, is passed over.                                    *)
Compare(r, f) ==
    /\ pc[r] = "compare" /\ f \in fetched[r] /\ f.id \in todo[r]
    /\ drifts' = [drifts EXCEPT ![r] =
                    @ \union ({f.id} \X UNION {Differs(f.data, y) : y \in odoo[f.id]})]
    /\ todo' = [todo EXCEPT ![r] = @ \ {f.id}]
    /\ UNCHANGED <<worldVars, queue, pc, fetchVars, current, review, fixed, unread, still,
                   reportVars, slow, excused, boundVars>>

CompareFails(r, o) ==
    /\ pc[r] = "compare" /\ o \in todo[r]
    /\ Fault
    /\ todo' = [todo EXCEPT ![r] = @ \ {o}]
    /\ unread' = [unread EXCEPT ![r] = @ \union {o}]
    /\ UNCHANGED <<worldVars, queue, pc, fetchVars, current, review, fixed, drifts, still,
                   reportVars, slow, excused>>

(* The orders that the result names. *)
Named(r) == review[r] \union {d[1] : d \in drifts[r]}

Persist(r) ==
    /\ pc[r] = "compare" /\ todo[r] = {}
    /\ log' = log \union Named(r)
    /\ pc' = [pc EXCEPT ![r] = "alert"]
    /\ UNCHANGED <<worldVars, queue, fetchVars, loopVars, resultVars, still, told, slow, excused,
                   boundVars>>

(* The coroutine ends, with the orders in S changed by it. *)
Forget(r, S) ==
    /\ pc' = [pc EXCEPT ![r] = "idle"]
    /\ page' = [page EXCEPT ![r] = {}]
    /\ fetched' = [fetched EXCEPT ![r] = {}]
    /\ synced' = [synced EXCEPT ![r] = {}]
    /\ todo' = [todo EXCEPT ![r] = {}]
    /\ current' = [current EXCEPT ![r] = {}]
    /\ review' = [review EXCEPT ![r] = {}]
    /\ fixed' = [fixed EXCEPT ![r] = {}]
    /\ drifts' = [drifts EXCEPT ![r] = {}]
    /\ unread' = [unread EXCEPT ![r] = {}]
    /\ still' = [q \in Runners |-> IF q = r THEN {} ELSE still[q] \ S]
    /\ slow' = slow \ {r}

(* Slack takes the alert. *)
Alert(r) ==
    /\ pc[r] = "alert"
    /\ told' = told \union Named(r)
    /\ Forget(r, {})
    /\ UNCHANGED <<worldVars, queue, log, excused, boundVars>>

(* Slack does not; the error is swallowed. *)
AlertLost(r) ==
    /\ pc[r] = "alert"
    /\ Fault
    /\ excused' = TRUE
    /\ Forget(r, {})
    /\ UNCHANGED <<worldVars, queue, reportVars>>

(* A bug: an error ends the run without an alert. *)
RunFailsSilently(r) ==
    /\ pc[r] \in {"list", "detail", "snapshot"} \/ (pc[r] = "compare" /\ todo[r] = {})
    /\ Fault
    /\ Forget(r, {})
    /\ UNCHANGED <<worldVars, queue, reportVars, excused>>

(* A call to Shopee or to the database raises outside of the two loops, or *)
(* Shopee refuses a page of details: run_all_platforms alerts, and the     *)
(* task is done.                                                           *)
RunFails(r) ==
    /\ pc[r] \in {"list", "detail", "snapshot"} \/ (pc[r] = "compare" /\ todo[r] = {})
    /\ Fault
    /\ told' = told \union {"failed"}
    /\ Forget(r, {})
    /\ UNCHANGED <<worldVars, queue, log, excused>>

(* The soft time limit ends the task while its coroutine waits, which goes *)
(* on when its process has another task to run.                            *)
SoftLimit(r) ==
    /\ pc[r] # "idle" /\ r \notin slow
    /\ Fault
    /\ slow' = slow \union {r}
    /\ excused' = TRUE
    /\ UNCHANGED <<worldVars, queue, runVars, still, reportVars>>

(* The process is lost.  The message is delivered again, unless the task   *)
(* was over.  What the coroutine had claimed stays claimed until it is     *)
(* stale, and its call to Odoo may have created the sale order.            *)
Crash(r) ==
    /\ pc[r] # "idle"
    /\ Fault
    /\ queue' = IF r \in slow THEN queue ELSE queue + 1
    /\ holder' = [o \in Orders |-> IF holder[o] = r THEN "nobody" ELSE holder[o]]
    /\ \E Y \in [Orders -> SUBSET OdooOrders] :
          /\ \A o \in current[r] : Y[o] \in InOdoo(o) \union {odoo[o]}
          /\ odoo' = [o \in Orders |-> IF o \in current[r] THEN Y[o] ELSE odoo[o]]
    /\ Forget(r, current[r])
    /\ UNCHANGED <<shopee, row, reportVars, excused>>

----------------------------------------------------------------------------
Step(r) ==
    \/ ListPage(r) \/ FetchDetails(r) \/ Snapshot(r)
    \/ \E f \in fetched[r] : FixNothing(r, f) \/ FixClaim(r, f) \/ Compare(r, f)
    \/ \E o \in Orders : FixDone(r, o)
    \/ FixesDone(r) \/ Persist(r) \/ Alert(r)

World ==
    \E o \in Orders :
        \/ ShopeeChange(o) \/ OdooChange(o) \/ RowReset(o)
        \/ WorkerClaims(o) \/ WorkerSyncs(o) \/ WorkerFails(o)

Next ==
    \/ World \/ Trigger
    \/ \E r \in Runners :
        \/ Take(r) \/ Step(r)
        \/ \E o \in Orders : FixFails(r, o) \/ CompareFails(r, o)
        \/ RunFails(r) \/ AlertLost(r) \/ SoftLimit(r) \/ Crash(r)

Spec == Init /\ [][Next]_vars

(* Beat starts the run, a worker takes it, and a coroutine goes on as long *)
(* as its task does.                                                       *)
Fairness ==
    /\ WF_vars(Trigger)
    /\ WF_vars(\E r \in Runners : Take(r))
    /\ \A r \in Runners : WF_vars(r \notin slow /\ Step(r))

FairSpec == Spec /\ Fairness

----------------------------------------------------------------------------
(* Properties *)

(* The sale order differs in nothing that is compared. *)
Agrees(o) == \A y \in odoo[o] : Differs(shopee[o], y) = {}

(* A report that is about to be saved names every order of the day that    *)
(* nobody else has touched since the run began, unless it is synced and    *)
(* Odoo agrees with Shopee within the tolerance.  Not compared are orders  *)
(* the run has just created and those that Odoo could not show.            *)
NothingOverlooked ==
    \A r \in Runners : pc[r] = "compare" /\ todo[r] = {} =>
        \A o \in still[r] \ Named(r) :
            row[o] = "success" /\ (o \in fixed[r] \union unread[r] \/ Agrees(o))

(* An order that no sync ever gets done is in a saved report and in an     *)
(* alert in the end, or an alert says that the run has failed: crashes     *)
(* start the run again and errors do not keep it quiet.  Only the soft     *)
(* time limit and a lost alert do.                                         *)
MissedIsTold ==
    \A o \in Orders :
        [](row[o] # "success") => <>(excused \/ "failed" \in told \/ o \in told \intersect log)
=============================================================================
