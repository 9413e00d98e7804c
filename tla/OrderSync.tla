------------------------------ MODULE OrderSync ------------------------------
(***************************************************************************)
(* The idempotent order sync (src/services/order_service.py) as the Celery *)
(* tasks of src/workers/order_worker.py, the admin retry and the nightly   *)
(* reconciliation run it, for one platform order: its order_mapping row,   *)
(* its advisory lock, its messages, and its sale orders in Odoo.           *)
(*                                                                         *)
(* A worker process runs one task at a time, as a coroutine on an event    *)
(* loop it keeps for its lifetime (_async_helper.py).  When the soft time  *)
(* limit fires while the loop waits, which is where a sync spends its      *)
(* time, the exception leaves run_until_complete and the task ends, but    *)
(* the coroutine stays on the loop and goes on when the process runs its   *)
(* next task.  A process therefore has two slots for coroutines.           *)
(***************************************************************************)
EXTENDS Naturals, FiniteSets

CONSTANTS Workers,       \* Celery worker processes
          SoftLimit,     \* task_soft_time_limit, in ticks
          HardLimit,     \* task_time_limit
          StaleAfter,    \* _SYNCING_STALE_AFTER
          MaxTries,      \* MAX_RETRIES of a task
          OdooUnique,    \* whether Odoo refuses a second order with the same platform id
          MaxWebhooks,   \* bound: messages the outbox sends for the order
          MaxAdmin,      \* bound: retries an operator asks for
          MaxNights,     \* bound: reconciliations whose day has the order
          MaxFaults,     \* bound: lost workers and refused sends
          MaxRollbacks   \* bound: failed transactions

ASSUME OrderSyncAssumption ==
    /\ {SoftLimit, HardLimit, StaleAfter, MaxTries} \subseteq Nat
    /\ 0 < SoftLimit /\ SoftLimit < HardLimit /\ HardLimit <= StaleAfter
    /\ OdooUnique \in BOOLEAN
    /\ {MaxWebhooks, MaxAdmin, MaxNights, MaxFaults, MaxRollbacks} \subseteq Nat

VARIABLES status,      \* order_mapping.status ("none": no row yet)
          age,         \* ticks since updated_at, followed while the row is "syncing"
          lock,        \* the coroutine that holds the advisory lock (none, or one)
          pc,          \* what each coroutine does next
          goal,        \* the outcome it is about to record
          snap,        \* order_mapping.status as its open transaction read it
          error,       \* how its sync failed, if it did
          task,        \* the message each worker works on
          main,        \* the slot of that task's coroutine
          run,         \* ticks since that task started
          waiting,     \* messages in the broker
          admin,       \* the retry request of the admin UI
          adminSnap,   \* order_mapping.status as it read it
          odooOrders,  \* sale orders of the platform order in Odoo
          late,        \* creates Odoo has yet to carry out for a caller that gave up
          used,        \* how much of each bound is used up
          overlapped,  \* history: a coroutine outlived its task, or a dead-letter mark or
                       \* an operator's reset was written over somebody else's sync
          unsure       \* history: a create outlived its caller

rowVars     == <<status, age>>
coVars      == <<pc, goal, snap, error>>
taskVars    == <<task, main, run>>
adminVars   == <<admin, adminSnap>>
odooVars    == <<odooOrders, late>>
historyVars == <<overlapped, unsure>>
vars == <<rowVars, lock, coVars, taskVars, waiting, adminVars, odooVars, used, historyVars>>

Coros    == Workers \X {1, 2}
Statuses == {"none", "pending", "syncing", "success", "failed", "dead_letter"}
Places   == {"idle", "fetch", "claim", "check", "create", "confirm", "load", "store"}
Goals    == {"none", "exists", "created", "failed", "dead_letter"}
Errors   == {"none", "again", "missing", "fatal"}
Kinds    == {"webhook", "admin", "nightly"}
Messages == [kind : Kinds, tries : 0 .. MaxTries]
NoTask   == [kind |-> "none", tries |-> 0]
Bounds   == Kinds \union {"fault", "rollback"}
First(k) == [kind |-> k, tries |-> 0]

TypeOK ==
    /\ status \in Statuses
    /\ age \in 0 .. StaleAfter
    /\ lock \in SUBSET Coros
    /\ pc \in [Coros -> Places]
    /\ goal \in [Coros -> Goals]
    /\ snap \in [Coros -> Statuses]
    /\ error \in [Coros -> Errors]
    /\ task \in [Workers -> Messages \union {NoTask}]
    /\ main \in [Workers -> {1, 2}]
    /\ run \in [Workers -> 0 .. HardLimit]
    /\ waiting \in [Messages -> Nat]
    /\ admin \in {"idle", "store", "send"}
    /\ adminSnap \in Statuses
    /\ odooOrders \in Nat
    /\ late \in Nat
    /\ used \in [Bounds -> Nat]
    /\ {overlapped, unsure} \subseteq BOOLEAN

Init ==
    /\ status = "none" /\ age = 0 /\ lock = {}
    /\ pc = [c \in Coros |-> "idle"]
    /\ goal = [c \in Coros |-> "none"]
    /\ snap = [c \in Coros |-> "none"]
    /\ error = [c \in Coros |-> "none"]
    /\ task = [w \in Workers |-> NoTask]
    /\ main = [w \in Workers |-> 1]
    /\ run = [w \in Workers |-> 0]
    /\ waiting = [m \in Messages |-> 0]
    /\ admin = "idle" /\ adminSnap = "none"
    /\ odooOrders = 0 /\ late = 0
    /\ used = [k \in Bounds |-> 0]
    /\ overlapped = FALSE /\ unsure = FALSE

----------------------------------------------------------------------------
(* Messages and tasks *)

Spend(k, n) == used[k] < n /\ used' = [used EXCEPT ![k] = @ + 1]

(* The outbox sends the order's message, again for every event of the      *)
(* order, for a duplicate and for a polled order; beat starts the          *)
(* reconciliation whose day has the order.                                 *)
Arrive(k) ==
    /\ \/ k = "webhook" /\ Spend(k, MaxWebhooks)
       \/ k = "nightly" /\ Spend(k, MaxNights)
    /\ waiting' = [waiting EXCEPT ![First(k)] = @ + 1]
    /\ UNCHANGED <<rowVars, lock, coVars, taskVars, adminVars, odooVars, historyVars>>

(* A worker takes a message.  A reconciliation may have spent any time on  *)
(* other orders before it comes to this one.                               *)
Take(w, m) ==
    /\ task[w] = NoTask
    /\ waiting[m] > 0
    /\ \E i \in {1, 2} :
        /\ pc[<<w, i>>] = "idle"
        /\ \A j \in {1, 2} : j < i => pc[<<w, j>>] # "idle"
        /\ main' = [main EXCEPT ![w] = i]
        /\ pc' = [pc EXCEPT ![<<w, i>>] = "fetch"]
    /\ \E spent \in 0 .. HardLimit - 1 :
        /\ m.kind # "nightly" => spent = 0
        /\ run' = [run EXCEPT ![w] = spent]
    /\ waiting' = [waiting EXCEPT ![m] = @ - 1]
    /\ task' = [task EXCEPT ![w] = m]
    /\ UNCHANGED <<rowVars, lock, goal, snap, error, adminVars, odooVars, used, historyVars>>

IsMain(c) == task[c[1]] # NoTask /\ main[c[1]] = c[2]

(* A bug: a retry does not count. *)
RequeueForever(m, e) ==
    waiting' = IF e = "again" /\ m.kind # "nightly"
               THEN [waiting EXCEPT ![m] = @ + 1]
               ELSE waiting

(* self.retry: the connection errors of Odoo, open circuits and rate       *)
(* limits send the message again until max_retries; the reconciliation     *)
(* swallows every error.                                                   *)
Requeue(m, e) ==
    waiting' = IF e = "again" /\ m.kind # "nightly" /\ m.tries < MaxTries
               THEN [waiting EXCEPT ![[m EXCEPT !.tries = @ + 1]] = @ + 1]
               ELSE waiting

Free(w) ==
    /\ task' = [task EXCEPT ![w] = NoTask]
    /\ main' = [main EXCEPT ![w] = 1]
    /\ run' = [run EXCEPT ![w] = 0]

(* Coroutine c ends with error e (or none), and its task with it if it is  *)
(* not a left-over of an earlier one.                                      *)
End(c, e) ==
    /\ pc' = [pc EXCEPT ![c] = "idle"]
    /\ goal' = [goal EXCEPT ![c] = "none"]
    /\ snap' = [snap EXCEPT ![c] = "none"]
    /\ error' = [error EXCEPT ![c] = "none"]
    /\ IF IsMain(c) THEN Free(c[1]) /\ Requeue(task[c[1]], e)
                    ELSE UNCHANGED <<taskVars, waiting>>

(* A process takes no step at its hard limit: it is killed. *)
Runs(c) == run[c[1]] < HardLimit

----------------------------------------------------------------------------
(* OrderService.sync, Phase A: claim or skip, under the advisory lock *)

(* Shopee does not deliver the order, or the transaction of Phase A fails. *)
FetchFails(c, e) ==
    /\ pc[c] = "fetch" /\ Runs(c)
    /\ e \in {"again", "fatal"}
    /\ End(c, e)
    /\ UNCHANGED <<rowVars, lock, adminVars, odooVars, used, historyVars>>

(* A bug: the age of a "syncing" row is not looked at. *)
ClaimedIgnoringAge == status = "success"

(* The row needs no sync, or another worker is taken to be at it. *)
Claimed == status = "success" \/ (status = "syncing" /\ age < StaleAfter)

Skip(c) ==
    /\ pc[c] = "fetch" /\ Runs(c)
    /\ lock = {}
    /\ Claimed
    /\ End(c, "none")
    /\ UNCHANGED <<rowVars, lock, adminVars, odooVars, used, historyVars>>

Look(c) ==
    /\ pc[c] = "fetch" /\ Runs(c)
    /\ lock = {}
    /\ ~Claimed
    /\ lock' = {c}
    /\ snap' = [snap EXCEPT ![c] = status]
    /\ pc' = [pc EXCEPT ![c] = "claim"]
    /\ UNCHANGED <<rowVars, goal, error, taskVars, waiting, adminVars, odooVars, used, historyVars>>

(* A column after a flush that assigned it new: an assignment that leaves  *)
(* the loaded value as it was is not part of the UPDATE.                   *)
Written(was, new, current) == IF new = was THEN current ELSE new

(* A bug: updated_at is left to onupdate, which a reclaim does not trigger. *)
ClaimUntouched(c) ==
    /\ pc[c] = "claim" /\ Runs(c)
    /\ status' = Written(snap[c], "syncing", status)
    /\ age' = IF snap[c] = "syncing" THEN age ELSE 0
    /\ lock' = {}
    /\ snap' = [snap EXCEPT ![c] = "none"]
    /\ pc' = [pc EXCEPT ![c] = "check"]
    /\ UNCHANGED <<goal, error, taskVars, waiting, adminVars, odooVars, used, historyVars>>

(* The INSERT or the UPDATE, which touches updated_at, and its commit. *)
Claim(c) ==
    /\ pc[c] = "claim" /\ Runs(c)
    /\ status' = Written(snap[c], "syncing", status)
    /\ age' = 0
    /\ lock' = {}
    /\ snap' = [snap EXCEPT ![c] = "none"]
    /\ pc' = [pc EXCEPT ![c] = "check"]
    /\ UNCHANGED <<goal, error, taskVars, waiting, adminVars, odooVars, used, historyVars>>

----------------------------------------------------------------------------
(* Phase B: Odoo, outside any transaction *)

(* The sync turns to recording outcome g, with error e. *)
TurnTo(c, g, e) ==
    /\ pc' = [pc EXCEPT ![c] = "load"]
    /\ goal' = [goal EXCEPT ![c] = g]
    /\ error' = [error EXCEPT ![c] = e]
    /\ UNCHANGED <<snap, lock, rowVars, taskVars, waiting, adminVars>>

(* A bug: Odoo is not asked before the order is created. *)
CheckSkipped(c) ==
    /\ pc[c] = "check" /\ Runs(c)
    /\ pc' = [pc EXCEPT ![c] = "create"]
    /\ UNCHANGED <<goal, snap, error, lock, rowVars, taskVars, waiting, adminVars>>
    /\ UNCHANGED <<odooVars, used, historyVars>>

(* A bug: an order that is found in Odoo needs no more attention. *)
CheckSilent(c) ==
    /\ pc[c] = "check" /\ Runs(c)
    /\ \/ odooOrders > 0 /\ End(c, "none") /\ UNCHANGED <<lock, rowVars, adminVars>>
       \/ /\ odooOrders = 0
          /\ pc' = [pc EXCEPT ![c] = "create"]
          /\ UNCHANGED <<goal, snap, error, lock, rowVars, taskVars, waiting, adminVars>>
    /\ UNCHANGED <<odooVars, used, historyVars>>

(* check_order_exists *)
Check(c) ==
    /\ pc[c] = "check" /\ Runs(c)
    /\ \/ odooOrders > 0 /\ TurnTo(c, "exists", "none")
       \/ /\ odooOrders = 0
          /\ pc' = [pc EXCEPT ![c] = "create"]
          /\ UNCHANGED <<goal, snap, error, lock, rowVars, taskVars, waiting, adminVars>>
    /\ UNCHANGED <<odooVars, used, historyVars>>

Refuses == OdooUnique /\ odooOrders > 0

(* create_sale_order up to the answer to its create *)
Create(c) ==
    /\ pc[c] = "create" /\ Runs(c)
    /\ ~Refuses
    /\ odooOrders' = odooOrders + 1
    /\ pc' = [pc EXCEPT ![c] = "confirm"]
    /\ UNCHANGED <<goal, snap, error, lock, rowVars, taskVars, waiting, adminVars,
                   late, used, historyVars>>

(* The caller gives up (ODOO_TIMEOUT) on a create that Odoo still runs. *)
CreateOutlives(c) ==
    /\ pc[c] = "create" /\ Runs(c)
    /\ late' = late + 1
    /\ unsure' = TRUE
    /\ \E e \in {"again", "fatal"} : TurnTo(c, "failed", e)
    /\ UNCHANGED <<odooOrders, used, overlapped>>

(* The order's name is read and the order confirmed. *)
Confirm(c) ==
    /\ pc[c] = "confirm" /\ Runs(c)
    /\ TurnTo(c, "created", "none")
    /\ UNCHANGED <<odooVars, used, historyVars>>

(* A bug: the error of a confirmation is taken for one of the create. *)
OdooFailsAsCreated(c, e) ==
    /\ pc[c] \in {"check", "create", "confirm"} /\ Runs(c)
    /\ \/ e \in {"again", "fatal"}
       \/ e = "missing" /\ pc[c] = "create"
    /\ TurnTo(c, "created", e)
    /\ UNCHANGED <<odooVars, used, historyVars>>

(* Any call of Phase B raises, with nothing done in Odoo; only the order   *)
(* lines of create_sale_order can miss a product.                          *)
OdooFails(c, e) ==
    /\ pc[c] \in {"check", "create", "confirm"} /\ Runs(c)
    /\ \/ e \in {"again", "fatal"}
       \/ e = "missing" /\ pc[c] = "create"
    /\ TurnTo(c, "failed", e)
    /\ UNCHANGED <<odooVars, used, historyVars>>

(* Odoo carries out a create whose caller has given up. *)
LateCreate ==
    /\ late > 0
    /\ late' = late - 1
    /\ odooOrders' = IF Refuses THEN odooOrders ELSE odooOrders + 1
    /\ UNCHANGED <<rowVars, lock, coVars, taskVars, waiting, adminVars, used, historyVars>>

----------------------------------------------------------------------------
(* Recording the outcome: db.get, then assignments and a commit, no lock *)

Load(c) ==
    /\ pc[c] = "load" /\ Runs(c)
    /\ snap' = [snap EXCEPT ![c] = status]
    /\ pc' = [pc EXCEPT ![c] = "store"]
    /\ UNCHANGED <<rowVars, lock, goal, error, taskVars, waiting, adminVars, odooVars,
                   used, historyVars>>

(* A bug: a failed sync is left for the next attempt. *)
OutcomePending(g) ==
    IF g \in {"exists", "created"} THEN "success" ELSE IF g = "failed" THEN "pending" ELSE g

Outcome(g) == IF g \in {"exists", "created"} THEN "success" ELSE g

(* _mark_dead_letter follows a failed sync whose task meets               *)
(* ProductNotFoundError; only process_webhook_event has it.                *)
Marks(c) == goal[c] = "failed" /\ error[c] = "missing" /\ IsMain(c) /\ task[c[1]].kind = "webhook"

(* Only an UPDATE of other columns leaves the row "syncing"; that of a     *)
(* failure always has one, its retry_count.                                *)
Store(c) ==
    /\ pc[c] = "store" /\ Runs(c)
    /\ status' = Written(snap[c], Outcome(goal[c]), status)
    /\ age' \in IF status' = "syncing" /\ goal[c] # "failed" THEN {0, age} ELSE {0}
    /\ overlapped' = (overlapped \/ /\ goal[c] = "dead_letter" /\ status' # status
                                    /\ status \in {"syncing", "success"})
    /\ IF Marks(c)
       THEN /\ pc' = [pc EXCEPT ![c] = "load"]
            /\ goal' = [goal EXCEPT ![c] = "dead_letter"]
            /\ snap' = [snap EXCEPT ![c] = "none"]
            /\ UNCHANGED <<error, taskVars, waiting>>
       ELSE End(c, error[c])
    /\ UNCHANGED <<lock, adminVars, odooVars, used, unsure>>

(* A transaction fails and is rolled back.  That of an order found in Odoo *)
(* is inside Phase B's try, so the sync turns to recording a failure.      *)
DatabaseFails(c) ==
    /\ pc[c] \in {"claim", "load", "store"} /\ Runs(c)
    /\ Spend("rollback", MaxRollbacks)
    /\ IF goal[c] = "exists"
       THEN /\ pc' = [pc EXCEPT ![c] = "load"]
            /\ goal' = [goal EXCEPT ![c] = "failed"]
            /\ snap' = [snap EXCEPT ![c] = "none"]
            /\ error' = [error EXCEPT ![c] = "fatal"]
            /\ UNCHANGED <<taskVars, waiting>>
       ELSE End(c, "fatal")
    /\ lock' = lock \ {c}
    /\ UNCHANGED <<rowVars, adminVars, odooVars, historyVars>>

----------------------------------------------------------------------------
(* Time, limits and lost processes *)

Busy(w) == task[w] # NoTask

(* The clock moves unless a process is due to be killed. *)
Tick ==
    /\ \A w \in Workers : run[w] < HardLimit
    /\ \/ \E w \in Workers : Busy(w)
       \/ status = "syncing" /\ age < StaleAfter
    /\ run' = [w \in Workers |-> IF Busy(w) THEN run[w] + 1 ELSE run[w]]
    /\ age' = IF status = "syncing" /\ age < StaleAfter THEN age + 1 ELSE age
    /\ UNCHANGED <<status, lock, coVars, task, main, waiting, adminVars, odooVars, used,
                   historyVars>>

(* The soft time limit fires in the loop: the task ends and its message is *)
(* acknowledged; its coroutine is left on the loop.  (Raised inside the    *)
(* coroutine it is a fatal error of FetchFails, OdooFails, CreateOutlives  *)
(* or DatabaseFails.)                                                      *)
SoftLimitFires(w) ==
    /\ Busy(w)
    /\ SoftLimit <= run[w] /\ run[w] < HardLimit
    /\ Free(w)
    /\ overlapped' = TRUE
    /\ UNCHANGED <<rowVars, lock, coVars, waiting, adminVars, odooVars, used, unsure>>

(* The process dies and everything on its loop with it; Odoo may carry out *)
(* the creates it was waiting for.                                         *)
Die(w) ==
    LET creating == {c \in Coros : c[1] = w /\ pc[c] = "create"} IN
    /\ pc' = [c \in Coros |-> IF c[1] = w THEN "idle" ELSE pc[c]]
    /\ goal' = [c \in Coros |-> IF c[1] = w THEN "none" ELSE goal[c]]
    /\ snap' = [c \in Coros |-> IF c[1] = w THEN "none" ELSE snap[c]]
    /\ error' = [c \in Coros |-> IF c[1] = w THEN "none" ELSE error[c]]
    /\ lock' = {c \in lock : c[1] # w}
    /\ Free(w)
    /\ \E n \in 0 .. Cardinality(creating) :
        /\ late' = late + n
        /\ unsure' = (unsure \/ n > 0)
    /\ UNCHANGED <<rowVars, odooOrders, adminVars, overlapped>>

(* The message of a task that exceeds the hard limit is acknowledged. *)
HardLimitKills(w) ==
    /\ run[w] = HardLimit
    /\ Die(w)
    /\ UNCHANGED <<waiting, used>>

(* The message of a lost worker is delivered again. *)
Crash(w) ==
    /\ run[w] < HardLimit
    /\ \E i \in {1, 2} : pc[<<w, i>>] # "idle"
    /\ Spend("fault", MaxFaults)
    /\ Die(w)
    /\ waiting' = IF Busy(w) THEN [waiting EXCEPT ![task[w]] = @ + 1] ELSE waiting

----------------------------------------------------------------------------
(* The retry button of the admin UI *)

AdminLoad ==
    /\ admin = "idle"
    /\ status \in {"failed", "dead_letter"}
    /\ Spend("admin", MaxAdmin)
    /\ admin' = "store"
    /\ adminSnap' = status
    /\ UNCHANGED <<rowVars, lock, coVars, taskVars, waiting, odooVars, historyVars>>

AdminStore ==
    /\ admin = "store"
    /\ status' = Written(adminSnap, "pending", status)
    /\ age' = 0
    /\ admin' = "send"
    /\ adminSnap' = "none"
    /\ overlapped' = (overlapped \/ status \in {"syncing", "success"})
    /\ UNCHANGED <<lock, coVars, taskVars, waiting, odooVars, used, unsure>>

AdminSend ==
    /\ admin = "send"
    /\ admin' = "idle"
    /\ \/ waiting' = [waiting EXCEPT ![First("admin")] = @ + 1] /\ UNCHANGED used
       \/ Spend("fault", MaxFaults) /\ UNCHANGED waiting
    /\ UNCHANGED <<rowVars, lock, coVars, taskVars, adminSnap, odooVars, historyVars>>

----------------------------------------------------------------------------
Sync(c) ==
    \/ Skip(c) \/ Look(c) \/ Claim(c) \/ Check(c) \/ Create(c) \/ CreateOutlives(c)
    \/ Confirm(c) \/ Load(c) \/ Store(c)
    \/ \E e \in Errors : FetchFails(c, e) \/ OdooFails(c, e)

Next ==
    \/ \E k \in Kinds : Arrive(k)
    \/ \E c \in Coros : Sync(c) \/ DatabaseFails(c)
    \/ \E w \in Workers :
        \/ \E m \in Messages : Take(w, m)
        \/ SoftLimitFires(w) \/ HardLimitKills(w) \/ Crash(w)
    \/ Tick \/ LateCreate
    \/ AdminLoad \/ AdminStore \/ AdminSend

Spec == Init /\ [][Next]_vars

(* Celery hands out messages and enforces the hard limit, time passes, and *)
(* an admin request that started ends.  Nothing is assumed of a coroutine: *)
(* it may wait for the advisory lock, which has no timeout, and the loop   *)
(* of an idle process runs none of those that are left on it.              *)
Fairness ==
    /\ \A w \in Workers : WF_vars(HardLimitKills(w))
    /\ WF_vars(\E w \in Workers, m \in Messages : Take(w, m))
    /\ WF_vars(Tick)
    /\ WF_vars(AdminStore \/ AdminSend)

FairSpec == Spec /\ Fairness

----------------------------------------------------------------------------
(* Properties *)

(* c has claimed the order and has not recorded an outcome yet. *)
Syncing(c) ==
    /\ Runs(c)
    /\ \/ pc[c] \in {"check", "create", "confirm"}
       \/ pc[c] \in {"load", "store"} /\ goal[c] # "dead_letter"

(* The advisory lock, the "syncing" status with its age, and the hard time *)
(* limit together let one sync of the order at a time through to Odoo,     *)
(* although the lock is gone after Phase A.                                *)
ExclusiveSync ==
    ~overlapped => \A c, d \in Coros : Syncing(c) /\ Syncing(d) => c = d

(* No duplicate orders, without help from Odoo, unless Odoo carried out a  *)
(* create after its caller gave up: retries, crashes, redeliveries and     *)
(* concurrent tasks create the sale order once.                            *)
OneOrder == ~overlapped /\ ~unsure => odooOrders <= 1

(* A mapping row says "success" only of an order that is in Odoo, whatever *)
(* coroutine of whatever age wrote it.                                     *)
SuccessIsBacked == status = "success" => odooOrders > 0

(* A recorded success is never taken back by a slower sync of the order.   *)
SuccessKept == [][status = "success" /\ ~overlapped' => status' = "success"]_vars

(* The sync implements the record it exists for: as long as nothing        *)
(* outlives its caller and no operator or dead-letter mark is written over *)
(* a running sync, the order is created while its row says "syncing" and   *)
(* once, failures are recorded only of the sync that claimed it, and a     *)
(* success is final; whatever happens, a success has its order.            *)
Promise == INSTANCE OrderRecord WITH
    record    <- status,
    orders    <- odooOrders,
    disturbed <- overlapped \/ unsure

KeepsRecord == Promise!Spec

(* c will put an outcome in the place of "syncing" or "pending". *)
Records(c) ==
    \/ pc[c] \in {"check", "create", "confirm", "load"}
    \/ pc[c] = "store" /\ snap[c] # Outcome(goal[c])

(* Somebody has a message of the order, or is on the way to claim it. *)
Called ==
    \/ admin = "send"
    \/ \E m \in Messages : waiting[m] > 0
    \/ \E c \in Coros : pc[c] \in {"fetch", "claim"}

(* The row says that something goes on, and nothing does. *)
Stranded ==
    /\ status = "syncing" \/ (status = "pending" /\ ~Called)
    /\ ~\E c \in Coros : Records(c)

(* A step in which something is lost: a process, a transaction, a send of  *)
(* the operator's message, or a task without another try.                  *)
Loses ==
    \/ \E w \in Workers : HardLimitKills(w) \/ Crash(w)
    \/ \E c \in Coros : DatabaseFails(c)
    \/ \E c \in Coros, e \in Errors : FetchFails(c, e) /\ UNCHANGED waiting
    \/ AdminSend /\ UNCHANGED waiting

(* A claim, or an operator's request, is left to nobody only by a loss: no *)
(* early return, no soft time limit, no retry and no mixture of commits of *)
(* several syncs and an operator does it, although a commit may leave the  *)
(* status as another one has set it.                                       *)
StrandedByLoss == [][Stranded' => Stranded \/ Loses]_vars

Finished ==
    /\ \A m \in Messages : waiting[m] = 0
    /\ \A w \in Workers : ~Busy(w)
    /\ admin = "idle"

Quiet == Finished /\ \A c \in Coros : pc[c] = "idle"

(* Calls return, and processes go on to run tasks, of this order or of     *)
(* another one, so that what is left on their loops gets its turns.        *)
LoopsRun == \A c \in Coros : WF_vars(Sync(c))

(* Every message is consumed and every task ends, in no loop of retries,   *)
(* although an abandoned coroutine may hold the advisory lock for ever on  *)
(* the loop of an idle process.  It does not when the loops go on to run:  *)
(* then no coroutine is left, and no two wait for each other.              *)
Drains == <>[]Finished /\ (LoopsRun => <>[]Quiet)

(* docs/OUTBOX_PATTERN.md:2, no webhook event is lost though a worker goes *)
(* down: once every message of the order has been consumed and every task  *)
(* has ended, its sync has an outcome.                                     *)
NoEventLost == Quiet => status # "syncing"
=============================================================================
