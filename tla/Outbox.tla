------------------------------- MODULE Outbox -------------------------------
(***************************************************************************)
(* The transactional outbox (src/services/outbox_service.py): the webhook  *)
(* handler commits a row, dispatchers (the handler's background task and   *)
(* the relay that beat starts every 30 s) claim rows, send them to the     *)
(* Celery broker and record the outcome, and the consumer may dead-letter  *)
(* a row whose order names a product Odoo does not have.                   *)
(*                                                                         *)
(* Every database transaction that selects FOR UPDATE is one step.  The    *)
(* transactions that load a row with db.get and commit later take no lock  *)
(* and are two steps, Get and Put: the UPDATE they emit names only the     *)
(* columns whose value differs from the loaded one (Written).              *)
(***************************************************************************)
EXTENDS Naturals, FiniteSets

CONSTANTS Rows,          \* outbox ids, in order of insertion (created_at)
          Dispatchers,   \* processes that run try_publish_immediately or relay_pending
          Workers,       \* Celery processes that run workers.process_webhook_event
          Routed,        \* rows whose (platform, event_type) is a key of QUEUE_MAP
          MaxRetries,    \* webhook_outbox.max_retries
          BatchSize,     \* relay_pending's batch_size
          MaxResets,     \* bound: calls of manual_retry
          MaxFaults,     \* bound: crashes, restarts and failed transactions
          MaxFailures,   \* bound: recorded send failures of one row
          MaxQueued      \* bound: messages of one row waiting in the broker

ASSUME OutboxAssumption ==
    /\ Rows \subseteq Nat
    /\ Routed \subseteq Rows
    /\ MaxRetries \in Nat \ {0}
    /\ BatchSize \in Nat \ {0}
    /\ {MaxResets, MaxFaults, MaxFailures, MaxQueued} \subseteq Nat

VARIABLES status,     \* webhook_outbox.status of each row ("new": not inserted yet)
          retry,      \* webhook_outbox.retry_count
          due,        \* process_after <= now
          kick,       \* the handler's background task for the row has not run yet
          doomed,     \* cleanup_outbox has selected the row and not committed yet
          pc,         \* what each dispatcher does next
          batch,      \* rows a dispatcher has claimed and not finished with
          outcome,    \* what the dispatcher's next transaction records
          loaded,     \* status and retry_count as that transaction read them
          queue,      \* messages of each row waiting in the broker
          wpc,        \* what each worker does next
          wrow,       \* the rows of the message it holds (none, or one)
          wloaded,    \* the status its dead-letter transaction read
          resets,     \* calls of manual_retry so far
          faults,     \* crashes so far
          sent,       \* history: the broker has accepted a message of the row
          failures,   \* history: send failures recorded for the row
          handled,    \* history: a worker has finished a message of the row
          missing,    \* history: a worker met ProductNotFoundError on the row
          overtaken   \* history: a lease of the row lapsed, or the row was reset

rowVars      == <<status, retry, due>>
taskVars     == <<kick, doomed>>
dispatchVars == <<pc, batch, outcome, loaded>>
workerVars   == <<wpc, wrow, wloaded>>
boundVars    == <<resets, faults>>
historyVars  == <<sent, failures, handled, missing, overtaken>>
vars == <<rowVars, taskVars, dispatchVars, queue, workerVars, boundVars, historyVars>>

Live     == {"pending", "failed", "processing"}   \* the statuses the relay looks for
Statuses == Live \union {"new", "published", "dead_letter", "deleted"}
Outcomes == {"none", "published", "failed", "reset"}
Loads    == [status : Statuses, retry : Nat]
NoLoad   == [status |-> "new", retry |-> 0]

TypeOK ==
    /\ status \in [Rows -> Statuses]
    /\ retry \in [Rows -> Nat]
    /\ due \in [Rows -> BOOLEAN]
    /\ kick \in [Rows -> BOOLEAN]
    /\ doomed \in [Rows -> BOOLEAN]
    /\ pc \in [Dispatchers -> {"idle", "send", "get", "put"}]
    /\ batch \in [Dispatchers -> SUBSET Rows]
    /\ outcome \in [Dispatchers -> Outcomes]
    /\ loaded \in [Dispatchers -> Loads]
    /\ queue \in [Rows -> Nat]
    /\ wpc \in [Workers -> {"idle", "run", "get", "put"}]
    /\ wrow \in [Workers -> SUBSET Rows]
    /\ wloaded \in [Workers -> Statuses]
    /\ resets \in Nat
    /\ faults \in Nat
    /\ sent \in [Rows -> BOOLEAN]
    /\ failures \in [Rows -> Nat]
    /\ handled \in [Rows -> BOOLEAN]
    /\ missing \in [Rows -> BOOLEAN]
    /\ overtaken \in [Rows -> BOOLEAN]

Init ==
    /\ status = [r \in Rows |-> "new"]
    /\ retry = [r \in Rows |-> 0]
    /\ due = [r \in Rows |-> TRUE]
    /\ kick = [r \in Rows |-> FALSE]
    /\ doomed = [r \in Rows |-> FALSE]
    /\ pc = [d \in Dispatchers |-> "idle"]
    /\ batch = [d \in Dispatchers |-> {}]
    /\ outcome = [d \in Dispatchers |-> "none"]
    /\ loaded = [d \in Dispatchers |-> NoLoad]
    /\ queue = [r \in Rows |-> 0]
    /\ wpc = [w \in Workers |-> "idle"]
    /\ wrow = [w \in Workers |-> {}]
    /\ wloaded = [w \in Workers |-> "new"]
    /\ resets = 0
    /\ faults = 0
    /\ sent = [r \in Rows |-> FALSE]
    /\ failures = [r \in Rows |-> 0]
    /\ handled = [r \in Rows |-> FALSE]
    /\ missing = [r \in Rows |-> FALSE]
    /\ overtaken = [r \in Rows |-> FALSE]

----------------------------------------------------------------------------
(* The webhook handler and the clock *)

(* One commit inserts the row; the background task is scheduled after it. *)
Ingest(r) ==
    /\ status[r] = "new"
    /\ \A q \in Rows : q < r => status[q] # "new"
    /\ status' = [status EXCEPT ![r] = "pending"]
    /\ kick' = [kick EXCEPT ![r] = TRUE]
    /\ UNCHANGED <<doomed, retry, due, dispatchVars, queue, workerVars, boundVars, historyVars>>

(* The API process dies before its background task has started. *)
LoseKick(r) ==
    /\ kick[r]
    /\ faults < MaxFaults
    /\ kick' = [kick EXCEPT ![r] = FALSE]
    /\ faults' = faults + 1
    /\ UNCHANGED <<doomed, rowVars, dispatchVars, queue, workerVars, resets, historyVars>>

(* process_after passes: a retry delay, or the lease of a row still        *)
(* "processing", whose dispatcher may only be slow.                        *)
TimePasses(r) ==
    /\ status[r] \in {"failed", "processing"}
    /\ ~due[r]
    /\ due' = [due EXCEPT ![r] = TRUE]
    /\ overtaken' = [overtaken EXCEPT ![r] = @ \/ status[r] = "processing"]
    /\ UNCHANGED <<status, retry, taskVars, dispatchVars, queue, workerVars, boundVars,
                   sent, failures, handled, missing>>

(* A bug: every old row is selected. *)
CleanupSelectByAge(r) ==
    /\ status[r] # "new"
    /\ ~doomed[r]
    /\ doomed' = [doomed EXCEPT ![r] = TRUE]
    /\ UNCHANGED <<rowVars, kick, dispatchVars, queue, workerVars, boundVars, historyVars>>

(* cleanup_outbox selects old published rows, without a lock, and deletes  *)
(* them by id, whatever they have become by then and whoever holds their   *)
(* id; or its transaction fails.                                           *)
CleanupSelect(r) ==
    /\ status[r] = "published"
    /\ ~doomed[r]
    /\ doomed' = [doomed EXCEPT ![r] = TRUE]
    /\ UNCHANGED <<rowVars, kick, dispatchVars, queue, workerVars, boundVars, historyVars>>

CleanupDelete(r) ==
    /\ doomed[r]
    /\ doomed' = [doomed EXCEPT ![r] = FALSE]
    /\ status' \in {status, [status EXCEPT ![r] = "deleted"]}
    /\ UNCHANGED <<retry, due, kick, dispatchVars, queue, workerVars, boundVars, historyVars>>

----------------------------------------------------------------------------
(* Claiming *)

(* _prepare_publish on every row of S, inside the locking transaction. *)
Claim(d, S) ==
    /\ status' = [r \in Rows |-> IF r \notin S THEN status[r]
                                 ELSE IF r \in Routed THEN "processing" ELSE "dead_letter"]
    /\ due' = [r \in Rows |-> due[r] /\ r \notin S \intersect Routed]
    /\ batch' = [batch EXCEPT ![d] = S \intersect Routed]
    /\ pc' = [pc EXCEPT ![d] = IF S \intersect Routed = {} THEN "idle" ELSE "send"]
    /\ UNCHANGED <<retry, outcome, loaded>>

(* The background task: claims its row if the row is still pending. *)
TryPublish(d, r) ==
    /\ kick[r]
    /\ pc[d] = "idle"
    /\ kick' = [kick EXCEPT ![r] = FALSE]
    /\ \/ status[r] = "pending" /\ Claim(d, {r})
       \/ status[r] # "pending" /\ UNCHANGED <<rowVars, dispatchVars>>
    /\ UNCHANGED <<doomed, queue, workerVars, boundVars, historyVars>>

(* Bugs of that query, for the mutation runs: the lease is ignored, or rows *)
(* left "processing" by a crash are not reclaimed.                          *)
RelayableIgnoringLease == {r \in Rows : status[r] \in Live /\ retry[r] < MaxRetries}
RelayableNotProcessing ==
    {r \in Rows : status[r] \in {"pending", "failed"} /\ due[r] /\ retry[r] < MaxRetries}

(* The rows relay_pending selects. *)
Relayable == {r \in Rows : status[r] \in Live /\ due[r] /\ retry[r] < MaxRetries}

Oldest(S, n) == {r \in S : Cardinality({q \in S : q < r}) < n}

Relay(d) ==
    /\ pc[d] = "idle"
    /\ Relayable # {}
    /\ Claim(d, Oldest(Relayable, BatchSize))
    /\ UNCHANGED <<taskVars, queue, workerVars, boundVars, historyVars>>

----------------------------------------------------------------------------
(* Dispatching: one row of the batch after the other, oldest first *)

Current(d) == CHOOSE r \in batch[d] : \A q \in batch[d] : r <= q

Enqueue(r) ==
    /\ queue[r] < MaxQueued
    /\ queue' = [queue EXCEPT ![r] = @ + 1]
    /\ sent' = [sent EXCEPT ![r] = TRUE]

(* send_task returns. *)
SendReturns(d) ==
    /\ pc[d] = "send"
    /\ Enqueue(Current(d))
    /\ pc' = [pc EXCEPT ![d] = "get"]
    /\ outcome' = [outcome EXCEPT ![d] = "published"]
    /\ UNCHANGED <<rowVars, taskVars, batch, loaded, workerVars, boundVars,
                   failures, handled, missing, overtaken>>

(* A bug: the exception is swallowed and the row recorded as published. *)
SendRaisesSwallowed(d) ==
    /\ pc[d] = "send"
    /\ pc' = [pc EXCEPT ![d] = "get"]
    /\ outcome' = [outcome EXCEPT ![d] = "published"]
    /\ UNCHANGED <<rowVars, taskVars, batch, loaded, queue, workerVars, boundVars, historyVars>>

(* send_task raises; the broker may have accepted the message all the same. *)
SendRaises(d) ==
    /\ pc[d] = "send"
    /\ failures[Current(d)] < MaxFailures
    /\ \/ Enqueue(Current(d))
       \/ UNCHANGED <<queue, sent>>
    /\ pc' = [pc EXCEPT ![d] = "get"]
    /\ outcome' = [outcome EXCEPT ![d] = "failed"]
    /\ UNCHANGED <<rowVars, taskVars, batch, loaded, workerVars, boundVars,
                   failures, handled, missing, overtaken>>

(* The dispatcher is done with its current row and turns to the next one. *)
Advance(d) ==
    LET rest == batch[d] \ {Current(d)} IN
    /\ batch' = [batch EXCEPT ![d] = rest]
    /\ pc' = [pc EXCEPT ![d] = IF rest = {} THEN "idle" ELSE "send"]
    /\ outcome' = [outcome EXCEPT ![d] = "none"]
    /\ loaded' = [loaded EXCEPT ![d] = NoLoad]

(* db.get of _record_published, _record_failure or manual_retry; the row   *)
(* may be gone.                                                            *)
Get(d) ==
    /\ pc[d] = "get"
    /\ LET r == Current(d) IN
       \/ /\ status[r] = "deleted"
          /\ Advance(d)
       \/ /\ status[r] # "deleted"
          /\ loaded' = [loaded EXCEPT ![d] = [status |-> status[r], retry |-> retry[r]]]
          /\ pc' = [pc EXCEPT ![d] = "put"]
          /\ UNCHANGED <<batch, outcome>>
    /\ UNCHANGED <<rowVars, taskVars, queue, workerVars, boundVars, historyVars>>

(* A column after a flush that assigned it new: an assignment that leaves  *)
(* the loaded value as it was is not part of the UPDATE.                   *)
Written(was, new, current) == IF new = was THEN current ELSE new

(* The dispatcher gives up its batch: its process dies, or the transaction *)
(* that records an outcome raises.                                         *)
Drop(d) ==
    /\ pc' = [pc EXCEPT ![d] = "idle"]
    /\ batch' = [batch EXCEPT ![d] = {}]
    /\ outcome' = [outcome EXCEPT ![d] = "none"]
    /\ loaded' = [loaded EXCEPT ![d] = NoLoad]

(* The UPDATE of a row that was deleted meanwhile matches nothing and raises. *)
PutGone(d) ==
    /\ pc[d] = "put"
    /\ status[Current(d)] = "deleted"
    /\ Drop(d)
    /\ UNCHANGED <<rowVars, taskVars, queue, workerVars, boundVars, historyVars>>

(* The commit of _record_published. *)
PutPublished(d) ==
    LET r == Current(d) IN
    /\ pc[d] = "put" /\ outcome[d] = "published"
    /\ status[r] # "deleted"
    /\ status' = [status EXCEPT ![r] = Written(loaded[d].status, "published", @)]
    /\ Advance(d)
    /\ UNCHANGED <<retry, due, taskVars, queue, workerVars, boundVars, historyVars>>

(* Bugs: the limit is off by one, either way, or the status is misspelt. *)
FailureStatusLate(n)   == IF n > MaxRetries THEN "dead_letter" ELSE "failed"
FailureStatusEager(n)  == IF n + 1 >= MaxRetries THEN "dead_letter" ELSE "failed"
FailureStatusMisspelt(n) == IF n >= MaxRetries THEN "dead-letter" ELSE "failed"

(* The status of a row after its n-th send failure. *)
FailureStatus(n) == IF n >= MaxRetries THEN "dead_letter" ELSE "failed"

(* The commit of _record_failure. *)
PutFailed(d) ==
    LET r == Current(d)
        n == loaded[d].retry + 1
        to == FailureStatus(n)
    IN
    /\ pc[d] = "put" /\ outcome[d] = "failed"
    /\ status[r] # "deleted"
    /\ status' = [status EXCEPT ![r] = Written(loaded[d].status, to, @)]
    /\ retry' = [retry EXCEPT ![r] = n]
    /\ due' = [due EXCEPT ![r] = @ /\ to = "dead_letter"]
    /\ failures' = [failures EXCEPT ![r] = @ + 1]
    /\ Advance(d)
    /\ UNCHANGED <<taskVars, queue, workerVars, boundVars, sent, handled, missing, overtaken>>

(* The commit of manual_retry, which goes on to try_publish_immediately. *)
PutReset(d) ==
    LET r == Current(d) IN
    /\ pc[d] = "put" /\ outcome[d] = "reset"
    /\ status[r] # "deleted"
    /\ status' = [status EXCEPT ![r] = Written(loaded[d].status, "pending", @)]
    /\ retry' = [retry EXCEPT ![r] = Written(loaded[d].retry, 0, @)]
    /\ due' = [due EXCEPT ![r] = TRUE]
    /\ kick' = [kick EXCEPT ![r] = TRUE]
    /\ overtaken' = [overtaken EXCEPT ![r] = TRUE]
    /\ Advance(d)
    /\ UNCHANGED <<doomed, queue, workerVars, boundVars, sent, failures, handled, missing>>

ManualRetry(d, r) ==
    /\ pc[d] = "idle"
    /\ status[r] \notin {"new", "deleted"}
    /\ resets < MaxResets
    /\ resets' = resets + 1
    /\ pc' = [pc EXCEPT ![d] = "get"]
    /\ batch' = [batch EXCEPT ![d] = {r}]
    /\ outcome' = [outcome EXCEPT ![d] = "reset"]
    /\ UNCHANGED <<rowVars, taskVars, loaded, queue, workerVars, faults, historyVars>>

Crash(d) ==
    /\ pc[d] # "idle"
    /\ faults < MaxFaults
    /\ faults' = faults + 1
    /\ Drop(d)
    /\ UNCHANGED <<rowVars, taskVars, queue, workerVars, resets, historyVars>>

----------------------------------------------------------------------------
(* The consumer, as far as it touches the outbox: process_webhook_event *)

Take(w, r) ==
    /\ wpc[w] = "idle"
    /\ queue[r] > 0
    /\ queue' = [queue EXCEPT ![r] = @ - 1]
    /\ wpc' = [wpc EXCEPT ![w] = "run"]
    /\ wrow' = [wrow EXCEPT ![w] = {r}]
    /\ UNCHANGED <<rowVars, taskVars, dispatchVars, wloaded, boundVars, historyVars>>

(* The message is acknowledged (task_acks_late: only when the task ends). *)
Ack(w) ==
    /\ wpc' = [wpc EXCEPT ![w] = "idle"]
    /\ wrow' = [wrow EXCEPT ![w] = {}]
    /\ wloaded' = [wloaded EXCEPT ![w] = "new"]
    /\ handled' = [r \in Rows |-> handled[r] \/ r \in wrow[w]]

(* The task ends in any way that leaves the outbox row alone. *)
Finish(w) ==
    /\ wpc[w] = "run"
    /\ Ack(w)
    /\ UNCHANGED <<rowVars, taskVars, dispatchVars, queue, boundVars,
                   sent, failures, missing, overtaken>>

(* The task raises ProductNotFoundError and turns to _mark_dead_letter. *)
NotFound(w) ==
    /\ wpc[w] = "run"
    /\ wpc' = [wpc EXCEPT ![w] = "get"]
    /\ missing' = [r \in Rows |-> missing[r] \/ r \in wrow[w]]
    /\ UNCHANGED <<rowVars, taskVars, dispatchVars, queue, wrow, wloaded, boundVars,
                   sent, failures, handled, overtaken>>

MarkGet(w) ==
    /\ wpc[w] = "get"
    /\ \E r \in wrow[w] :
       \/ status[r] = "deleted" /\ Ack(w)
       \/ /\ status[r] # "deleted"
          /\ wloaded' = [wloaded EXCEPT ![w] = status[r]]
          /\ wpc' = [wpc EXCEPT ![w] = "put"]
          /\ UNCHANGED <<wrow, handled>>
    /\ UNCHANGED <<rowVars, taskVars, dispatchVars, queue, boundVars,
                   sent, failures, missing, overtaken>>

(* The commit.  A row deleted meanwhile makes it raise, which is logged and *)
(* swallowed: the task ends in the same way.                                *)
MarkPut(w) ==
    /\ wpc[w] = "put"
    /\ status' = [r \in Rows |-> IF r \in wrow[w] /\ status[r] # "deleted"
                                 THEN Written(wloaded[w], "dead_letter", status[r])
                                 ELSE status[r]]
    /\ Ack(w)
    /\ UNCHANGED <<retry, due, taskVars, dispatchVars, queue, boundVars,
                   sent, failures, missing, overtaken>>

(* Any other failure of that transaction is swallowed too. *)
MarkLost(w) ==
    /\ wpc[w] \in {"get", "put"}
    /\ faults < MaxFaults
    /\ faults' = faults + 1
    /\ Ack(w)
    /\ UNCHANGED <<rowVars, taskVars, dispatchVars, queue, resets,
                   sent, failures, missing, overtaken>>

(* The worker process is lost (task_reject_on_worker_lost) or the task asks *)
(* for a retry: the message is delivered again.                             *)
Redeliver(w) ==
    /\ wpc[w] # "idle"
    /\ faults < MaxFaults
    /\ faults' = faults + 1
    /\ queue' = [r \in Rows |-> IF r \in wrow[w] THEN queue[r] + 1 ELSE queue[r]]
    /\ wpc' = [wpc EXCEPT ![w] = "idle"]
    /\ wrow' = [wrow EXCEPT ![w] = {}]
    /\ wloaded' = [wloaded EXCEPT ![w] = "new"]
    /\ UNCHANGED <<rowVars, taskVars, dispatchVars, resets, historyVars>>

----------------------------------------------------------------------------
(* The rest of _dispatch, once the send has returned or raised. *)
Record(d) == Get(d) \/ PutGone(d) \/ PutPublished(d) \/ PutFailed(d) \/ PutReset(d)

Handle(w) == Finish(w) \/ NotFound(w) \/ MarkGet(w) \/ MarkPut(w)

Next ==
    \/ \E r \in Rows : Ingest(r) \/ LoseKick(r) \/ TimePasses(r)
                  \/ CleanupSelect(r) \/ CleanupDelete(r)
    \/ \E d \in Dispatchers :
        \/ \E r \in Rows : TryPublish(d, r) \/ ManualRetry(d, r)
        \/ Relay(d) \/ SendReturns(d) \/ SendRaises(d) \/ Record(d) \/ Crash(d)
    \/ \E w \in Workers :
        \/ \E r \in Rows : Take(w, r)
        \/ Handle(w) \/ MarkLost(w) \/ Redeliver(w)

Spec == Init /\ [][Next]_vars

(* Beat keeps starting relays, a dispatcher and a worker that run go on,   *)
(* the clock moves and workers keep consuming.  Nothing is assumed of the  *)
(* handler's background task, of sends succeeding or of cleanup.           *)
Fairness ==
    /\ WF_vars(\E d \in Dispatchers : Relay(d))
    /\ \A d \in Dispatchers : WF_vars(SendReturns(d) \/ SendRaises(d) \/ Record(d))
    /\ \A r \in Rows : WF_vars(TimePasses(r))
    /\ \A w \in Workers : WF_vars(Handle(w)) /\ WF_vars(\E r \in Rows : Take(w, r))

FairSpec == Spec /\ Fairness

----------------------------------------------------------------------------
(* Properties *)

(* d has claimed r and has not recorded the outcome of its send yet. *)
Holds(d, r) == r \in batch[d] /\ outcome[d] # "reset"

(* The claim is exclusive: as long as no lease of a row lapsed and nobody  *)
(* reset it, the background task and any number of overlapping relays have *)
(* at most one send of the row between claim and record.                   *)
SingleSender ==
    \A r \in Rows : ~overtaken[r] =>
        \A d, e \in Dispatchers : Holds(d, r) /\ Holds(e, r) => d = e

(* Under the same condition no retry is lost or double counted by the      *)
(* unlocked load-then-commit of _record_failure, and a row the relay still *)
(* has to serve is below max_retries, so the relay's query selects it: it  *)
(* is never stranded in a live status.                                     *)
RetryBudgetKept ==
    \A r \in Rows : ~overtaken[r] =>
        /\ retry[r] = failures[r]
        /\ status[r] \in Live => retry[r] < MaxRetries

(* A row counts as published, and may be deleted, only if the broker has   *)
(* accepted a message of it, however claims, crashes and late records      *)
(* interleave.                                                             *)
PublishedWasSent ==
    \A r \in Rows : status[r] \in {"published", "deleted"} => sent[r]

(* A row is given up only for a reason: it has no queue, a worker met a    *)
(* missing product, or max_retries send failures were recorded.            *)
DeadLetterEarned ==
    \A r \in Rows : status[r] = "dead_letter" =>
        r \notin Routed \/ missing[r] \/ failures[r] >= MaxRetries

(* Every committed row is processed by a worker or ends dead-lettered,     *)
(* with the background task lost, dispatchers and workers crashing, and    *)
(* sends failing.                                                          *)
EventuallyHandled ==
    \A r \in Rows : status[r] = "pending" ~> handled[r] \/ status[r] = "dead_letter"

(* The outbox implements the delivery it exists for: through claims that   *)
(* lapse, sends that may or may not have arrived, unlocked records written *)
(* late, resets and cleanups, no step loses an event, hands the consumer   *)
(* one nobody committed, or drops the row of one that was never sent.      *)
Promise == INSTANCE Delivery WITH
    Events    <- Rows,
    accepted  <- {r \in Rows : status[r] # "new"},
    delivered <- {r \in Rows : sent[r]},
    processed <- {r \in Rows : handled[r]},
    refused   <- {r \in Rows : status[r] = "dead_letter"},
    forgotten <- {r \in Rows : status[r] = "deleted"}

DeliversEvents == Promise!Spec
=============================================================================
