---------------------------- MODULE OutboxProofs ----------------------------
(***************************************************************************)
(* TLAPS proofs about Outbox, for any rows, dispatchers and workers, any   *)
(* max_retries and batch size, and any value of the bounds.                *)
(***************************************************************************)
EXTENDS Outbox, WellFoundedInduction, TLAPS

(* A batch of row ids has an oldest one. *)
LEMMA LeastRow ==
    ASSUME NEW S \in SUBSET Nat, S # {}
    PROVE  \E r \in S : \A q \in S : r <= q
<1> DEFINE R == OpToRel(<, Nat)
<1>1. IsWellFoundedOn(R, Nat)
  BY NatLessThanWellFounded
<1>2. \A q, r \in Nat : q < r => <<q, r>> \in R
  BY DEF OpToRel
<1> HIDE DEF R
<1>3. PICK r \in S : \A q \in S : ~(<<q, r>> \in R)
  BY <1>1, WFMin
<1>4. ASSUME NEW q \in S PROVE r <= q
  <2>1. r \in Nat /\ q \in Nat
    OBVIOUS
  <2>2. ~(q < r)
    BY <1>2, <1>3, <2>1
  <2> QED
    BY <2>1, <2>2
<1> QED
  BY <1>4

(* The row a dispatcher turns to next is one of its batch. *)
LEMMA CurrentInBatch ==
    ASSUME TypeOK, NEW d \in Dispatchers, batch[d] # {}
    PROVE  Current(d) \in batch[d] /\ Current(d) \in Rows
<1>1. batch[d] \in SUBSET Rows /\ batch[d] \in SUBSET Nat
  BY OutboxAssumption DEF TypeOK
<1>2. \E r \in batch[d] : \A q \in batch[d] : r <= q
  BY <1>1, LeastRow
<1> QED
  BY <1>1, <1>2 DEF Current

----------------------------------------------------------------------------
(* The shape of a dispatcher: it has a batch exactly while it is not idle, *)
(* and nothing to record before its send.                                  *)
Shape ==
    \A d \in Dispatchers :
        /\ pc[d] = "idle" <=> batch[d] = {}
        /\ pc[d] \in {"idle", "send"} => outcome[d] = "none"

TInv == TypeOK /\ Shape

(* A row that is not inserted yet and an idle dispatcher are well typed. *)
LEMMA TypeInit == Init => TInv
  BY DEF Init, TInv, TypeOK, Shape, Statuses, Live, Outcomes, Loads, NoLoad

(* A dispatcher that has loaded nothing is well typed. *)
LEMMA NoLoadType == NoLoad \in Loads
  BY DEF NoLoad, Loads, Statuses, Live

(* What an UPDATE leaves in a column has the type of the column. *)
LEMMA WrittenType ==
    ASSUME NEW T, NEW was, NEW to \in T, NEW now \in T
    PROVE  Written(was, to, now) \in T
  BY DEF Written

(* Every step of the system keeps the types and the shape. *)
LEMMA TypeStep == TInv /\ [Next]_vars => TInv'
<1> SUFFICES ASSUME TypeOK, Shape, [Next]_vars
             PROVE  TypeOK' /\ Shape'
  BY DEF TInv
<1> USE NoLoadType DEF rowVars, taskVars, dispatchVars, workerVars, boundVars, historyVars
<1>1. ASSUME NEW r \in Rows, Ingest(r) PROVE TypeOK' /\ Shape'
  BY <1>1 DEF TypeOK, Shape, Ingest, Statuses, Live
<1>2. ASSUME NEW r \in Rows, LoseKick(r) PROVE TypeOK' /\ Shape'
  BY <1>2 DEF TypeOK, Shape, LoseKick
<1>3. ASSUME NEW r \in Rows, TimePasses(r) PROVE TypeOK' /\ Shape'
  BY <1>3 DEF TypeOK, Shape, TimePasses
<1>4. ASSUME NEW r \in Rows, CleanupSelect(r) \/ CleanupDelete(r) PROVE TypeOK' /\ Shape'
  <2>1. status' \in [Rows -> Statuses] /\ doomed' \in [Rows -> BOOLEAN]
    BY <1>4 DEF TypeOK, CleanupSelect, CleanupDelete, Statuses
  <2>2. UNCHANGED <<retry, due, kick, dispatchVars, queue, workerVars, boundVars, historyVars>>
    BY <1>4 DEF CleanupSelect, CleanupDelete
  <2> QED
    BY <2>1, <2>2 DEF TypeOK, Shape
<1>5. ASSUME NEW d \in Dispatchers, NEW S \in SUBSET Rows, Claim(d, S), outcome[d] = "none"
      PROVE  /\ status' \in [Rows -> Statuses] /\ due' \in [Rows -> BOOLEAN]
             /\ batch' \in [Dispatchers -> SUBSET Rows]
             /\ pc' \in [Dispatchers -> {"idle", "send", "get", "put"}]
             /\ retry' \in [Rows -> Nat] /\ outcome' \in [Dispatchers -> Outcomes]
             /\ loaded' \in [Dispatchers -> Loads]
             /\ Shape'
  <2>1. status' \in [Rows -> Statuses]
    BY <1>5 DEF TypeOK, Claim, Statuses, Live
  <2>2. due' \in [Rows -> BOOLEAN]
    BY <1>5 DEF TypeOK, Claim
  <2>3. batch' \in [Dispatchers -> SUBSET Rows]
    BY <1>5 DEF TypeOK, Claim
  <2>4. pc' \in [Dispatchers -> {"idle", "send", "get", "put"}]
    BY <1>5 DEF TypeOK, Claim
  <2>5. Shape'
    BY <1>5 DEF TypeOK, Claim, Shape
  <2> QED
    BY <1>5, <2>1, <2>2, <2>3, <2>4, <2>5 DEF TypeOK, Claim
<1>6. ASSUME NEW d \in Dispatchers, NEW r \in Rows, TryPublish(d, r)
      PROVE  TypeOK' /\ Shape'
  <2>1. CASE status[r] = "pending" /\ Claim(d, {r})
    BY <1>5, <1>6, <2>1 DEF TypeOK, Shape, TryPublish
  <2>2. CASE UNCHANGED <<rowVars, dispatchVars>>
    BY <1>6, <2>2 DEF TypeOK, Shape, TryPublish
  <2> QED
    BY <1>6, <2>1, <2>2 DEF TryPublish
<1>7. ASSUME NEW d \in Dispatchers, Relay(d) PROVE TypeOK' /\ Shape'
  <2>1. Oldest(Relayable, BatchSize) \subseteq Rows
    BY DEF Oldest, Relayable
  <2> QED
    BY <1>5, <1>7, <2>1 DEF TypeOK, Shape, Relay
<1>8. ASSUME NEW d \in Dispatchers, NEW r \in Rows, ManualRetry(d, r)
      PROVE  TypeOK' /\ Shape'
  BY <1>8 DEF TypeOK, Shape, ManualRetry, Outcomes
<1>9. ASSUME NEW d \in Dispatchers, SendReturns(d) \/ SendRaises(d)
      PROVE  TypeOK' /\ Shape'
  <2>1. pc[d] = "send" /\ Current(d) \in Rows
    BY <1>9, CurrentInBatch DEF Shape, SendReturns, SendRaises
  <2>2. queue' \in [Rows -> Nat] /\ sent' \in [Rows -> BOOLEAN]
    <3>1. CASE Enqueue(Current(d))
      BY <2>1, <3>1 DEF TypeOK, Enqueue
    <3>2. CASE UNCHANGED <<queue, sent>>
      BY <3>2 DEF TypeOK
    <3> QED
      BY <1>9, <3>1, <3>2 DEF SendReturns, SendRaises
  <2>3. /\ pc' = [pc EXCEPT ![d] = "get"]
        /\ \E o \in Outcomes : outcome' = [outcome EXCEPT ![d] = o]
        /\ UNCHANGED <<rowVars, taskVars, batch, loaded, workerVars, boundVars,
                       failures, handled, missing, overtaken>>
    BY <1>9 DEF SendReturns, SendRaises, Outcomes
  <2> QED
    BY <2>1, <2>2, <2>3 DEF TypeOK, Shape
<1>10. ASSUME NEW d \in Dispatchers, Advance(d) \/ Drop(d)
       PROVE  /\ pc' \in [Dispatchers -> {"idle", "send", "get", "put"}]
              /\ batch' \in [Dispatchers -> SUBSET Rows]
              /\ outcome' \in [Dispatchers -> Outcomes]
              /\ loaded' \in [Dispatchers -> Loads]
              /\ Shape'
  <2>1. CASE Advance(d)
    BY <2>1 DEF TypeOK, Shape, Advance, Outcomes
  <2>2. CASE Drop(d)
    BY <2>2 DEF TypeOK, Shape, Drop, Outcomes
  <2> QED
    BY <1>10, <2>1, <2>2
<1>11. ASSUME NEW d \in Dispatchers, Record(d) PROVE TypeOK' /\ Shape'
  <2>1. Current(d) \in Rows /\ Current(d) \in batch[d]
    BY <1>11, CurrentInBatch DEF Shape, Record, Get, PutGone, PutPublished, PutFailed, PutReset
  <2> DEFINE r == Current(d)
  <2>2. status[r] \in Statuses /\ retry[r] \in Nat /\ loaded[d].retry \in Nat
    BY <2>1 DEF TypeOK, Loads
  <2> HIDE DEF r
  <2>3. CASE Get(d)
    <3>1. CASE Advance(d) /\ UNCHANGED <<rowVars, taskVars, queue, workerVars, boundVars, historyVars>>
      BY <1>10, <3>1 DEF TypeOK
    <3>2. CASE /\ loaded' = [loaded EXCEPT ![d] = [status |-> status[r], retry |-> retry[r]]]
               /\ pc' = [pc EXCEPT ![d] = "put"]
               /\ UNCHANGED <<batch, outcome>>
               /\ UNCHANGED <<rowVars, taskVars, queue, workerVars, boundVars, historyVars>>
      <4>1. [status |-> status[r], retry |-> retry[r]] \in Loads
        BY <2>2 DEF Loads
      <4>2. pc[d] = "get"
        BY <2>3 DEF Get
      <4> QED
        BY <3>2, <4>1, <4>2 DEF TypeOK, Shape
    <3> QED
      BY <2>3, <3>1, <3>2 DEF Get, r
  <2>4. CASE PutGone(d)
    BY <1>10, <2>4 DEF TypeOK, PutGone
  <2>5. CASE PutPublished(d)
    <3>1. Written(loaded[d].status, "published", status[r]) \in Statuses
      BY <2>2, WrittenType DEF Statuses
    <3> QED
      BY <1>10, <2>1, <2>5, <3>1 DEF TypeOK, PutPublished, r
  <2>6. CASE PutFailed(d)
    <3>1. FailureStatus(loaded[d].retry + 1) \in Statuses
      BY DEF FailureStatus, Statuses, Live
    <3>2. Written(loaded[d].status, FailureStatus(loaded[d].retry + 1), status[r]) \in Statuses
      BY <2>2, <3>1, WrittenType
    <3>3. /\ status' \in [Rows -> Statuses] /\ retry' \in [Rows -> Nat]
          /\ due' \in [Rows -> BOOLEAN] /\ failures' \in [Rows -> Nat]
      BY <2>1, <2>2, <2>6, <3>2 DEF TypeOK, PutFailed, r
    <3> QED
      BY <1>10, <2>6, <3>3 DEF TypeOK, PutFailed
  <2>7. CASE PutReset(d)
    <3>1. /\ Written(loaded[d].status, "pending", status[r]) \in Statuses
          /\ Written(loaded[d].retry, 0, retry[r]) \in Nat
      BY <2>2, WrittenType DEF Statuses, Live
    <3> QED
      BY <1>10, <2>1, <2>7, <3>1 DEF TypeOK, PutReset, r
  <2> QED
    BY <1>11, <2>3, <2>4, <2>5, <2>6, <2>7 DEF Record
<1>12. ASSUME NEW d \in Dispatchers, Crash(d) PROVE TypeOK' /\ Shape'
  BY <1>10, <1>12 DEF TypeOK, Crash
<1>13. ASSUME NEW w \in Workers, NEW r \in Rows, Take(w, r) PROVE TypeOK' /\ Shape'
  BY <1>13 DEF TypeOK, Shape, Take
<1>14. ASSUME NEW w \in Workers, Ack(w)
       PROVE  /\ wpc' \in [Workers -> {"idle", "run", "get", "put"}]
              /\ wrow' \in [Workers -> SUBSET Rows] /\ wloaded' \in [Workers -> Statuses]
              /\ handled' \in [Rows -> BOOLEAN]
  BY <1>14 DEF TypeOK, Ack, Statuses
<1>15. ASSUME NEW w \in Workers, Handle(w) PROVE TypeOK' /\ Shape'
  <2>1. CASE Finish(w)
    BY <1>14, <2>1 DEF TypeOK, Shape, Finish
  <2>2. CASE NotFound(w)
    BY <2>2 DEF TypeOK, Shape, NotFound
  <2>3. CASE MarkGet(w)
    BY <1>14, <2>3 DEF TypeOK, Shape, MarkGet
  <2>4. CASE MarkPut(w)
    <3>1. \A q \in Rows : Written(wloaded[w], "dead_letter", status[q]) \in Statuses
      BY ZenonT(30), WrittenType DEF TypeOK, Statuses
    <3>2. status' \in [Rows -> Statuses]
      BY <2>4, <3>1 DEF TypeOK, MarkPut
    <3> QED
      BY <1>14, <2>4, <3>2 DEF TypeOK, Shape, MarkPut
  <2> QED
    BY <1>15, <2>1, <2>2, <2>3, <2>4 DEF Handle
<1>16. ASSUME NEW w \in Workers, MarkLost(w) PROVE TypeOK' /\ Shape'
  BY <1>14, <1>16 DEF TypeOK, Shape, MarkLost
<1>17. ASSUME NEW w \in Workers, Redeliver(w) PROVE TypeOK' /\ Shape'
  BY <1>17 DEF TypeOK, Shape, Redeliver, Statuses
<1>18. CASE UNCHANGED vars
  BY <1>18 DEF TypeOK, Shape, vars
<1> QED
  BY <1>1, <1>2, <1>3, <1>4, <1>6, <1>7, <1>8, <1>9, <1>11, <1>12, <1>13, <1>15, <1>16,
     <1>17, <1>18 DEF Next

(* Every variable keeps its type, and a dispatcher its shape. *)
LEMMA TypeKept == Spec => []TInv
  BY TypeInit, TypeStep, PTL DEF Spec

(* Rows, dispatchers and workers only ever have the statuses and program   *)
(* points the code gives them, and retry_count stays a natural number.     *)
THEOREM TypeCorrect == Spec => []TypeOK
<1>1. TInv => TypeOK
  BY DEF TInv
<1> QED
  BY <1>1, TypeKept, PTL

(* A dispatcher whose batch stays the same turns to the same row. *)
LEMMA CurrentSame ==
    ASSUME NEW d \in Dispatchers, batch'[d] = batch[d]
    PROVE  Current(d)' = Current(d)
  BY DEF Current

----------------------------------------------------------------------------
(* PublishedWasSent is not inductive: a dispatcher about to record a send  *)
(* as published, and a cleanup about to delete a row, must know it sent.   *)
SentInv ==
    /\ PublishedWasSent
    /\ \A r \in Rows : doomed[r] => sent[r]
    /\ \A d \in Dispatchers :
        pc[d] \in {"get", "put"} /\ outcome[d] = "published" => sent[Current(d)]

(* Every step keeps SentInv. *)
LEMMA SentStep == TInv /\ TInv' /\ SentInv /\ [Next]_vars => SentInv'
<1> SUFFICES ASSUME TypeOK, Shape, TypeOK', Shape', SentInv, [Next]_vars
             PROVE  SentInv'
  BY DEF TInv
<1> USE DEF SentInv, PublishedWasSent, rowVars, taskVars, dispatchVars, workerVars, boundVars, historyVars
<1>1. ASSUME UNCHANGED dispatchVars,
             \A r \in Rows : status'[r] \in {"published", "deleted"}
                                  => status[r] \in {"published", "deleted"} \/ sent[r],
             \A r \in Rows : doomed'[r] => doomed[r] \/ status[r] = "published",
             \A r \in Rows : sent[r] => sent'[r]
      PROVE  SentInv'
  <2>1. ASSUME NEW d \in Dispatchers PROVE Current(d)' = Current(d)
    BY <1>1, CurrentSame
  <2>2. ASSUME NEW d \in Dispatchers, pc[d] \in {"get", "put"} PROVE Current(d) \in Rows
    BY <2>2, CurrentInBatch DEF Shape
  <2> QED
    BY <1>1, <2>1, <2>2
<1>2. ASSUME NEW r \in Rows, Ingest(r) \/ LoseKick(r) \/ TimePasses(r)
                             \/ CleanupSelect(r) \/ CleanupDelete(r)
      PROVE  SentInv'
  <2>1. ASSUME CleanupDelete(r), NEW q \in Rows, status'[q] \in {"published", "deleted"}
        PROVE  status[q] \in {"published", "deleted"} \/ sent[q]
    BY <2>1 DEF TypeOK, CleanupDelete
  <2> QED
    BY <1>1, <1>2, <2>1 DEF TypeOK, Ingest, LoseKick, TimePasses, CleanupSelect, CleanupDelete
<1>3. ASSUME NEW w \in Workers, \/ \E r \in Rows : Take(w, r)
                                \/ Handle(w) \/ MarkLost(w) \/ Redeliver(w)
      PROVE  SentInv'
  <2>1. CASE MarkPut(w)
    BY <1>1, <2>1 DEF TypeOK, MarkPut, Written
  <2>2. CASE ~MarkPut(w)
    BY <1>1, <1>3, <2>2 DEF Take, Handle, Finish, NotFound, MarkGet, MarkLost, Redeliver
  <2> QED
    BY <2>1, <2>2
<1>4. ASSUME NEW d \in Dispatchers,
             \A e \in Dispatchers \ {d} : /\ pc'[e] = pc[e] /\ outcome'[e] = outcome[e]
                                         /\ batch'[e] = batch[e],
             \A r \in Rows : sent[r] => sent'[r],
             \A r \in Rows : status'[r] \in {"published", "deleted"}
                                  => status[r] \in {"published", "deleted"} \/ sent[r],
             UNCHANGED doomed,
             pc'[d] \in {"get", "put"} /\ outcome'[d] = "published" => sent'[Current(d)']
      PROVE  SentInv'
  <2>1. ASSUME NEW e \in Dispatchers \ {d} PROVE Current(e)' = Current(e)
    BY <1>4, CurrentSame
  <2>2. ASSUME NEW e \in Dispatchers, pc[e] \in {"get", "put"} PROVE Current(e) \in Rows
    BY <2>2, CurrentInBatch DEF Shape
  <2> QED
    BY <1>4, <2>1, <2>2
<1>5. ASSUME NEW d \in Dispatchers, NEW S \in SUBSET Rows, Claim(d, S), UNCHANGED <<sent, doomed>>
      PROVE  SentInv'
  BY SMTT(30), <1>4, <1>5 DEF TypeOK, Shape, Claim
<1>6. ASSUME NEW d \in Dispatchers, NEW r \in Rows, TryPublish(d, r) PROVE SentInv'
  BY <1>1, <1>5, <1>6 DEF TryPublish
<1>7. ASSUME NEW d \in Dispatchers, Relay(d) PROVE SentInv'
  <2>1. Oldest(Relayable, BatchSize) \subseteq Rows
    BY DEF Oldest, Relayable
  <2> QED
    BY <1>5, <1>7, <2>1 DEF Relay
<1>8. ASSUME NEW d \in Dispatchers, NEW r \in Rows, ManualRetry(d, r) PROVE SentInv'
  BY <1>4, <1>8 DEF TypeOK, ManualRetry
<1>9. ASSUME NEW d \in Dispatchers, SendReturns(d) \/ SendRaises(d) PROVE SentInv'
  <2>1. pc[d] = "send" /\ Current(d) \in Rows /\ Current(d)' = Current(d)
    BY <1>9, CurrentInBatch, CurrentSame DEF Shape, SendReturns, SendRaises
  <2>2. \A q \in Rows : sent[q] => sent'[q]
    BY <1>9, <2>1 DEF TypeOK, SendReturns, SendRaises, Enqueue
  <2>3. outcome'[d] = "published" => sent'[Current(d)']
    BY <1>9, <2>1 DEF TypeOK, SendReturns, SendRaises, Enqueue
  <2> QED
    BY <1>4, <1>9, <2>2, <2>3 DEF TypeOK, SendReturns, SendRaises
<1>10. ASSUME NEW d \in Dispatchers, Record(d) PROVE SentInv'
  <2>1. Current(d) \in Rows /\ Current(d) \in batch[d]
    BY <1>10, CurrentInBatch DEF Shape, Record, Get, PutGone, PutPublished, PutFailed, PutReset
  <2>2. Advance(d) \/ Drop(d) => ~(pc'[d] \in {"get", "put"})
    BY DEF TypeOK, Advance, Drop
  <2>3. CASE Get(d)
    <3>1. CASE Advance(d)
      BY <1>4, <2>2, <2>3, <3>1 DEF TypeOK, Get, Advance
    <3>2. CASE UNCHANGED <<batch, outcome>>
      <4>1. Current(d)' = Current(d)
        BY <3>2, CurrentSame
      <4> QED
        BY <1>4, <2>3, <3>1, <3>2, <4>1 DEF TypeOK, Get
    <3> QED
      BY <2>3, <3>1, <3>2 DEF Get
  <2>4. CASE PutGone(d)
    BY <1>4, <2>2, <2>4 DEF TypeOK, PutGone, Drop
  <2>5. CASE PutPublished(d)
    BY <1>4, <2>1, <2>2, <2>5 DEF TypeOK, PutPublished, Advance, Written
  <2>6. CASE PutFailed(d)
    BY <1>4, <2>1, <2>2, <2>6 DEF TypeOK, PutFailed, Advance, Written, FailureStatus
  <2>7. CASE PutReset(d)
    BY <1>4, <2>1, <2>2, <2>7 DEF TypeOK, PutReset, Advance, Written
  <2> QED
    BY <1>10, <2>3, <2>4, <2>5, <2>6, <2>7 DEF Record
<1>11. ASSUME NEW d \in Dispatchers, Crash(d) PROVE SentInv'
  BY <1>4, <1>11 DEF TypeOK, Crash, Drop
<1>12. CASE UNCHANGED vars
  BY <1>1, <1>12 DEF vars
<1> QED
  BY <1>2, <1>3, <1>6, <1>7, <1>8, <1>9, <1>10, <1>11, <1>12 DEF Next

(* A row is recorded as published, and may be deleted, only after the      *)
(* broker has accepted a message of it.                                    *)
THEOREM PublishedOnlyIfSent == Spec => []PublishedWasSent
<1>1. Init => SentInv
  BY DEF Init, SentInv, PublishedWasSent
<1>2. SentInv => PublishedWasSent
  BY DEF SentInv
<1> QED
  BY <1>1, <1>2, TypeKept, SentStep, PTL DEF Spec

----------------------------------------------------------------------------
(* DeadLetterEarned: retry_count never exceeds the failures recorded, not  *)
(* even the value an unlocked transaction has loaded, and a worker marks a *)
(* row only after it met the missing product.                              *)
EarnedInv ==
    /\ DeadLetterEarned
    /\ \A r \in Rows : retry[r] <= failures[r]
    /\ \A d \in Dispatchers : pc[d] = "put" => loaded[d].retry <= failures[Current(d)]
    /\ \A w \in Workers : wpc[w] \in {"get", "put"} => \A r \in wrow[w] : missing[r]

(* Every step keeps EarnedInv. *)
LEMMA EarnedStep == TInv /\ TInv' /\ EarnedInv /\ [Next]_vars => EarnedInv'
<1> SUFFICES ASSUME TypeOK, Shape, TypeOK', Shape', EarnedInv, [Next]_vars
             PROVE  EarnedInv'
  BY DEF TInv
<1> USE OutboxAssumption DEF EarnedInv, DeadLetterEarned, rowVars, taskVars, dispatchVars, workerVars,
                             boundVars, historyVars
<1> DEFINE Grows == \A r \in Rows : failures[r] <= failures'[r] /\ (missing[r] => missing'[r])
           Justified == \A r \in Rows : status'[r] = "dead_letter" =>
                          \/ status[r] = "dead_letter" \/ r \notin Routed
                          \/ missing'[r] \/ failures'[r] >= MaxRetries
           WorkersOK == \A w \in Workers : wpc'[w] \in {"get", "put"} =>
                          \A r \in wrow'[w] : missing'[r]
(* Steps that leave the dispatchers alone. *)
<1>1. ASSUME UNCHANGED dispatchVars, UNCHANGED retry, Grows, Justified, WorkersOK
      PROVE  EarnedInv'
  <2>1. ASSUME NEW d \in Dispatchers, pc'[d] = "put"
        PROVE  loaded'[d].retry <= failures'[Current(d)']
    <3>1. Current(d)' = Current(d) /\ Current(d) \in Rows
      BY <1>1, <2>1, CurrentSame, CurrentInBatch DEF Shape
    <3>2. loaded[d].retry \in Nat /\ failures[Current(d)] \in Nat /\ failures'[Current(d)] \in Nat
      BY <3>1 DEF TypeOK, Loads
    <3>3. loaded[d].retry <= failures[Current(d)] /\ loaded'[d] = loaded[d]
      BY <1>1, <2>1
    <3>4. failures[Current(d)] <= failures'[Current(d)]
      BY <1>1, <3>1
    <3> HIDE DEF EarnedInv
    <3> QED
      BY <3>1, <3>2, <3>3, <3>4
  <2>2. ASSUME NEW r \in Rows
        PROVE  /\ retry'[r] <= failures'[r]
               /\ status'[r] = "dead_letter" =>
                     r \notin Routed \/ missing'[r] \/ failures'[r] >= MaxRetries
    BY <1>1, <2>2 DEF TypeOK
  <2> QED
    BY <1>1, <2>1, <2>2
(* Steps of one dispatcher. *)
<1>2. ASSUME NEW d \in Dispatchers,
             \A e \in Dispatchers \ {d} : /\ pc'[e] = pc[e] /\ loaded'[e] = loaded[e]
                                         /\ batch'[e] = batch[e],
             \A r \in Rows : retry'[r] <= failures'[r],
             pc'[d] = "put" => loaded'[d].retry <= failures'[Current(d)'],
             Grows, Justified, UNCHANGED <<workerVars, missing>>
      PROVE  EarnedInv'
  <2>1. ASSUME NEW e \in Dispatchers \ {d}, pc'[e] = "put"
        PROVE  loaded'[e].retry <= failures'[Current(e)']
    <3>1. Current(e)' = Current(e) /\ Current(e) \in Rows
      BY <1>2, <2>1, CurrentSame, CurrentInBatch DEF Shape
    <3>2. loaded[e].retry \in Nat /\ failures[Current(e)] \in Nat /\ failures'[Current(e)] \in Nat
      BY <3>1 DEF TypeOK, Loads
    <3>3. loaded[e].retry <= failures[Current(e)] /\ loaded'[e] = loaded[e]
      BY <1>2, <2>1
    <3>4. failures[Current(e)] <= failures'[Current(e)]
      BY <1>2, <3>1
    <3> HIDE DEF EarnedInv
    <3> QED
      BY <3>1, <3>2, <3>3, <3>4
  <2>2. ASSUME NEW r \in Rows
        PROVE  status'[r] = "dead_letter" =>
                     r \notin Routed \/ missing'[r] \/ failures'[r] >= MaxRetries
    BY <1>2, <2>2 DEF TypeOK
  <2> QED
    BY <1>2, <2>1, <2>2
<1>3. ASSUME NEW r \in Rows, Ingest(r) \/ LoseKick(r) \/ TimePasses(r)
                             \/ CleanupSelect(r) \/ CleanupDelete(r)
      PROVE  EarnedInv'
  <2>1. Grows /\ WorkersOK
    BY <1>3 DEF TypeOK, Ingest, LoseKick, TimePasses, CleanupSelect, CleanupDelete
  <2>2. Justified
    BY <1>3 DEF TypeOK, Ingest, LoseKick, TimePasses, CleanupSelect, CleanupDelete
  <2> QED
    BY <1>1, <1>3, <2>1, <2>2 DEF Ingest, LoseKick, TimePasses, CleanupSelect, CleanupDelete
<1>4. ASSUME NEW w \in Workers, \/ \E r \in Rows : Take(w, r)
                                \/ Handle(w) \/ MarkLost(w) \/ Redeliver(w)
      PROVE  EarnedInv'
  <2>1. UNCHANGED dispatchVars /\ UNCHANGED retry /\ UNCHANGED failures
    BY <1>4 DEF Take, Handle, Finish, NotFound, MarkGet, MarkPut, MarkLost, Redeliver
  <2>2. Grows
    BY <1>4, <2>1 DEF TypeOK, Take, Handle, Finish, NotFound, MarkGet, MarkPut, MarkLost, Redeliver
  <2>3. Justified
    <3>1. CASE MarkPut(w)
      BY <3>1 DEF TypeOK, MarkPut, Written
    <3>2. CASE ~MarkPut(w)
      BY <1>4, <3>2 DEF Take, Handle, Finish, NotFound, MarkGet, MarkLost, Redeliver
    <3> QED
      BY <3>1, <3>2
  <2>4. WorkersOK
    <3>1. CASE NotFound(w)
      BY <3>1 DEF TypeOK, NotFound
    <3>2. CASE \E r \in Rows : Take(w, r)
      <4>1. /\ wpc' = [wpc EXCEPT ![w] = "run"] /\ UNCHANGED missing
            /\ \A v \in Workers \ {w} : wrow'[v] = wrow[v]
        BY <3>2 DEF TypeOK, Take
      <4> QED
        BY <4>1 DEF TypeOK
    <3>3. CASE Finish(w) \/ MarkPut(w) \/ MarkLost(w) \/ Redeliver(w)
      BY <3>3 DEF TypeOK, Finish, MarkPut, MarkLost, Redeliver, Ack
    <3>4. CASE MarkGet(w)
      BY ZenonT(30), <3>4 DEF TypeOK, MarkGet, Ack
    <3> QED
      BY <1>4, <3>1, <3>2, <3>3, <3>4 DEF Handle
  <2> QED
    BY <1>1, <2>1, <2>2, <2>3, <2>4
<1>5. ASSUME NEW d \in Dispatchers, NEW S \in SUBSET Rows, Claim(d, S),
             UNCHANGED <<workerVars, historyVars>>
      PROVE  EarnedInv'
  <2>1. Grows /\ Justified
    BY <1>5 DEF TypeOK, Claim
  <2>2. \A r \in Rows : retry'[r] <= failures'[r]
    BY <1>5 DEF Claim
  <2> QED
    BY <1>2, <1>5, <2>1, <2>2 DEF TypeOK, Claim
<1>6. ASSUME NEW d \in Dispatchers, NEW r \in Rows, TryPublish(d, r) PROVE EarnedInv'
  <2>1. CASE Claim(d, {r})
    BY <1>5, <1>6, <2>1 DEF TryPublish
  <2>2. CASE UNCHANGED <<rowVars, dispatchVars>>
    <3>1. Grows /\ Justified /\ WorkersOK
      BY <1>6, <2>2 DEF TypeOK, TryPublish
    <3> QED
      BY <1>1, <2>2, <3>1
  <2> QED
    BY <1>6, <2>1, <2>2 DEF TryPublish
<1>7. ASSUME NEW d \in Dispatchers, Relay(d) PROVE EarnedInv'
  <2>1. Oldest(Relayable, BatchSize) \subseteq Rows
    BY DEF Oldest, Relayable
  <2> QED
    BY <1>5, <1>7, <2>1 DEF Relay
<1>8. ASSUME NEW d \in Dispatchers,
             \/ \E r \in Rows : ManualRetry(d, r)
             \/ SendReturns(d) \/ SendRaises(d) \/ Crash(d)
      PROVE  EarnedInv'
  <2>1. UNCHANGED <<rowVars, failures, missing, workerVars>> /\ pc'[d] # "put"
    BY <1>8 DEF TypeOK, ManualRetry, SendReturns, SendRaises, Crash, Drop
  <2>2. \A e \in Dispatchers \ {d} : /\ pc'[e] = pc[e] /\ loaded'[e] = loaded[e]
                                     /\ batch'[e] = batch[e]
    BY <1>8 DEF TypeOK, ManualRetry, SendReturns, SendRaises, Crash, Drop
  <2>3. Grows /\ Justified
    BY <2>1 DEF TypeOK
  <2>4. \A q \in Rows : retry'[q] <= failures'[q]
    BY <2>1
  <2> QED
    BY <1>2, <2>1, <2>2, <2>3, <2>4
<1>9. ASSUME NEW d \in Dispatchers, Record(d) PROVE EarnedInv'
  <2> DEFINE r == Current(d)
  <2>1. r \in Rows /\ r \in batch[d]
    BY <1>9, CurrentInBatch DEF Shape, Record, Get, PutGone, PutPublished, PutFailed, PutReset
  <2>2. UNCHANGED <<workerVars, missing>>
    BY <1>9 DEF Record, Get, PutGone, PutPublished, PutFailed, PutReset
  <2>3. \A e \in Dispatchers \ {d} : /\ pc'[e] = pc[e] /\ loaded'[e] = loaded[e]
                                     /\ batch'[e] = batch[e]
    BY <1>9 DEF TypeOK, Record, Get, PutGone, PutPublished, PutFailed, PutReset, Advance, Drop
  <2>4. Advance(d) \/ Drop(d) => pc'[d] # "put"
    BY DEF TypeOK, Advance, Drop
  <2>5. loaded[d].retry \in Nat /\ retry \in [Rows -> Nat] /\ failures \in [Rows -> Nat]
    BY DEF TypeOK, Loads
  <2>6. CASE Get(d)
    <3>1. Grows /\ Justified /\ UNCHANGED <<retry, failures>>
      BY <2>2, <2>5, <2>6 DEF Get
    <3>2. pc'[d] = "put" => loaded'[d].retry <= failures'[Current(d)']
      <4>1. CASE Advance(d)
        BY <2>4, <4>1
      <4>2. CASE UNCHANGED batch /\ loaded' = [loaded EXCEPT ![d] = [status |-> status[r], retry |-> retry[r]]]
        <5>1. Current(d)' = r
          BY <4>2, CurrentSame
        <5>2. loaded'[d].retry = retry[r]
          BY <4>2 DEF TypeOK
        <5> QED
          BY <2>1, <3>1, <5>1, <5>2
      <4> QED
        BY <2>6, <4>1, <4>2 DEF Get
    <3> QED
      BY <1>2, <2>2, <2>3, <3>1, <3>2
  <2>7. CASE PutGone(d)
    <3>1. UNCHANGED <<status, retry, failures>>
      BY <2>7 DEF PutGone
    <3>2. Grows /\ Justified
      BY <2>2, <2>5, <3>1
    <3> QED
      BY <1>2, <2>2, <2>3, <2>4, <2>7, <3>1, <3>2 DEF PutGone
  <2>8. CASE PutPublished(d)
    <3>1. Grows /\ Justified /\ UNCHANGED <<retry, failures>>
      BY <2>1, <2>2, <2>5, <2>8 DEF TypeOK, PutPublished, Written
    <3> QED
      BY <1>2, <2>2, <2>3, <2>4, <2>8, <3>1 DEF PutPublished
  <2>9. CASE PutFailed(d)
    <3>1. /\ failures' = [failures EXCEPT ![r] = @ + 1]
          /\ retry' = [retry EXCEPT ![r] = loaded[d].retry + 1]
          /\ status' = [status EXCEPT ![r] =
                          Written(loaded[d].status, FailureStatus(loaded[d].retry + 1), @)]
          /\ loaded[d].retry <= failures[r]
      BY <2>9 DEF PutFailed
    <3>2. Grows
      BY <2>1, <2>2, <2>5, <3>1
    <3>3. ASSUME NEW q \in Rows PROVE retry'[q] <= failures'[q]
      <4>1. failures[q] \in Nat /\ retry[q] \in Nat /\ retry[q] <= failures[q]
        BY <2>5
      <4>2. CASE q = r
        <5>1. retry'[q] = loaded[d].retry + 1 /\ failures'[q] = failures[r] + 1
          BY <2>5, <3>1, <4>2
        <5>2. failures[r] \in Nat /\ loaded[d].retry <= failures[r]
          BY <2>1, <2>5, <3>1
        <5> QED
          BY <2>5, <5>1, <5>2
      <4>3. CASE q # r
        <5>1. retry'[q] = retry[q] /\ failures'[q] = failures[q]
          BY <2>5, <3>1, <4>3
        <5> QED
          BY <4>1, <5>1
      <4> QED
        BY <4>2, <4>3
    <3>4. Justified
      <4>1. FailureStatus(loaded[d].retry + 1) = "dead_letter" => failures'[r] >= MaxRetries
        <5>1. failures'[r] = failures[r] + 1 /\ failures[r] \in Nat
          BY <2>1, <2>5, <3>1
        <5>2. ASSUME loaded[d].retry + 1 >= MaxRetries PROVE failures'[r] >= MaxRetries
          BY <2>5, <3>1, <5>1, <5>2
        <5> QED
          BY <5>2 DEF FailureStatus
      <4>2. ASSUME NEW q \in Rows, status'[q] = "dead_letter", status[q] # "dead_letter"
            PROVE  failures'[q] >= MaxRetries
        BY <3>1, <4>1, <4>2 DEF TypeOK, Written
      <4> QED
        BY <4>2
    <3> QED
      BY <1>2, <2>2, <2>3, <2>4, <2>9, <3>2, <3>3, <3>4 DEF PutFailed
  <2>10. CASE PutReset(d)
    <3>1. Grows /\ Justified
      BY <2>1, <2>2, <2>5, <2>10 DEF TypeOK, PutReset, Written
    <3>2. \A q \in Rows : retry'[q] <= failures'[q]
      BY <2>1, <2>5, <2>10 DEF PutReset, Written
    <3> QED
      BY <1>2, <2>2, <2>3, <2>4, <2>10, <3>1, <3>2 DEF PutReset
  <2> QED
    BY <1>9, <2>6, <2>7, <2>8, <2>9, <2>10 DEF Record
<1>10. CASE UNCHANGED vars
  BY <1>1, <1>10 DEF vars, TypeOK
<1> HIDE DEF EarnedInv
<1> QED
  BY <1>3, <1>4, <1>6, <1>7, <1>8, <1>9, <1>10 DEF Next

(* A row is dead-lettered only if it has no queue, names a missing product *)
(* or has used up its retries, lost updates of retry_count included.       *)
THEOREM DeadLetterOnlyIfEarned == Spec => []DeadLetterEarned
<1>1. Init => EarnedInv
  BY OutboxAssumption DEF Init, EarnedInv, DeadLetterEarned, NoLoad
<1>2. EarnedInv => DeadLetterEarned
  BY DEF EarnedInv
<1> QED
  BY <1>1, <1>2, TypeKept, EarnedStep, PTL DEF Spec

----------------------------------------------------------------------------
(* SingleSender and RetryBudgetKept, together: a row in a dispatcher's     *)
(* hands stays "processing" under its lease, or dead-lettered by a worker, *)
(* so no query selects it, and what _record_failure has loaded stays true  *)
(* until it commits.                                                       *)
Held(r) == (status[r] = "processing" /\ ~due[r]) \/ status[r] = "dead_letter"

LoadKept(d) ==
    pc[d] = "put" /\ outcome[d] = "failed" /\ ~overtaken[Current(d)] =>
        /\ loaded[d].retry = retry[Current(d)]
        /\ loaded[d].status = "dead_letter" => status[Current(d)] = "dead_letter"

NewRowsFree ==
    \A r \in Rows : status[r] = "new" =>
        retry[r] = 0 /\ \A d \in Dispatchers : r \notin batch[d]

HeldRows == \A d \in Dispatchers, r \in Rows : Holds(d, r) /\ ~overtaken[r] => Held(r)

ClaimInv ==
    /\ SingleSender
    /\ RetryBudgetKept
    /\ HeldRows
    /\ NewRowsFree
    /\ \A d \in Dispatchers : LoadKept(d)

(* A step that leaves the dispatchers and the retry counts alone keeps the *)
(* invariant if it neither releases a held row nor revives a spent one.    *)
LEMMA ClaimFrame ==
    ASSUME TypeOK, Shape, TypeOK', ClaimInv,
           UNCHANGED dispatchVars, UNCHANGED <<retry, failures>>,
           \A r \in Rows : overtaken[r] => overtaken'[r],
           \A r \in Rows : ~overtaken'[r] =>
               /\ \/ \A d \in Dispatchers : ~Holds(d, r)
                  \/ /\ Held(r) => Held(r)'
                     /\ status[r] = "dead_letter" => status'[r] = "dead_letter"
               /\ status'[r] \in Live => status[r] \in Live \union {"new"},
           \A r \in Rows : status'[r] = "new" => status[r] = "new"
    PROVE  ClaimInv'
<1>1. ASSUME NEW d \in Dispatchers, NEW r \in Rows PROVE Holds(d, r)' <=> Holds(d, r)
  BY DEF Holds, dispatchVars
<1>2. SingleSender'
  BY <1>1 DEF ClaimInv, SingleSender
<1>3. HeldRows'
  BY <1>1 DEF ClaimInv, HeldRows
<1>4. NewRowsFree'
  BY DEF ClaimInv, NewRowsFree, dispatchVars
<1>5. RetryBudgetKept'
  <2>1. ASSUME NEW r \in Rows, ~overtaken'[r]
        PROVE  retry'[r] = failures'[r] /\ (status'[r] \in Live => retry'[r] < MaxRetries)
    <3>1. retry[r] = failures[r]
      BY <2>1 DEF ClaimInv, RetryBudgetKept
    <3>2. status[r] \in Live => retry[r] < MaxRetries
      BY <2>1 DEF ClaimInv, RetryBudgetKept
    <3>3. status[r] = "new" => retry[r] < MaxRetries
      BY OutboxAssumption DEF ClaimInv, NewRowsFree
    <3> QED
      BY <2>1, <3>1, <3>2, <3>3
  <2> QED
    BY <2>1 DEF RetryBudgetKept
<1>6. ASSUME NEW d \in Dispatchers PROVE LoadKept(d)'
  <2>1. Current(d)' = Current(d)
    BY CurrentSame DEF dispatchVars
  <2>2. pc[d] = "put" => Current(d) \in Rows /\ Current(d) \in batch[d]
    BY CurrentInBatch DEF Shape
  <2>3. LoadKept(d)
    BY DEF ClaimInv
  <2>4. pc[d] = "put" /\ outcome[d] = "failed" => Holds(d, Current(d))
    BY <2>2 DEF Holds
  <2> QED
    BY <2>1, <2>2, <2>3, <2>4 DEF LoadKept, dispatchVars
<1> QED
  BY <1>2, <1>3, <1>4, <1>5, <1>6 DEF ClaimInv

(* A step of one dispatcher keeps the invariant if it leaves the rows that *)
(* others hold alone and takes only rows nobody holds.                     *)
LEMMA DispatcherFrame ==
    ASSUME TypeOK, Shape, ClaimInv, NEW d \in Dispatchers,
           \A e \in Dispatchers \ {d} : /\ pc'[e] = pc[e] /\ outcome'[e] = outcome[e]
                                       /\ batch'[e] = batch[e] /\ loaded'[e] = loaded[e],
           \A r \in Rows : overtaken[r] => overtaken'[r],
           \A r \in Rows : ~overtaken'[r] /\ Holds(d, r)' =>
               Held(r)' /\ \A e \in Dispatchers \ {d} : ~Holds(e, r),
           \A e \in Dispatchers \ {d}, r \in Rows : ~overtaken'[r] /\ Holds(e, r) =>
               status'[r] = status[r] /\ due'[r] = due[r] /\ retry'[r] = retry[r],
           RetryBudgetKept', NewRowsFree', LoadKept(d)'
    PROVE  ClaimInv'
<1>1. ASSUME NEW e \in Dispatchers \ {d}, NEW r \in Rows PROVE Holds(e, r)' <=> Holds(e, r)
  BY DEF Holds
<1>2. SingleSender'
  BY <1>1 DEF ClaimInv, SingleSender
<1>3. HeldRows'
  <2>1. ASSUME NEW e \in Dispatchers \ {d}, NEW r \in Rows, Holds(e, r)', ~overtaken'[r]
        PROVE  Held(r)'
    BY <1>1, <2>1 DEF ClaimInv, HeldRows, Held
  <2> QED
    BY <2>1 DEF HeldRows
<1>4. ASSUME NEW e \in Dispatchers \ {d} PROVE LoadKept(e)'
  <2> SUFFICES ASSUME pc'[e] = "put", outcome'[e] = "failed", ~overtaken'[Current(e)']
               PROVE  /\ loaded'[e].retry = retry'[Current(e)']
                      /\ loaded'[e].status = "dead_letter" => status'[Current(e)'] = "dead_letter"
    BY DEF LoadKept
  <2>1. Current(e)' = Current(e)
    BY CurrentSame
  <2>2. Current(e) \in Rows /\ Holds(e, Current(e))
    BY CurrentInBatch DEF Shape, Holds
  <2>3. LoadKept(e)
    BY DEF ClaimInv
  <2> QED
    BY <2>1, <2>2, <2>3 DEF LoadKept
<1> QED
  BY <1>2, <1>3, <1>4 DEF ClaimInv

(* Claiming a set of rows the query may select: live, and pending or due.  *)
LEMMA ClaimRows ==
    ASSUME TypeOK, Shape, ClaimInv, NEW d \in Dispatchers, NEW S \in SUBSET Rows,
           pc[d] = "idle", Claim(d, S), UNCHANGED historyVars,
           \A r \in S : status[r] \in Live /\ (status[r] = "pending" \/ due[r])
    PROVE  ClaimInv'
<1>1. /\ status' = [r \in Rows |-> IF r \notin S THEN status[r]
                                   ELSE IF r \in Routed THEN "processing" ELSE "dead_letter"]
      /\ due' = [r \in Rows |-> due[r] /\ r \notin S \intersect Routed]
      /\ batch' = [batch EXCEPT ![d] = S \intersect Routed]
      /\ pc' = [pc EXCEPT ![d] = IF S \intersect Routed = {} THEN "idle" ELSE "send"]
      /\ UNCHANGED <<retry, outcome, loaded>>
  BY DEF Claim
<1>2. outcome[d] = "none" /\ batch[d] = {}
  BY DEF Shape
<1>3. ASSUME NEW r \in S, ~overtaken[r], NEW e \in Dispatchers PROVE ~Holds(e, r)
  BY <1>3 DEF ClaimInv, HeldRows, Held, Live
<1>4. ASSUME NEW r \in Rows, ~overtaken'[r], Holds(d, r)'
      PROVE  Held(r)' /\ \A e \in Dispatchers \ {d} : ~Holds(e, r)
  <2>1. r \in S \intersect Routed
    BY <1>1, <1>4 DEF Holds, TypeOK
  <2> QED
    BY <1>1, <1>3, <1>4, <2>1 DEF Held, historyVars
<1>5. ASSUME NEW e \in Dispatchers \ {d}, NEW r \in Rows, ~overtaken'[r], Holds(e, r)
      PROVE  status'[r] = status[r] /\ due'[r] = due[r] /\ retry'[r] = retry[r]
  <2>1. r \notin S
    BY <1>3, <1>5 DEF historyVars
  <2> QED
    BY <1>1, <2>1 DEF TypeOK
<1>6. RetryBudgetKept'
  <2>1. ASSUME NEW r \in Rows, ~overtaken'[r]
        PROVE  retry'[r] = failures'[r] /\ (status'[r] \in Live => retry'[r] < MaxRetries)
    <3>1. retry[r] = failures[r] /\ (status[r] \in Live => retry[r] < MaxRetries)
      BY <2>1 DEF ClaimInv, RetryBudgetKept, historyVars
    <3>2. status'[r] \in Live => status[r] \in Live
      BY <1>1
    <3> QED
      BY <1>1, <3>1, <3>2 DEF historyVars
  <2> QED
    BY <2>1 DEF RetryBudgetKept
<1>7. NewRowsFree'
  <2>1. ASSUME NEW r \in Rows, status'[r] = "new"
        PROVE  retry'[r] = 0 /\ \A e \in Dispatchers : r \notin batch'[e]
    <3>1. r \notin S /\ status[r] = "new"
      BY <1>1, <2>1
    <3> QED
      BY <1>1, <3>1 DEF ClaimInv, NewRowsFree, TypeOK
  <2> QED
    BY <2>1 DEF NewRowsFree
<1>8. LoadKept(d)'
  BY <1>1 DEF LoadKept, TypeOK
<1>9. \A e \in Dispatchers \ {d} : /\ pc'[e] = pc[e] /\ outcome'[e] = outcome[e]
                                   /\ batch'[e] = batch[e] /\ loaded'[e] = loaded[e]
  BY <1>1 DEF TypeOK
<1>10. \A r \in Rows : overtaken[r] => overtaken'[r]
  BY DEF historyVars
<1> QED
  BY <1>4, <1>5, <1>6, <1>7, <1>8, <1>9, <1>10, DispatcherFrame

(* manual_retry works on one row: its record transaction ends its batch.   *)
ResetAlone == \A d \in Dispatchers : outcome[d] = "reset" => \E r \in Rows : batch[d] = {r}

(* Every step keeps ResetAlone. *)
LEMMA ResetStep == TInv /\ ResetAlone /\ [Next]_vars => ResetAlone'
<1> SUFFICES ASSUME TypeOK, Shape, ResetAlone, [Next]_vars
             PROVE  ResetAlone'
  BY DEF TInv
<1> USE DEF rowVars, taskVars, dispatchVars, workerVars, boundVars, historyVars
<1>1. ASSUME \A d \in Dispatchers : outcome'[d] = "reset" =>
                 \/ outcome[d] = "reset" /\ batch'[d] = batch[d]
                 \/ \E r \in Rows : batch'[d] = {r}
      PROVE  ResetAlone'
  BY <1>1 DEF ResetAlone
<1>2. ASSUME UNCHANGED dispatchVars PROVE ResetAlone'
  BY <1>2 DEF ResetAlone
<1>3. ASSUME NEW r \in Rows, Ingest(r) \/ LoseKick(r) \/ TimePasses(r)
                             \/ CleanupSelect(r) \/ CleanupDelete(r)
      PROVE  ResetAlone'
  BY <1>2, <1>3 DEF Ingest, LoseKick, TimePasses, CleanupSelect, CleanupDelete
<1>4. ASSUME NEW w \in Workers, \/ \E r \in Rows : Take(w, r)
                                \/ Handle(w) \/ MarkLost(w) \/ Redeliver(w)
      PROVE  ResetAlone'
  BY <1>2, <1>4 DEF Take, Handle, Finish, NotFound, MarkGet, MarkPut, MarkLost, Redeliver
<1>5. ASSUME NEW d \in Dispatchers, NEW S, Claim(d, S), pc[d] = "idle" PROVE ResetAlone'
  BY <1>1, <1>5 DEF Claim, Shape, TypeOK
<1>6. ASSUME NEW d \in Dispatchers, Relay(d) \/ \E r \in Rows : TryPublish(d, r)
      PROVE  ResetAlone'
  BY <1>2, <1>5, <1>6 DEF Relay, TryPublish
<1>7. ASSUME NEW d \in Dispatchers, NEW r \in Rows, ManualRetry(d, r) PROVE ResetAlone'
  BY <1>1, <1>7 DEF ManualRetry, TypeOK
<1>8. ASSUME NEW d \in Dispatchers, SendReturns(d) \/ SendRaises(d) PROVE ResetAlone'
  BY <1>1, <1>8 DEF SendReturns, SendRaises, TypeOK
<1>9. ASSUME NEW d \in Dispatchers, Advance(d) \/ Drop(d) PROVE ResetAlone'
  <2>1. outcome' = [outcome EXCEPT ![d] = "none"]
    BY <1>9 DEF Advance, Drop
  <2>2. \A e \in Dispatchers \ {d} : batch'[e] = batch[e]
    BY <1>9 DEF Advance, Drop, TypeOK
  <2> QED
    BY <1>1, <2>1, <2>2 DEF TypeOK
<1>10. ASSUME NEW d \in Dispatchers, Record(d) \/ Crash(d) PROVE ResetAlone'
  <2>1. CASE Get(d) /\ UNCHANGED <<batch, outcome>>
    BY <2>1 DEF ResetAlone
  <2>2. CASE Advance(d) \/ Drop(d)
    BY <1>9, <2>2
  <2> QED
    BY <1>10, <2>1, <2>2 DEF Record, Get, PutGone, PutPublished, PutFailed, PutReset, Crash
<1>11. CASE UNCHANGED vars
  BY <1>2, <1>11 DEF vars
<1> HIDE DEF ResetAlone
<1> QED
  BY <1>3, <1>4, <1>6, <1>7, <1>8, <1>10, <1>11 DEF Next

(* A row cleanup has selected is in no dispatcher's hands until somebody   *)
(* resets it.                                                              *)
DoomedFree ==
    \A r \in Rows : doomed[r] /\ ~overtaken[r] =>
        /\ status[r] \in {"published", "dead_letter", "deleted"}
        /\ \A d \in Dispatchers : ~Holds(d, r)

(* Every step keeps DoomedFree. *)
LEMMA DoomedStep ==
    TInv /\ ClaimInv /\ ResetAlone /\ DoomedFree /\ [Next]_vars => DoomedFree'
<1> SUFFICES ASSUME TypeOK, Shape, ClaimInv, ResetAlone, DoomedFree, [Next]_vars
             PROVE  DoomedFree'
  BY DEF TInv
<1> USE DEF rowVars, taskVars, dispatchVars, workerVars, boundVars, historyVars
<1>1. ASSUME \A r \in Rows : doomed'[r] /\ ~overtaken'[r] =>
                 /\ doomed[r] /\ ~overtaken[r]
                 /\ status'[r] \in {status[r], "dead_letter", "deleted"}
                 /\ \A d \in Dispatchers : Holds(d, r)' => Holds(d, r)
      PROVE  DoomedFree'
  BY <1>1 DEF DoomedFree
<1>2. ASSUME UNCHANGED <<batch, outcome, doomed>>,
             \A r \in Rows : overtaken[r] => overtaken'[r],
             \A r \in Rows : \/ status'[r] \in {status[r], "dead_letter", "deleted"}
                             \/ status[r] = "new"
      PROVE  DoomedFree'
  BY <1>2 DEF DoomedFree, Holds
<1>3. ASSUME NEW r \in Rows, Ingest(r) \/ LoseKick(r) \/ TimePasses(r) PROVE DoomedFree'
  BY <1>2, <1>3 DEF TypeOK, Ingest, LoseKick, TimePasses
<1>4. ASSUME NEW r \in Rows, CleanupSelect(r) PROVE DoomedFree'
  <2>1. ~overtaken[r] => \A d \in Dispatchers : ~Holds(d, r)
    BY <1>4 DEF CleanupSelect, ClaimInv, HeldRows, Held
  <2>2. \A q \in Rows : doomed'[q] => doomed[q] \/ q = r
    BY <1>4 DEF CleanupSelect, TypeOK
  <2>3. status[r] = "published" /\ UNCHANGED <<status, batch, outcome, overtaken>>
    BY <1>4 DEF CleanupSelect
  <2> QED
    BY <2>1, <2>2, <2>3 DEF DoomedFree, Holds
<1>5. ASSUME NEW r \in Rows, CleanupDelete(r) PROVE DoomedFree'
  <2>1. \A q \in Rows : /\ doomed'[q] => doomed[q]
                        /\ status'[q] \in {status[q], "deleted"}
    BY <1>5 DEF CleanupDelete, TypeOK
  <2>2. UNCHANGED <<batch, outcome, overtaken>>
    BY <1>5 DEF CleanupDelete
  <2> QED
    BY <2>1, <2>2 DEF DoomedFree, Holds
<1>6. ASSUME NEW w \in Workers, \/ \E r \in Rows : Take(w, r)
                                \/ Handle(w) \/ MarkLost(w) \/ Redeliver(w)
      PROVE  DoomedFree'
  <2>1. CASE MarkPut(w)
    BY <1>2, <2>1 DEF TypeOK, MarkPut, Written
  <2>2. CASE ~MarkPut(w)
    BY <1>2, <1>6, <2>2 DEF Take, Handle, Finish, NotFound, MarkGet, MarkLost, Redeliver
  <2> QED
    BY <2>1, <2>2
<1>7. ASSUME NEW d \in Dispatchers, NEW S \in SUBSET Rows, Claim(d, S),
             \A r \in S : status[r] \in Live, UNCHANGED <<doomed, overtaken>>
      PROVE  DoomedFree'
  <2>1. ASSUME NEW r \in Rows, doomed'[r], ~overtaken'[r]
        PROVE  /\ status'[r] = status[r]
               /\ \A e \in Dispatchers : Holds(e, r)' => Holds(e, r)
    <3>1. r \notin S
      BY <1>7, <2>1 DEF DoomedFree, Live
    <3> QED
      BY <1>7, <3>1 DEF Claim, TypeOK, Holds
  <2> QED
    BY <1>1, <1>7, <2>1
<1>8. ASSUME NEW d \in Dispatchers, NEW r \in Rows, TryPublish(d, r) PROVE DoomedFree'
  BY <1>2, <1>7, <1>8 DEF TryPublish, Live
<1>9. ASSUME NEW d \in Dispatchers, Relay(d) PROVE DoomedFree'
  <2>1. /\ Oldest(Relayable, BatchSize) \subseteq Rows
        /\ \A r \in Oldest(Relayable, BatchSize) : status[r] \in Live
    BY DEF Oldest, Relayable
  <2> QED
    BY <1>7, <1>9, <2>1 DEF Relay
<1>10. ASSUME NEW d \in Dispatchers, NEW r \in Rows, ManualRetry(d, r) PROVE DoomedFree'
  <2>1. \A e \in Dispatchers, q \in Rows : Holds(e, q)' => Holds(e, q)
    BY <1>10 DEF ManualRetry, TypeOK, Holds
  <2> QED
    BY <1>1, <1>10, <2>1 DEF ManualRetry
<1>11. ASSUME NEW d \in Dispatchers, SendReturns(d) \/ SendRaises(d) PROVE DoomedFree'
  <2>1. outcome[d] = "none" /\ UNCHANGED <<batch, status, doomed, overtaken>>
    BY <1>11 DEF SendReturns, SendRaises, Shape
  <2>2. \A e \in Dispatchers \ {d} : outcome'[e] = outcome[e]
    BY <1>11 DEF SendReturns, SendRaises, TypeOK
  <2>3. \A e \in Dispatchers, q \in Rows : Holds(e, q)' => Holds(e, q)
    BY <2>1, <2>2 DEF Holds
  <2> QED
    BY <1>1, <2>1, <2>3
<1>12. ASSUME NEW d \in Dispatchers, batch[d] # {}, Advance(d) \/ Drop(d), UNCHANGED doomed,
              \A q \in Rows : overtaken[q] => overtaken'[q],
              \A q \in Rows : \/ status'[q] = status[q]
                              \/ q = Current(d) /\ (outcome[d] # "reset" \/ overtaken'[q])
       PROVE  DoomedFree'
  <2>1. Current(d) \in batch[d] /\ Current(d) \in Rows
    BY <1>12, CurrentInBatch
  <2>2. ASSUME NEW q \in Rows, NEW e \in Dispatchers, Holds(e, q)' PROVE Holds(e, q)
    <3>1. CASE e = d
      <4>1. q \in batch[d] \ {Current(d)}
        BY <1>12, <2>2, <3>1 DEF Advance, Drop, TypeOK, Holds
      <4> QED
        BY <2>1, <3>1, <4>1 DEF ResetAlone, Holds
    <3>2. CASE e # d
      BY <1>12, <2>2, <3>2 DEF Advance, Drop, TypeOK, Holds
    <3> QED
      BY <3>1, <3>2
  <2>3. ASSUME NEW q \in Rows, doomed'[q], ~overtaken'[q] PROVE status'[q] = status[q]
    <3>1. ~Holds(d, q)
      BY <1>12, <2>3 DEF DoomedFree
    <3> QED
      BY <1>12, <2>1, <2>3, <3>1 DEF Holds
  <2> QED
    BY <1>1, <1>12, <2>2, <2>3
<1>13. ASSUME NEW d \in Dispatchers, Record(d) PROVE DoomedFree'
  <2>1. pc[d] \in {"get", "put"} /\ batch[d] # {} /\ UNCHANGED doomed
    BY <1>13 DEF Shape, Record, Get, PutGone, PutPublished, PutFailed, PutReset
  <2>2. Current(d) \in Rows
    BY <2>1, CurrentInBatch
  <2>3. \A q \in Rows : overtaken[q] => overtaken'[q]
    BY <1>13, <2>2 DEF TypeOK, Record, Get, PutGone, PutPublished, PutFailed, PutReset
  <2>4. CASE Get(d) \/ PutGone(d)
    <3>1. CASE Advance(d) \/ Drop(d)
      BY <1>12, <2>1, <2>3, <2>4, <3>1 DEF Get, PutGone
    <3>2. CASE UNCHANGED <<batch, outcome>>
      BY <1>2, <2>1, <2>3, <2>4, <3>2 DEF Get, PutGone
    <3> QED
      BY <2>4, <3>1, <3>2 DEF Get, PutGone
  <2>5. CASE PutPublished(d) \/ PutFailed(d)
    <3>1. /\ \A q \in Rows : q # Current(d) => status'[q] = status[q]
          /\ outcome[d] # "reset" /\ Advance(d)
      BY <2>5 DEF PutPublished, PutFailed, TypeOK
    <3> QED
      BY <1>12, <2>1, <2>3, <3>1
  <2>6. CASE PutReset(d)
    <3>1. /\ \A q \in Rows : q # Current(d) => status'[q] = status[q]
          /\ overtaken'[Current(d)] /\ Advance(d)
      BY <2>2, <2>6 DEF PutReset, TypeOK
    <3> QED
      BY <1>12, <2>1, <2>3, <3>1
  <2> QED
    BY <1>13, <2>4, <2>5, <2>6 DEF Record
<1>14. ASSUME NEW d \in Dispatchers, Crash(d) PROVE DoomedFree'
  BY <1>12, <1>14 DEF Crash, Shape
<1>15. CASE UNCHANGED vars
  BY <1>2, <1>15 DEF vars
<1> HIDE DEF DoomedFree
<1> QED
  BY <1>3, <1>4, <1>5, <1>6, <1>8, <1>9, <1>10, <1>11, <1>13, <1>14, <1>15 DEF Next

(* A dispatcher that finishes with its current row, or gives its batch up, *)
(* keeps the invariant if the other rows stay as they are, and the row     *)
(* itself too unless the dispatcher held it.                               *)
LEMMA ClaimRelease ==
    ASSUME TypeOK, Shape, ClaimInv, ResetAlone, NEW d \in Dispatchers,
           batch[d] # {}, Advance(d) \/ Drop(d),
           \A r \in Rows : overtaken[r] => overtaken'[r],
           \A r \in Rows : ~overtaken'[r] /\ (r # Current(d) \/ ~Holds(d, r)) =>
               status'[r] = status[r] /\ due'[r] = due[r] /\ retry'[r] = retry[r],
           RetryBudgetKept',
           \A r \in Rows : status'[r] = "new" => status[r] = "new" /\ retry'[r] = retry[r]
    PROVE  ClaimInv'
<1>1. /\ Current(d) \in batch[d]
      /\ Current(d) \in Rows
  BY CurrentInBatch
<1>2. batch'[d] \subseteq batch[d] \ {Current(d)} /\ pc'[d] # "put"
  BY DEF TypeOK, Advance, Drop
<1>3. \A e \in Dispatchers \ {d} : /\ pc'[e] = pc[e] /\ outcome'[e] = outcome[e]
                                   /\ batch'[e] = batch[e] /\ loaded'[e] = loaded[e]
  BY DEF TypeOK, Advance, Drop
<1>4. ASSUME NEW r \in Rows, Holds(d, r)' PROVE r # Current(d) /\ Holds(d, r)
  <2>1. r \in batch[d] \ {Current(d)}
    BY <1>2, <1>4 DEF Holds
  <2>2. outcome[d] # "reset"
    BY <1>1, <2>1 DEF ResetAlone
  <2> QED
    BY <2>1, <2>2 DEF Holds
<1>5. ASSUME NEW r \in Rows, ~overtaken'[r], Holds(d, r)'
      PROVE  Held(r)' /\ \A e \in Dispatchers \ {d} : ~Holds(e, r)
  <2>1. ~overtaken[r] /\ r # Current(d) /\ Holds(d, r)
    BY <1>4, <1>5
  <2>2. Held(r)
    BY <2>1 DEF ClaimInv, HeldRows
  <2> QED
    BY <1>5, <2>1, <2>2 DEF Held, ClaimInv, SingleSender
<1>6. ASSUME NEW e \in Dispatchers \ {d}, NEW r \in Rows, ~overtaken'[r], Holds(e, r)
      PROVE  status'[r] = status[r] /\ due'[r] = due[r] /\ retry'[r] = retry[r]
  <2>1. ~Holds(d, r)
    BY <1>6 DEF ClaimInv, SingleSender
  <2> QED
    BY <1>6, <2>1
<1>7. NewRowsFree'
  <2>1. ASSUME NEW r \in Rows, status'[r] = "new"
        PROVE  retry'[r] = 0 /\ \A e \in Dispatchers : r \notin batch'[e]
    <3>1. retry[r] = 0 /\ \A e \in Dispatchers : r \notin batch[e]
      BY <2>1 DEF ClaimInv, NewRowsFree
    <3> QED
      BY <1>2, <1>3, <2>1, <3>1
  <2> QED
    BY <2>1 DEF NewRowsFree
<1>8. LoadKept(d)'
  BY <1>2 DEF LoadKept
<1> QED
  BY <1>3, <1>5, <1>6, <1>7, <1>8, DispatcherFrame

(* The steps of the rest of _dispatch, one by one. *)
LEMMA ClaimRecord ==
    ASSUME TypeOK, Shape, TypeOK', ClaimInv, ResetAlone, NEW d \in Dispatchers, Record(d)
    PROVE  ClaimInv'
<1> DEFINE r == Current(d)
<1> USE DEF rowVars, taskVars, historyVars
<1>1. pc[d] \in {"get", "put"} /\ batch[d] # {}
  BY DEF Shape, Record, Get, PutGone, PutPublished, PutFailed, PutReset
<1>2. r \in Rows /\ r \in batch[d]
  BY <1>1, CurrentInBatch
<1>3. status[r] # "new"
  BY <1>2 DEF ClaimInv, NewRowsFree
<1>4. \A q \in Rows : overtaken[q] => overtaken'[q]
  BY <1>2 DEF TypeOK, Record, Get, PutGone, PutPublished, PutFailed, PutReset
<1>5. RetryBudgetKept
  BY DEF ClaimInv
<1> HIDE DEF r
<1>6. ASSUME Advance(d) \/ Drop(d), UNCHANGED <<rowVars, historyVars>> PROVE ClaimInv'
  <2>1. RetryBudgetKept'
    BY <1>5, <1>6 DEF RetryBudgetKept
  <2>2. /\ \A q \in Rows : status'[q] = status[q] /\ due'[q] = due[q] /\ retry'[q] = retry[q]
        /\ \A q \in Rows : overtaken[q] => overtaken'[q]
    BY <1>6
  <2> QED
    BY <1>1, <1>6, <2>1, <2>2, ClaimRelease
<1>7. CASE Get(d) /\ ~Advance(d)
  <2>1. /\ loaded' = [loaded EXCEPT ![d] = [status |-> status[r], retry |-> retry[r]]]
        /\ pc' = [pc EXCEPT ![d] = "put"]
        /\ UNCHANGED <<batch, outcome, rowVars, historyVars>>
    BY <1>7 DEF Get, r
  <2>2. \A e \in Dispatchers \ {d} : /\ pc'[e] = pc[e] /\ outcome'[e] = outcome[e]
                                     /\ batch'[e] = batch[e] /\ loaded'[e] = loaded[e]
    BY <2>1 DEF TypeOK
  <2>3. ASSUME NEW q \in Rows, ~overtaken'[q], Holds(d, q)'
        PROVE  Held(q)' /\ \A e \in Dispatchers \ {d} : ~Holds(e, q)
    <3>1. Holds(d, q) /\ ~overtaken[q]
      BY <2>1, <2>3 DEF Holds
    <3>2. Held(q)
      BY <3>1 DEF ClaimInv, HeldRows
    <3>3. \A e \in Dispatchers \ {d} : ~Holds(e, q)
      BY <3>1 DEF ClaimInv, SingleSender
    <3> QED
      BY <2>1, <3>2, <3>3 DEF Held
  <2>4. Current(d)' = r
    BY <2>1, CurrentSame DEF r
  <2>5. loaded'[d].retry = retry'[r] /\ loaded'[d].status = status'[r]
    BY <2>1 DEF TypeOK
  <2>6. LoadKept(d)'
    BY <2>4, <2>5 DEF LoadKept
  <2>7. RetryBudgetKept' /\ NewRowsFree'
    BY <1>5, <2>1 DEF RetryBudgetKept, ClaimInv, NewRowsFree
  <2> QED
    BY <1>4, <2>1, <2>2, <2>3, <2>6, <2>7, DispatcherFrame
<1>8. CASE Get(d) /\ Advance(d)
  BY <1>6, <1>8 DEF Get
<1>9. CASE PutGone(d)
  BY <1>6, <1>9 DEF PutGone
<1>10. CASE PutPublished(d)
  <2>1. /\ status' = [status EXCEPT ![r] = Written(loaded[d].status, "published", @)]
        /\ Advance(d) /\ UNCHANGED <<retry, due, historyVars>>
        /\ Holds(d, r)
    BY <1>2, <1>10 DEF PutPublished, Holds, r
  <2>2. status'[r] \in {"published", status[r]}
    BY <1>2, <2>1 DEF TypeOK, Written
  <2>3. \A q \in Rows : q # r => status'[q] = status[q]
    BY <2>1 DEF TypeOK
  <2>4. RetryBudgetKept'
    BY <1>5, <2>1, <2>2, <2>3 DEF RetryBudgetKept, Live
  <2>5. \A q \in Rows : status'[q] = "new" => status[q] = "new" /\ retry'[q] = retry[q]
    BY <2>1, <2>2, <2>3
  <2> QED
    BY <1>1, <1>4, <2>1, <2>3, <2>4, <2>5, ClaimRelease DEF r
<1>11. CASE PutFailed(d)
  <2> DEFINE n == loaded[d].retry + 1
  <2>1. /\ status' = [status EXCEPT ![r] = Written(loaded[d].status, FailureStatus(n), @)]
        /\ retry' = [retry EXCEPT ![r] = n]
        /\ due' = [due EXCEPT ![r] = @ /\ FailureStatus(n) = "dead_letter"]
        /\ failures' = [failures EXCEPT ![r] = @ + 1]
        /\ Advance(d) /\ UNCHANGED overtaken
        /\ Holds(d, r) /\ pc[d] = "put" /\ outcome[d] = "failed"
    BY <1>2, <1>11 DEF PutFailed, Holds, r
  <2>2. n \in Nat /\ retry[r] \in Nat /\ loaded[d].retry \in Nat
    BY <1>2 DEF TypeOK, Loads
  <2>3. /\ retry'[r] = n /\ failures'[r] = failures[r] + 1
        /\ status'[r] = Written(loaded[d].status, FailureStatus(n), status[r])
    BY <1>2, <2>1 DEF TypeOK
  <2>4. \A q \in Rows : q # r => /\ status'[q] = status[q] /\ due'[q] = due[q]
                                /\ retry'[q] = retry[q] /\ failures'[q] = failures[q]
    BY <2>1 DEF TypeOK
  <2> HIDE DEF n
  <2>5. ASSUME ~overtaken'[r]
        PROVE  retry'[r] = failures'[r] /\ (status'[r] \in Live => retry'[r] < MaxRetries)
    <3>1. /\ loaded[d].retry = retry[r]
          /\ loaded[d].status = "dead_letter" => status[r] = "dead_letter"
      BY <2>1, <2>5 DEF ClaimInv, LoadKept, r
    <3>2. retry[r] = failures[r]
      BY <1>2, <1>5, <2>1, <2>5 DEF RetryBudgetKept
    <3>3. ASSUME ~(n < MaxRetries) PROVE status'[r] = "dead_letter"
      <4>1. FailureStatus(n) = "dead_letter"
        BY <2>2, <3>3, OutboxAssumption DEF FailureStatus
      <4> QED
        BY <2>3, <3>1, <4>1 DEF Written
    <3>4. retry'[r] = failures'[r]
      BY <2>3, <3>1, <3>2 DEF n
    <3> QED
      BY <2>3, <3>3, <3>4 DEF Live
  <2>6. RetryBudgetKept'
    BY <1>5, <2>1, <2>4, <2>5 DEF RetryBudgetKept
  <2>7. status'[r] # "new"
    BY <1>3, <2>3 DEF Written, FailureStatus
  <2> QED
    BY <1>1, <1>4, <2>1, <2>4, <2>6, <2>7, ClaimRelease DEF r
<1>12. CASE PutReset(d)
  <2>1. /\ status' = [status EXCEPT ![r] = Written(loaded[d].status, "pending", @)]
        /\ retry' = [retry EXCEPT ![r] = Written(loaded[d].retry, 0, @)]
        /\ due' = [due EXCEPT ![r] = TRUE]
        /\ overtaken' = [overtaken EXCEPT ![r] = TRUE]
        /\ Advance(d) /\ UNCHANGED failures
    BY <1>12 DEF PutReset, r
  <2>2. overtaken'[r] /\ status'[r] \in {"pending", status[r]}
    BY <1>2, <2>1 DEF TypeOK, Written
  <2>3. \A q \in Rows : q # r => /\ status'[q] = status[q] /\ due'[q] = due[q]
                                /\ retry'[q] = retry[q] /\ overtaken'[q] = overtaken[q]
    BY <2>1 DEF TypeOK
  <2>4. RetryBudgetKept'
    BY <1>5, <2>1, <2>2, <2>3 DEF RetryBudgetKept
  <2> QED
    BY <1>1, <1>3, <1>4, <2>1, <2>2, <2>3, <2>4, ClaimRelease
<1> QED
  BY <1>7, <1>8, <1>9, <1>10, <1>11, <1>12 DEF Record

(* Every step keeps ClaimInv. *)
LEMMA ClaimStep ==
    TInv /\ TInv' /\ ClaimInv /\ ResetAlone /\ DoomedFree /\ [Next]_vars => ClaimInv'
<1> SUFFICES ASSUME TypeOK, Shape, TypeOK', ClaimInv, ResetAlone, DoomedFree, [Next]_vars
             PROVE  ClaimInv'
  BY DEF TInv
<1> USE DEF rowVars, taskVars, workerVars, boundVars, historyVars
<1>1. ASSUME NEW r \in Rows, Ingest(r) PROVE ClaimInv'
  BY <1>1, ClaimFrame DEF Ingest, Held, Live, TypeOK
<1>2. ASSUME NEW r \in Rows, LoseKick(r) PROVE ClaimInv'
  BY <1>2, ClaimFrame DEF LoseKick, Held
<1>3. ASSUME NEW r \in Rows, TimePasses(r) PROVE ClaimInv'
  BY ZenonT(30), <1>3, ClaimFrame DEF TimePasses, Held, TypeOK
<1>4. ASSUME NEW r \in Rows, CleanupSelect(r) \/ CleanupDelete(r) PROVE ClaimInv'
  <2>1. /\ \A q \in Rows : status'[q] # status[q] => doomed[q] /\ status'[q] = "deleted"
        /\ UNCHANGED <<retry, due, dispatchVars, failures, overtaken>>
    BY <1>4 DEF CleanupSelect, CleanupDelete, TypeOK
  <2>2. ASSUME NEW q \in Rows, ~overtaken'[q], status'[q] # status[q]
        PROVE  \A d \in Dispatchers : ~Holds(d, q)
    BY <2>1, <2>2 DEF DoomedFree
  <2> QED
    BY <2>1, <2>2, ClaimFrame DEF Held, Live
<1>5. ASSUME NEW d \in Dispatchers, NEW r \in Rows, TryPublish(d, r) PROVE ClaimInv'
  <2>1. CASE status[r] = "pending" /\ Claim(d, {r})
    BY <1>5, <2>1, ClaimRows DEF TryPublish, Live
  <2>2. CASE UNCHANGED <<rowVars, dispatchVars>>
    BY <1>5, <2>2, ClaimFrame DEF TryPublish, Held
  <2> QED
    BY <1>5, <2>1, <2>2 DEF TryPublish
<1>6. ASSUME NEW d \in Dispatchers, Relay(d) PROVE ClaimInv'
  <2>1. /\ Oldest(Relayable, BatchSize) \subseteq Relayable
        /\ Relayable \subseteq {r \in Rows : status[r] \in Live /\ due[r]}
    BY DEF Oldest, Relayable
  <2>2. /\ pc[d] = "idle" /\ Claim(d, Oldest(Relayable, BatchSize))
        /\ UNCHANGED historyVars
    BY <1>6 DEF Relay
  <2> HIDE DEF historyVars
  <2> QED
    BY <2>1, <2>2, ClaimRows
<1>7. ASSUME NEW d \in Dispatchers, NEW r \in Rows, ManualRetry(d, r) PROVE ClaimInv'
  <2>1. /\ pc' = [pc EXCEPT ![d] = "get"] /\ batch' = [batch EXCEPT ![d] = {r}]
        /\ outcome' = [outcome EXCEPT ![d] = "reset"] /\ status[r] # "new"
        /\ UNCHANGED <<rowVars, loaded, historyVars>>
    BY <1>7 DEF ManualRetry
  <2>2. \A e \in Dispatchers \ {d} : /\ pc'[e] = pc[e] /\ outcome'[e] = outcome[e]
                                     /\ batch'[e] = batch[e] /\ loaded'[e] = loaded[e]
    BY <2>1 DEF TypeOK
  <2>3. \A q \in Rows : ~Holds(d, q)'
    BY <2>1 DEF Holds, TypeOK
  <2>4. RetryBudgetKept' /\ NewRowsFree'
    BY <2>1 DEF ClaimInv, RetryBudgetKept, NewRowsFree, TypeOK
  <2>5. LoadKept(d)'
    BY <2>1 DEF LoadKept, TypeOK
  <2> QED
    BY <2>1, <2>2, <2>3, <2>4, <2>5, DispatcherFrame
<1>8. ASSUME NEW d \in Dispatchers, SendReturns(d) \/ SendRaises(d) PROVE ClaimInv'
  <2>1. /\ pc[d] = "send" /\ pc' = [pc EXCEPT ![d] = "get"]
        /\ UNCHANGED <<rowVars, batch, loaded, failures, overtaken>>
    BY <1>8 DEF SendReturns, SendRaises
  <2>2. \E o \in {"published", "failed"} : outcome' = [outcome EXCEPT ![d] = o]
    BY <1>8 DEF SendReturns, SendRaises
  <2>3. \A e \in Dispatchers \ {d} : /\ pc'[e] = pc[e] /\ outcome'[e] = outcome[e]
                                     /\ batch'[e] = batch[e] /\ loaded'[e] = loaded[e]
    BY <2>1, <2>2 DEF TypeOK
  <2>4. \A q \in Rows : Holds(d, q)' => Holds(d, q)
    BY <2>1 DEF Holds, Shape
  <2>5. ASSUME NEW q \in Rows, ~overtaken'[q], Holds(d, q)'
        PROVE  Held(q)' /\ \A e \in Dispatchers \ {d} : ~Holds(e, q)
    <3>1. Held(q)
      BY <2>1, <2>4, <2>5 DEF ClaimInv, HeldRows
    <3>2. \A e \in Dispatchers \ {d} : ~Holds(e, q)
      BY <2>1, <2>4, <2>5 DEF ClaimInv, SingleSender
    <3> QED
      BY <2>1, <3>1, <3>2 DEF Held
  <2>6. RetryBudgetKept' /\ NewRowsFree'
    BY <2>1 DEF ClaimInv, RetryBudgetKept, NewRowsFree
  <2>7. LoadKept(d)'
    BY <2>1 DEF LoadKept, TypeOK
  <2> QED
    BY <2>1, <2>3, <2>5, <2>6, <2>7, DispatcherFrame
<1>9. ASSUME NEW d \in Dispatchers, Crash(d) PROVE ClaimInv'
  <2>1. batch[d] # {} /\ Drop(d) /\ UNCHANGED <<rowVars, historyVars>>
    BY <1>9 DEF Crash, Shape
  <2>2. RetryBudgetKept'
    BY <2>1 DEF ClaimInv, RetryBudgetKept
  <2> QED
    BY <2>1, <2>2, ClaimRelease
<1>10. ASSUME NEW w \in Workers, MarkPut(w) PROVE ClaimInv'
  <2>1. /\ \A r \in Rows : \/ status'[r] = status[r]
                           \/ status'[r] = "dead_letter" /\ status[r] # "deleted"
        /\ UNCHANGED <<retry, due, dispatchVars, failures, overtaken>>
    BY <1>10 DEF MarkPut, Written
  <2> QED
    BY <2>1, ClaimFrame DEF Held, Live
<1>11. ASSUME NEW w \in Workers, \/ \E r \in Rows : Take(w, r)
                                 \/ Finish(w) \/ NotFound(w) \/ MarkGet(w)
                                 \/ MarkLost(w) \/ Redeliver(w)
       PROVE  ClaimInv'
  <2>1. UNCHANGED <<rowVars, dispatchVars, failures, overtaken>>
    BY <1>11 DEF Take, Finish, NotFound, MarkGet, MarkLost, Redeliver
  <2> QED
    BY <2>1, ClaimFrame DEF Held
<1>12. CASE UNCHANGED vars
  BY <1>12, ClaimFrame DEF vars, Held
<1> HIDE DEF ClaimInv, ResetAlone, DoomedFree
<1> QED
  BY <1>1, <1>2, <1>3, <1>4, <1>5, <1>6, <1>7, <1>8, <1>9, <1>10, <1>11, <1>12, ClaimRecord
     DEF Next, Handle

(* ClaimInv holds of every behaviour. *)
LEMMA ClaimKept == Spec => []ClaimInv
<1>1. Init => ClaimInv
  <2> SUFFICES ASSUME Init PROVE ClaimInv
    OBVIOUS
  <2>1. SingleSender /\ HeldRows /\ NewRowsFree
    BY DEF Init, SingleSender, HeldRows, NewRowsFree, Holds
  <2>2. RetryBudgetKept
    BY OutboxAssumption DEF Init, RetryBudgetKept
  <2>3. \A d \in Dispatchers : LoadKept(d)
    BY DEF Init, LoadKept
  <2> QED
    BY <2>1, <2>2, <2>3 DEF ClaimInv
<1>2. Init => ResetAlone /\ DoomedFree
  BY DEF Init, ResetAlone, DoomedFree
<1> QED
  BY <1>1, <1>2, TypeKept, ResetStep, DoomedStep, ClaimStep, PTL DEF Spec

(* Until a lease lapses or an operator resets the row, at most one         *)
(* dispatcher has an unrecorded send of it.                                *)
THEOREM OneSender == Spec => []SingleSender
<1>1. ClaimInv => SingleSender
  BY DEF ClaimInv
<1> QED
  BY <1>1, ClaimKept, PTL

(* Until then, retry_count is the number of recorded failures, and the     *)
(* relay's query can still select every row that is waiting to be sent.    *)
THEOREM RetriesCounted == Spec => []RetryBudgetKept
<1>1. ClaimInv => RetryBudgetKept
  BY DEF ClaimInv
<1> QED
  BY <1>1, ClaimKept, PTL

----------------------------------------------------------------------------
(* The refinement: only rows that were sent are waiting in the broker, are *)
(* held by a worker or can be deleted, and a row that was sent was         *)
(* committed before.                                                       *)
FlowInv ==
    /\ \A r \in Rows : sent[r] => status[r] # "new"
    /\ \A r \in Rows : queue[r] > 0 => sent[r]
    /\ \A w \in Workers : wpc[w] # "idle" => \E r \in Rows : wrow[w] = {r} /\ sent[r]

(* What an UPDATE leaves in a status is what it wrote or what was there. *)
LEMMA WrittenIs ==
    ASSUME NEW was, NEW to, NEW now
    PROVE  Written(was, to, now) = to \/ Written(was, to, now) = now
  BY DEF Written

(* A step of a dispatcher's record, row by row: nothing but the status of  *)
(* its current row changes, which is neither new nor deleted.              *)
LEMMA RecordStatus ==
    ASSUME TypeOK, Shape, NewRowsFree, NEW d \in Dispatchers, Record(d)
    PROVE  /\ Current(d) \in Rows
           /\ \/ status' = status
              \/ /\ status[Current(d)] \notin {"new", "deleted"}
                 /\ \E s \in Live \union {"published", "dead_letter"} :
                        status' = [status EXCEPT ![Current(d)] = s]
           /\ UNCHANGED <<sent, handled, queue, workerVars>>
<1>1. Current(d) \in Rows /\ Current(d) \in batch[d]
  BY CurrentInBatch DEF Shape, Record, Get, PutGone, PutPublished, PutFailed, PutReset
<1> DEFINE r == Current(d)
<1>2. status[r] # "new"
  BY <1>1 DEF NewRowsFree
<1>3. UNCHANGED <<sent, handled, queue, workerVars>>
  BY DEF Record, Get, PutGone, PutPublished, PutFailed, PutReset, historyVars
<1> HIDE DEF r
<1>4. CASE Get(d) \/ PutGone(d)
  BY <1>1, <1>3, <1>4 DEF Get, PutGone, rowVars
<1>5. ASSUME status[r] # "deleted",
             NEW to \in Live \union {"published", "dead_letter"},
             status' = [status EXCEPT ![r] = Written(loaded[d].status, to, @)]
      PROVE  \/ status' = status
             \/ status' = [status EXCEPT ![r] = to]
  <2>1. status \in [Rows -> Statuses] /\ r \in Rows
    BY <1>1 DEF TypeOK, r
  <2>2. CASE Written(loaded[d].status, to, status[r]) = to
    BY <1>5, <2>1, <2>2
  <2>3. CASE Written(loaded[d].status, to, status[r]) = status[r]
    BY <1>5, <2>1, <2>3
  <2> QED
    BY <2>2, <2>3, WrittenIs
<1>6. CASE PutPublished(d)
  <2>1. /\ status[r] # "deleted"
        /\ status' = [status EXCEPT ![r] = Written(loaded[d].status, "published", @)]
    BY <1>6 DEF PutPublished, r
  <2> QED
    BY <1>1, <1>2, <1>3, <1>5, <2>1 DEF r
<1>7. CASE PutFailed(d)
  <2>1. FailureStatus(loaded[d].retry + 1) \in Live \union {"published", "dead_letter"}
    BY DEF FailureStatus, Live
  <2>2. /\ status[r] # "deleted"
        /\ status' = [status EXCEPT ![r] =
                 Written(loaded[d].status, FailureStatus(loaded[d].retry + 1), @)]
    BY <1>7 DEF PutFailed, r
  <2> QED
    BY <1>1, <1>2, <1>3, <1>5, <2>1, <2>2 DEF r
<1>8. CASE PutReset(d)
  <2>1. /\ status[r] # "deleted"
        /\ status' = [status EXCEPT ![r] = Written(loaded[d].status, "pending", @)]
    BY <1>8 DEF PutReset, r
  <2>2. "pending" \in Live \union {"published", "dead_letter"}
    BY DEF Live
  <2> QED
    BY <1>1, <1>2, <1>3, <1>5, <2>1, <2>2 DEF r
<1> QED
  BY <1>4, <1>6, <1>7, <1>8 DEF Record

(* A claim moves live rows only, and dead-letters those without a queue. *)
LEMMA ClaimStatus ==
    ASSUME TypeOK, NEW d \in Dispatchers, NEW r \in Rows, TryPublish(d, r) \/ Relay(d)
    PROVE  /\ \E S \in SUBSET {q \in Rows : status[q] \in Live} :
                 status' = [q \in Rows |-> IF q \notin S THEN status[q]
                                          ELSE IF q \in Routed THEN "processing"
                                          ELSE "dead_letter"]
           /\ UNCHANGED <<sent, handled, queue, workerVars>>
<1>1. UNCHANGED <<sent, handled, queue, workerVars>>
  BY DEF TryPublish, Relay, historyVars
<1>2. ASSUME NEW S \in SUBSET {q \in Rows : status[q] \in Live}, Claim(d, S)
      PROVE  \E T \in SUBSET {q \in Rows : status[q] \in Live} :
                 status' = [q \in Rows |-> IF q \notin T THEN status[q]
                                          ELSE IF q \in Routed THEN "processing"
                                          ELSE "dead_letter"]
  BY <1>2 DEF Claim
<1>3. CASE TryPublish(d, r)
  <2>1. CASE status[r] = "pending" /\ Claim(d, {r})
    BY <1>1, <1>2, <2>1 DEF Live
  <2>2. CASE UNCHANGED rowVars
    <3>1. status' = [q \in Rows |-> IF q \notin {} THEN status[q]
                                   ELSE IF q \in Routed THEN "processing" ELSE "dead_letter"]
      BY <2>2 DEF TypeOK, rowVars
    <3>2. {} \in SUBSET {q \in Rows : status[q] \in Live}
      OBVIOUS
    <3>3. \E S \in SUBSET {q \in Rows : status[q] \in Live} :
            status' = [q \in Rows |-> IF q \notin S THEN status[q]
                                     ELSE IF q \in Routed THEN "processing" ELSE "dead_letter"]
      BY Zenon, <3>1, <3>2
    <3> QED
      BY <1>1, <3>3
  <2> QED
    BY <1>3, <2>1, <2>2 DEF TryPublish
<1>4. CASE Relay(d)
  <2>1. Oldest(Relayable, BatchSize) \subseteq {q \in Rows : status[q] \in Live}
    BY DEF Oldest, Relayable
  <2> QED
    BY <1>1, <1>2, <1>4, <2>1 DEF Relay
<1> QED
  BY <1>3, <1>4

(* The steps of a worker: what it holds was sent, and so is what it puts    *)
(* back into the broker.                                                   *)
LEMMA FlowWorker ==
    ASSUME TypeOK, TypeOK', FlowInv, NEW w \in Workers,
           \/ \E r \in Rows : Take(w, r)
           \/ Handle(w) \/ MarkLost(w) \/ Redeliver(w)
    PROVE  FlowInv'
<1> USE DEF rowVars, taskVars, dispatchVars, workerVars, boundVars, historyVars
<1>1. UNCHANGED sent
  BY DEF Take, Handle, Finish, NotFound, MarkGet, MarkPut, MarkLost, Redeliver
<1>2. ASSUME NEW r \in Rows, status'[r] = "new" PROVE status[r] = "new"
  <2>1. CASE MarkPut(w)
    BY <1>2, <2>1, WrittenIs DEF MarkPut, TypeOK
  <2>2. CASE ~MarkPut(w)
    <3>1. UNCHANGED status
      BY <2>2 DEF Take, Handle, Finish, NotFound, MarkGet, MarkLost, Redeliver
    <3> QED
      BY <1>2, <3>1
  <2> QED
    BY <2>1, <2>2
<1>3. ASSUME NEW r \in Rows, queue'[r] > 0 PROVE sent[r]
  <2>1. CASE Redeliver(w)
    BY <1>3, <2>1 DEF FlowInv, Redeliver, TypeOK
  <2>2. CASE \E q \in Rows : Take(w, q)
    BY <1>3, <2>2 DEF FlowInv, Take, TypeOK
  <2>3. CASE Handle(w) \/ MarkLost(w)
    <3>1. UNCHANGED queue
      BY <2>3 DEF Handle, Finish, NotFound, MarkGet, MarkPut, MarkLost
    <3> QED
      BY <1>3, <3>1 DEF FlowInv
  <2> QED
    BY <2>1, <2>2, <2>3
<1>4. ASSUME NEW v \in Workers, wpc'[v] # "idle"
      PROVE  \E r \in Rows : wrow'[v] = {r} /\ sent[r]
  <2>1. CASE v # w
    <3>1. wpc'[v] = wpc[v] /\ wrow'[v] = wrow[v]
      BY <2>1 DEF TypeOK, Take, Handle, Ack, Finish, NotFound, MarkGet, MarkPut, MarkLost, Redeliver
    <3> QED
      BY <1>4, <3>1 DEF FlowInv
  <2>2. CASE v = w
    <3>1. CASE \E r \in Rows : Take(w, r)
      BY <2>2, <3>1 DEF FlowInv, Take, TypeOK
    <3>2. CASE Ack(w) \/ Redeliver(w)
      BY <1>4, <2>2, <3>2 DEF Ack, Redeliver, TypeOK
    <3>3. CASE ~Ack(w) /\ (Handle(w) \/ MarkLost(w))
      BY <2>2, <3>3 DEF FlowInv, Handle, Finish, NotFound, MarkGet, MarkPut, MarkLost
    <3> QED
      BY <3>1, <3>2, <3>3
  <2> QED
    BY <2>1, <2>2
<1> QED
  BY <1>1, <1>2, <1>3, <1>4 DEF FlowInv

(* Every step keeps FlowInv. *)
LEMMA FlowStep == TInv /\ TInv' /\ ClaimInv /\ FlowInv /\ [Next]_vars => FlowInv'
<1> SUFFICES ASSUME TypeOK, Shape, TypeOK', NewRowsFree, FlowInv, [Next]_vars
             PROVE  FlowInv'
  BY DEF TInv, ClaimInv
<1>1. ASSUME UNCHANGED <<sent, queue, workerVars>>,
             \A r \in Rows : status'[r] = "new" => status[r] = "new"
      PROVE  FlowInv'
  BY <1>1 DEF FlowInv, workerVars
<1>2. ASSUME NEW r \in Rows, Ingest(r) \/ LoseKick(r) \/ TimePasses(r)
                             \/ CleanupSelect(r) \/ CleanupDelete(r)
      PROVE  FlowInv'
  <2>1. UNCHANGED <<sent, queue, workerVars>>
    BY <1>2 DEF Ingest, LoseKick, TimePasses, CleanupSelect, CleanupDelete, historyVars
  <2>2. \E s \in Statuses \ {"new"} : status' \in {status, [status EXCEPT ![r] = s]}
    BY <1>2 DEF Ingest, LoseKick, TimePasses, CleanupSelect, CleanupDelete, rowVars,
               Statuses, Live
  <2> QED
    BY <1>1, <2>1, <2>2 DEF TypeOK
<1>3. ASSUME NEW d \in Dispatchers, NEW r \in Rows, TryPublish(d, r) \/ Relay(d)
      PROVE  FlowInv'
  BY <1>1, <1>3, ClaimStatus
<1>4. ASSUME NEW d \in Dispatchers, NEW r \in Rows, ManualRetry(d, r) PROVE FlowInv'
  BY <1>1, <1>4 DEF ManualRetry, rowVars, historyVars
<1>5. ASSUME NEW d \in Dispatchers, SendReturns(d) \/ SendRaises(d) PROVE FlowInv'
  <2>1. Current(d) \in Rows /\ Current(d) \in batch[d]
    BY <1>5, CurrentInBatch DEF Shape, SendReturns, SendRaises
  <2>2. status[Current(d)] # "new"
    BY <2>1 DEF NewRowsFree
  <2>3. UNCHANGED <<status, workerVars>>
    BY <1>5 DEF SendReturns, SendRaises, rowVars
  <2>4. Enqueue(Current(d)) \/ UNCHANGED <<queue, sent>>
    BY <1>5 DEF SendReturns, SendRaises
  <2>5. CASE Enqueue(Current(d))
    <3>1. /\ \A r \in Rows : sent'[r] <=> sent[r] \/ r = Current(d)
          /\ \A r \in Rows : r # Current(d) => queue'[r] = queue[r]
      BY <2>1, <2>5 DEF TypeOK, Enqueue
    <3> QED
      BY <2>2, <2>3, <3>1 DEF FlowInv, workerVars
  <2>6. CASE UNCHANGED <<queue, sent>>
    BY <2>3, <2>6 DEF FlowInv, workerVars
  <2> QED
    BY <2>4, <2>5, <2>6
<1>6. ASSUME NEW d \in Dispatchers, Record(d) PROVE FlowInv'
  <2>1. \A r \in Rows : status'[r] = "new" => status[r] = "new"
    BY <1>6, RecordStatus DEF Live, TypeOK
  <2> QED
    BY <1>1, <1>6, <2>1, RecordStatus
<1>7. ASSUME NEW d \in Dispatchers, Crash(d) PROVE FlowInv'
  BY <1>1, <1>7 DEF Crash, rowVars, historyVars
<1>8. CASE UNCHANGED vars
  BY <1>1, <1>8 DEF vars, rowVars, historyVars
<1>9. ASSUME NEW d \in Dispatchers, Relay(d) PROVE FlowInv'
  <2>1. Rows # {}
    BY <1>9 DEF Relay, Relayable
  <2> QED
    BY <1>3, <1>9, <2>1
<1> QED
  BY <1>2, <1>3, <1>4, <1>5, <1>6, <1>7, <1>8, <1>9, FlowWorker DEF Next

(* A step that leaves statuses and histories alone is a stutter. *)
LEMMA PromiseStutter ==
    ASSUME UNCHANGED <<status, sent, handled>>
    PROVE  UNCHANGED Promise!vars
  BY DEF Promise!vars

(* What a claim does to live rows is a refusal of those without a queue.   *)
LEMMA PromiseClaim ==
    ASSUME NEW S \in SUBSET {q \in Rows : status[q] \in Live},
           status' = [q \in Rows |-> IF q \notin S THEN status[q]
                                    ELSE IF q \in Routed THEN "processing" ELSE "dead_letter"],
           UNCHANGED <<sent, handled>>
    PROVE  Promise!Next
<1>1. /\ {r \in Rows : status[r] # "new"}' = {r \in Rows : status[r] # "new"}
      /\ {r \in Rows : status[r] = "deleted"}' = {r \in Rows : status[r] = "deleted"}
  BY DEF Live
<1>2. {r \in Rows : status[r] = "dead_letter"}'
          = {r \in Rows : status[r] = "dead_letter"} \union (S \ Routed)
  BY DEF Live
<1>3. S \ Routed \subseteq
          {r \in Rows : status[r] # "new"} \ {r \in Rows : status[r] = "deleted"}
  BY DEF Live
<1>4. Promise!Refuse(S \ Routed)
  BY <1>1, <1>2, <1>3 DEF Promise!Refuse
<1>5. S \ Routed \in SUBSET Rows
  OBVIOUS
<1> QED
  BY <1>4, <1>5 DEF Promise!Next

(* A record refuses its row, reopens it, or does neither. *)
LEMMA PromiseRecord ==
    ASSUME TypeOK, NEW r \in Rows, status[r] \notin {"new", "deleted"},
           NEW s \in Live \union {"published", "dead_letter"},
           status' = [status EXCEPT ![r] = s],
           UNCHANGED <<sent, handled>>
    PROVE  Promise!Next \/ UNCHANGED Promise!vars
<1>1. /\ {q \in Rows : status[q] # "new"}' = {q \in Rows : status[q] # "new"}
      /\ {q \in Rows : status[q] = "deleted"}' = {q \in Rows : status[q] = "deleted"}
  BY DEF TypeOK, Live
<1>2. CASE s = "dead_letter"
  <2>1. {q \in Rows : status[q] = "dead_letter"}'
            = {q \in Rows : status[q] = "dead_letter"} \union {r}
    BY <1>2 DEF TypeOK
  <2>2. Promise!Refuse({r})
    BY <1>1, <2>1 DEF Promise!Refuse
  <2> QED
    BY <2>2 DEF Promise!Next
<1>3. CASE s # "dead_letter" /\ status[r] = "dead_letter"
  <2>1. {q \in Rows : status[q] = "dead_letter"}'
            = {q \in Rows : status[q] = "dead_letter"} \ {r}
    BY <1>3 DEF TypeOK
  <2>2. Promise!Reopen(r)
    BY <1>1, <1>3, <2>1 DEF Promise!Reopen
  <2> QED
    BY <2>2 DEF Promise!Next
<1>4. CASE s # "dead_letter" /\ status[r] # "dead_letter"
  <2>1. {q \in Rows : status[q] = "dead_letter"}' = {q \in Rows : status[q] = "dead_letter"}
    BY <1>4 DEF TypeOK
  <2> QED
    BY <1>1, <2>1 DEF Promise!vars
<1> QED
  BY <1>2, <1>3, <1>4

(* A worker that acknowledges a message of r, which it may have marked. *)
LEMMA PromiseProcess ==
    ASSUME TypeOK, NEW r \in Rows, sent[r], status[r] # "new",
           NEW w \in Workers, Ack(w), wrow[w] = {r}, UNCHANGED sent,
           \/ UNCHANGED status
           \/ /\ status[r] # "deleted"
              /\ status' = [status EXCEPT ![r] = "dead_letter"]
    PROVE  Promise!Next
<1>1. {q \in Rows : handled[q]}' = {q \in Rows : handled[q]} \union {r}
  BY DEF Ack, TypeOK
<1>2. /\ {q \in Rows : status[q] # "new"}' = {q \in Rows : status[q] # "new"}
      /\ {q \in Rows : status[q] = "deleted"}' = {q \in Rows : status[q] = "deleted"}
  BY DEF TypeOK
<1>3. {q \in Rows : status[q] = "dead_letter"}' \in
          {{q \in Rows : status[q] = "dead_letter"},
           {q \in Rows : status[q] = "dead_letter"}
               \union ({r} \ {q \in Rows : status[q] = "deleted"})}
  BY DEF TypeOK
<1>4. Promise!Process(r)
  BY <1>1, <1>2, <1>3 DEF Promise!Process
<1> QED
  BY <1>4 DEF Promise!Next

(* Every step of the outbox is a step of the delivery it promises, or a    *)
(* stutter.                                                                *)
LEMMA PromiseStep ==
    TInv /\ ClaimInv /\ SentInv /\ FlowInv /\ [Next]_vars
        => [Promise!Next]_(Promise!vars)
<1> SUFFICES ASSUME TypeOK, Shape, NewRowsFree, SentInv, FlowInv, [Next]_vars
             PROVE  Promise!Next \/ UNCHANGED Promise!vars
  BY DEF TInv, ClaimInv
<1>1. ASSUME NEW r \in Rows, Ingest(r) PROVE Promise!Next
  <2>1. /\ {q \in Rows : status[q] # "new"}' = {q \in Rows : status[q] # "new"} \union {r}
        /\ {q \in Rows : status[q] = "deleted"}' = {q \in Rows : status[q] = "deleted"}
        /\ {q \in Rows : status[q] = "dead_letter"}' = {q \in Rows : status[q] = "dead_letter"}
    BY <1>1 DEF Ingest, TypeOK
  <2>2. Promise!Accept(r)
    BY <1>1, <2>1 DEF Promise!Accept, Ingest, historyVars
  <2> QED
    BY <2>2 DEF Promise!Next
<1>2. ASSUME NEW r \in Rows, LoseKick(r) \/ TimePasses(r) \/ CleanupSelect(r)
      PROVE  UNCHANGED Promise!vars
  BY <1>2, PromiseStutter DEF LoseKick, TimePasses, CleanupSelect, rowVars, historyVars
<1>3. ASSUME NEW r \in Rows, CleanupDelete(r) PROVE Promise!Next \/ UNCHANGED Promise!vars
  <2>1. CASE UNCHANGED status
    BY <1>3, <2>1, PromiseStutter DEF CleanupDelete, historyVars
  <2>2. CASE status' = [status EXCEPT ![r] = "deleted"]
    <3>1. sent[r] /\ status[r] # "new"
      BY <1>3 DEF CleanupDelete, SentInv, FlowInv
    <3>2. /\ {q \in Rows : status[q] # "new"}' = {q \in Rows : status[q] # "new"}
          /\ {q \in Rows : status[q] = "deleted"}'
                = {q \in Rows : status[q] = "deleted"} \union {r}
          /\ {q \in Rows : status[q] = "dead_letter"}'
                = {q \in Rows : status[q] = "dead_letter"} \ {r}
      BY <2>2, <3>1 DEF TypeOK
    <3>3. Promise!Forget(r)
      BY <1>3, <3>1, <3>2 DEF Promise!Forget, CleanupDelete, historyVars
    <3> QED
      BY <3>3 DEF Promise!Next
  <2> QED
    BY <1>3, <2>1, <2>2 DEF CleanupDelete
<1>4. ASSUME NEW d \in Dispatchers, NEW r \in Rows, TryPublish(d, r) \/ Relay(d)
      PROVE  Promise!Next
  BY <1>4, ClaimStatus, PromiseClaim
<1>5. ASSUME NEW d \in Dispatchers, Relay(d) PROVE Promise!Next
  <2>1. Rows # {}
    BY <1>5 DEF Relay, Relayable
  <2> QED
    BY <1>4, <1>5, <2>1
<1>6. ASSUME NEW d \in Dispatchers, NEW r \in Rows, ManualRetry(d, r)
      PROVE  UNCHANGED Promise!vars
  BY <1>6, PromiseStutter DEF ManualRetry, rowVars, historyVars
<1>7. ASSUME NEW d \in Dispatchers, SendReturns(d) \/ SendRaises(d)
      PROVE  Promise!Next \/ UNCHANGED Promise!vars
  <2>1. PICK r \in Rows : r = Current(d) /\ r \in batch[d]
    BY <1>7, CurrentInBatch DEF Shape, SendReturns, SendRaises
  <2>2. status[r] # "new"
    BY <2>1 DEF NewRowsFree
  <2>3. UNCHANGED <<status, handled>> /\ (Enqueue(r) \/ UNCHANGED sent)
    BY <1>7, <2>1 DEF SendReturns, SendRaises, rowVars
  <2>4. CASE Enqueue(r)
    <3>1. {q \in Rows : sent[q]}' = {q \in Rows : sent[q]} \union {r}
      BY <2>4 DEF Enqueue, TypeOK
    <3>2. Promise!Deliver(r)
      BY <2>2, <2>3, <3>1 DEF Promise!Deliver
    <3> QED
      BY <3>2 DEF Promise!Next
  <2>5. CASE UNCHANGED sent
    BY <2>3, <2>5, PromiseStutter
  <2> QED
    BY <2>3, <2>4, <2>5
<1>8. ASSUME NEW d \in Dispatchers, Record(d) PROVE Promise!Next \/ UNCHANGED Promise!vars
  BY <1>8, RecordStatus, PromiseRecord, PromiseStutter
<1>9. ASSUME NEW d \in Dispatchers, Crash(d) PROVE UNCHANGED Promise!vars
  BY <1>9, PromiseStutter DEF Crash, rowVars, historyVars
<1>10. ASSUME NEW w \in Workers, NEW r \in Rows, Take(w, r) PROVE UNCHANGED Promise!vars
  BY <1>10, PromiseStutter DEF Take, rowVars, historyVars
<1>11. ASSUME NEW w \in Workers, Handle(w) \/ MarkLost(w)
       PROVE  Promise!Next \/ UNCHANGED Promise!vars
  <2>1. PICK r \in Rows : wrow[w] = {r} /\ sent[r] /\ status[r] # "new"
    BY <1>11 DEF FlowInv, Handle, Finish, NotFound, MarkGet, MarkPut, MarkLost
  <2>2. UNCHANGED sent
    BY <1>11 DEF Handle, Finish, NotFound, MarkGet, MarkPut, MarkLost, historyVars
  <2>3. CASE Ack(w) /\ UNCHANGED status
    BY <2>1, <2>2, <2>3, PromiseProcess
  <2>4. CASE MarkPut(w)
    <3>1. Ack(w)
      BY <2>4 DEF MarkPut
    <3>2. UNCHANGED status \/ (status[r] # "deleted" /\ status' = [status EXCEPT ![r] = "dead_letter"])
      <4>1. status' = [status EXCEPT ![r] =
                IF @ # "deleted" THEN Written(wloaded[w], "dead_letter", @) ELSE @]
        BY <2>1, <2>4 DEF MarkPut, TypeOK
      <4>2. status = [status EXCEPT ![r] = status[r]]
        BY DEF TypeOK
      <4>3. CASE status[r] # "deleted" /\ Written(wloaded[w], "dead_letter", status[r]) = "dead_letter"
        BY <4>1, <4>3
      <4>4. CASE status[r] = "deleted" \/ Written(wloaded[w], "dead_letter", status[r]) = status[r]
        BY <4>1, <4>2, <4>4
      <4> QED
        BY <4>3, <4>4, WrittenIs
    <3> QED
      BY <2>1, <2>2, <3>1, <3>2, PromiseProcess
  <2>5. CASE UNCHANGED <<status, handled>>
    BY <2>2, <2>5, PromiseStutter
  <2> QED
    BY <1>11, <2>3, <2>4, <2>5
       DEF Handle, Finish, NotFound, MarkGet, MarkLost, rowVars, historyVars
<1>12. ASSUME NEW w \in Workers, Redeliver(w) PROVE UNCHANGED Promise!vars
  BY <1>12, PromiseStutter DEF Redeliver, rowVars, historyVars
<1>13. CASE UNCHANGED vars
  BY <1>13, PromiseStutter DEF vars, rowVars, historyVars
<1> QED
  BY <1>1, <1>2, <1>3, <1>4, <1>5, <1>6, <1>7, <1>8, <1>9, <1>10, <1>11, <1>12, <1>13
     DEF Next

(* The outbox implements at-least-once delivery: for any rows, dispatchers *)
(* and workers, every step is one of Delivery's on the rows' statuses, or  *)
(* invisible there.                                                        *)
THEOREM DeliveryImplemented == Spec => DeliversEvents
<1>1. Init => Promise!Init
  BY DEF Init, Promise!Init
<1>2. Init => SentInv /\ FlowInv
  BY DEF Init, SentInv, PublishedWasSent, FlowInv
<1> QED
  BY <1>1, <1>2, TypeKept, ClaimKept, SentStep, FlowStep, PromiseStep, PTL
     DEF Spec, DeliversEvents, Promise!Spec
=============================================================================
