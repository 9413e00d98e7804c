------------------------------ MODULE Delivery ------------------------------
(***************************************************************************)
(* What the transactional outbox promises of an event, with its claims,    *)
(* leases, retries and crashes left out: an accepted event is delivered to *)
(* the consumer at least once, or refused where an operator sees it, and   *)
(* its record is not dropped before it was delivered.                      *)
(***************************************************************************)
CONSTANT Events

VARIABLES accepted,    \* events whose row was committed
          delivered,   \* events the consumer has been sent, once or more
          processed,   \* events a consumer has finished with, once or more
          refused,     \* events given up, shown as dead letters
          forgotten    \* events whose row was cleaned up

vars == <<accepted, delivered, processed, refused, forgotten>>

Init ==
    /\ accepted = {} /\ delivered = {} /\ processed = {}
    /\ refused = {} /\ forgotten = {}

Accept(e) ==
    /\ e \notin accepted
    /\ accepted' = accepted \union {e}
    /\ UNCHANGED <<delivered, processed, refused, forgotten>>

(* Sending an event again changes nothing the promise is about. *)
Deliver(e) ==
    /\ e \in accepted
    /\ delivered' = delivered \union {e}
    /\ UNCHANGED <<accepted, processed, refused, forgotten>>

(* A consumer finishes with an event and may refuse it, unless its record  *)
(* is gone already.                                                        *)
Process(e) ==
    /\ e \in delivered
    /\ processed' = processed \union {e}
    /\ refused' \in {refused, refused \union ({e} \ forgotten)}
    /\ UNCHANGED <<accepted, delivered, forgotten>>

(* A relay gives up events of its batch. *)
Refuse(S) ==
    /\ S \subseteq accepted \ forgotten
    /\ refused' = refused \union S
    /\ UNCHANGED <<accepted, delivered, processed, forgotten>>

(* A refused event is live again. *)
Reopen(e) ==
    /\ e \in refused
    /\ refused' = refused \ {e}
    /\ UNCHANGED <<accepted, delivered, processed, forgotten>>

Forget(e) ==
    /\ e \in delivered
    /\ forgotten' = forgotten \union {e}
    /\ refused' = refused \ {e}
    /\ UNCHANGED <<accepted, delivered, processed>>

Next ==
    \/ \E e \in Events : Accept(e) \/ Deliver(e) \/ Process(e) \/ Reopen(e) \/ Forget(e)
    \/ \E S \in SUBSET Events : Refuse(S)

Spec == Init /\ [][Next]_vars
=============================================================================
