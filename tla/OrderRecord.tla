----------------------------- MODULE OrderRecord -----------------------------
(***************************************************************************)
(* What the order sync promises of one platform order, with its workers,   *)
(* messages, lock, limits and transactions left out: its record leads to   *)
(* the one sale order in Odoo, a success is final, and a failure is        *)
(* recorded only of a sync that was claimed.  Once the sync is disturbed,  *)
(* which it is when a coroutine or a create outlives its caller or a       *)
(* record is written over a running sync, all that is left of the promise  *)
(* is that sale orders stay and that a success has one.                    *)
(***************************************************************************)
EXTENDS Naturals

VARIABLES record,     \* the status recorded for the order
          orders,     \* sale orders of it in Odoo
          disturbed

vars == <<record, orders, disturbed>>

Records == {"none", "pending", "syncing", "success", "failed", "dead_letter"}

Init == record = "none" /\ orders = 0 /\ disturbed = FALSE

Write(from, to) ==
    /\ record \in from
    /\ record' = to
    /\ UNCHANGED <<orders, disturbed>>

Claim == Write({"none", "pending", "failed", "dead_letter"}, "syncing")

(* The sale order is created while its record is claimed, and once. *)
Create ==
    /\ record = "syncing"
    /\ orders = 0
    /\ orders' = 1
    /\ UNCHANGED <<record, disturbed>>

Succeed == orders = 1 /\ Write({"syncing"}, "success")

Fail == Write({"syncing"}, "failed")

(* An operator asks for another attempt. *)
Retry == Write({"failed", "dead_letter"}, "pending")

(* A failure that no retry can repair is set aside, an operator's request  *)
(* that came in between with it.                                           *)
SetAside == Write({"failed", "pending"}, "dead_letter")

Disturbed ==
    /\ disturbed'
    /\ disturbed' \in BOOLEAN
    /\ record' \in Records
    /\ orders' \in Nat /\ orders' >= orders
    /\ record' = "success" => orders' > 0

Next ==
    \/ ~disturbed /\ (Claim \/ Create \/ Succeed \/ Fail \/ Retry \/ SetAside)
    \/ Disturbed

Spec == Init /\ [][Next]_vars
=============================================================================
