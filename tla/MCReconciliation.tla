-------------------------- MODULE MCReconciliation --------------------------
(* Reconciliation with totals on both sides of the tolerance. *)
EXTENDS Reconciliation

Ready   == [fixable |-> TRUE,  total |-> 100000, tracking |-> NoTracking]
Shipped == [fixable |-> FALSE, total |-> 100000, tracking |-> "SPX"]

MCShopeeOrders == {Ready, Shipped}

MCOdooOrders ==
    {[total |-> 101000, tracking |-> "SPX"], [total |-> 98999, tracking |-> NoTracking]}
=============================================================================
