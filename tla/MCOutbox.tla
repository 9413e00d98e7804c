------------------------------ MODULE MCOutbox ------------------------------
(* Instances of Outbox for TLC. *)
EXTENDS Outbox, TLC

(* Dispatchers and workers are interchangeable; rows are ordered. *)
Symmetry == Permutations(Dispatchers) \union Permutations(Workers)
=============================================================================
