---------------------------- MODULE MCEventIngest ----------------------------
(* Instances of EventIngest for TLC. *)
EXTENDS EventIngest, TLC

(* Odd events are about one order, even ones about another. *)
ByParity == [e \in Events |-> CHOOSE o \in Orders : o = 1 + (e % 2)]

Symmetry == Permutations(Handlers) \union Permutations(Pollers)
=============================================================================
