----------------------------- MODULE MCOrderSync -----------------------------
(* Instances of OrderSync for TLC. *)
EXTENDS OrderSync, TLC

(* Worker processes are interchangeable. *)
Symmetry == Permutations(Workers)
=============================================================================
