-------------------------- MODULE MCCircuitBreaker --------------------------
(* Instances of CircuitBreaker for TLC. *)
EXTENDS CircuitBreaker, TLC

(* The coroutines of a process are interchangeable. *)
Symmetry == Permutations(Callers)
=============================================================================
