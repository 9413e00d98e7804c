--------------------------- MODULE MCTokenRefresh ---------------------------
(* Instances of TokenRefresh for TLC. *)
EXTENDS TokenRefresh, TLC

(* The coroutines are interchangeable. *)
Symmetry == Permutations(Users)
=============================================================================
