--------------------------- MODULE MCMappingCache ---------------------------
(* Instances of MappingCache for TLC. *)
EXTENDS MappingCache, TLC

(* Requests, readers and keys are interchangeable. *)
Symmetry == Permutations(Operators) \union Permutations(Readers) \union Permutations(Keys)
=============================================================================
