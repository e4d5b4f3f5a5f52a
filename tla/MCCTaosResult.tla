--------------------------- MODULE MCCTaosResult ---------------------------
(* CTaosResult for TLC: the tasks and the results are interchangeable. *)
EXTENDS CTaosResult, TLC

Symmetry == Permutations(Task) \union Permutations(Result)

=============================================================================
