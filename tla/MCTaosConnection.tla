-------------------------- MODULE MCTaosConnection --------------------------
(* TaosConnection for TLC: the threads and the handles are interchangeable    *)
(* where no liveness property is checked.                                     *)
EXTENDS TaosConnection, TLC

Symmetry == Permutations(Thread) \union Permutations(Handle)

=============================================================================
