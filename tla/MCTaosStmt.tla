----------------------------- MODULE MCTaosStmt -----------------------------
(* TaosStmt for TLC: the tables and the rows are interchangeable. *)
EXTENDS TaosStmt, TLC

Symmetry == Permutations(Row) \union Permutations(Table)

=============================================================================
