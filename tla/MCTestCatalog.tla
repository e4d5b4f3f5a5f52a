--------------------------- MODULE MCTestCatalog ---------------------------
(* TestCatalog for TLC: the tests are interchangeable. *)
EXTENDS TestCatalog, TLC

Symmetry == Permutations(Test)

=============================================================================
