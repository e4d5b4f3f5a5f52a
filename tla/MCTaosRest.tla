----------------------------- MODULE MCTaosRest -----------------------------
(* TaosRest for TLC: the statements of the tasks. *)
EXTENDS TaosRest, TLC

CONSTANTS t1, t2, demo, shared

On(op, db) == [op |-> op, db |-> db]

SomeDatabase == {demo, shared}

\* examples/demo.rs, drop and then create, and two tasks on one database; the
\* second task goes on with a statement that is too long.
PairTask   == {t1, t2}
PairScript ==
    (t1 :> <<On("drop", demo), On("create", demo), On("create", shared)>>)
    @@ (t2 :> <<On("drop", shared), On("tooLong", shared)>>)

=============================================================================
