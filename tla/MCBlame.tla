------------------------------ MODULE MCBlame ------------------------------
(* Blame for TLC: three commits by two authors. *)
EXTENDS Blame, TLC

CONSTANTS first, second, third, ann, bob

SomeCommit == {first, second, third}
SomeTime   == (first :> 1) @@ (second :> 2) @@ (third :> 3)
SomeAuthor == (first :> ann) @@ (second :> bob) @@ (third :> ann)

=============================================================================
