---------------------------- MODULE BatchInsert ----------------------------
(***************************************************************************)
(* What a prepared insert promises: rows are added to a batch one by one,  *)
(* flushing stores the whole batch or fails, and what a successful flush   *)
(* has confirmed is stored.  A flush that fails may have stored a part of  *)
(* the batch and may keep or lose the batch.                               *)
(***************************************************************************)

CONSTANT Record         \* the rows that can be bound, each for one table

VARIABLES
    batch,              \* the records that the next flush stores
    stored,             \* the records in the database
    confirmed           \* the records whose flush has succeeded

vars == <<batch, stored, confirmed>>

Init ==
    /\ batch = {}
    /\ stored = {}
    /\ confirmed = {}

\* A record enters the batch once in its life.
Add(r) ==
    /\ r \notin batch \union stored
    /\ batch' = batch \union {r}
    /\ UNCHANGED <<stored, confirmed>>

\* Success: the whole batch is stored.
Flush ==
    /\ stored' = stored \union batch
    /\ confirmed' = confirmed \union batch
    /\ batch' = {}

\* Failure, or the end of the statement: nothing is confirmed.
FlushFails ==
    /\ \E part \in SUBSET batch : stored' = stored \union part
    /\ batch' \in {batch, {}}
    /\ UNCHANGED confirmed

Next ==
    \/ \E r \in Record : Add(r)
    \/ Flush \/ FlushFails

Spec == Init /\ [][Next]_vars

=============================================================================
