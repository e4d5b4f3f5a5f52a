------------------------------- MODULE Blame -------------------------------
(***************************************************************************)
(* The git history of a test, as catalogue() computes it                   *)
(* (test-catalog/src/lib.rs): a fold over the chunks of `git blame' of the *)
(* lines of the test, in file order.  One action folds one chunk.  The     *)
(* fold is written as steps so that it can be reasoned about for chunk     *)
(* lists of any length.                                                    *)
(***************************************************************************)
EXTENDS Integers, Sequences

CONSTANTS
    Commit,         \* the commits of the repository
    Time,           \* Time[c]: commit time of c, in seconds from the epoch
    Author,         \* Author[c]: its signature
    NoTime,         \* None
    NoCommit,       \* the empty string of last_commit_id
    MaxChunks       \* bound: how many chunks a test has

ASSUME BlameAssumption ==
    /\ Time \in [Commit -> Nat]
    /\ DOMAIN Author = Commit
    /\ NoTime \notin Nat
    /\ NoCommit \notin Commit
    /\ MaxChunks \in Nat

VARIABLES
    chunks,         \* the chunks that blame.iter() yields
    i,              \* how many of them are folded
    createdAt,      \* acc.0
    authors,        \* acc.1
    lastCommit,     \* acc.2 and acc.3: the commit, which has one signature
    lastAt          \* acc.4

vars == <<chunks, i, createdAt, authors, lastCommit, lastAt>>

\* A chunk names the commit that its lines come from and the one that they were
\* last changed by, which is not older.
Chunk == {k \in [orig : Commit, final : Commit] : Time[k.orig] <= Time[k.final]}

Folded == 1 .. i
OrigTime(j)  == Time[chunks[j].orig]
FinalTime(j) == Time[chunks[j].final]

\* The type of every variable of the component.
TypeOK ==
    /\ chunks \in Seq(Chunk)
    /\ i \in 0 .. Len(chunks)
    /\ createdAt \in Nat \union {NoTime}
    /\ authors \in Seq({Author[c] : c \in Commit})
    /\ lastCommit \in Commit \union {NoCommit}
    /\ lastAt \in Nat \union {NoTime}

Init ==
    /\ \E length \in 0 .. MaxChunks : chunks \in [1 .. length -> Chunk]
    /\ i = 0
    /\ createdAt = NoTime
    /\ authors = <<>>
    /\ lastCommit = NoCommit
    /\ lastAt = NoTime

-----------------------------------------------------------------------------
(* The closure of the fold, field by field, for the chunk k *)

\* Wrong on purpose: the comparison is the wrong way round.
FoldCreatedAtNewest(k) ==
    createdAt' = IF createdAt = NoTime \/ createdAt < Time[k.orig]
                 THEN Time[k.orig] ELSE createdAt

FoldCreatedAt(k) ==
    createdAt' = IF createdAt = NoTime \/ createdAt > Time[k.orig]
                 THEN Time[k.orig] ELSE createdAt

\* Wrong on purpose: an author is compared with the latest one only.
FoldAuthorsAdjacent(k) ==
    authors' = IF authors # <<>> /\ authors[Len(authors)] = Author[k.orig]
               THEN authors ELSE Append(authors, Author[k.orig])

FoldAuthors(k) ==
    authors' = IF \E j \in DOMAIN authors : authors[j] = Author[k.orig]
               THEN authors ELSE Append(authors, Author[k.orig])

\* Wrong on purpose: the id is taken from every chunk, the time from some.
FoldLastTorn(k) ==
    /\ lastCommit' = k.final
    /\ lastAt' = IF lastAt = NoTime \/ createdAt' < Time[k.final]
                 THEN Time[k.final] ELSE lastAt

\* Wrong on purpose: the signature is stored as the id.
FoldLastSwapped(k) ==
    /\ lastCommit' = Author[k.final]
    /\ lastAt' = Time[k.final]

\* The comparison is with acc.0, the creation time as of this chunk, and not
\* with acc.4.
FoldLast(k) ==
    IF lastAt = NoTime \/ createdAt' < Time[k.final]
    THEN lastAt' = Time[k.final] /\ lastCommit' = k.final
    ELSE UNCHANGED <<lastAt, lastCommit>>

Fold ==
    /\ i < Len(chunks)
    /\ i' = i + 1
    /\ FoldCreatedAt(chunks[i'])
    /\ FoldAuthors(chunks[i'])
    /\ FoldLast(chunks[i'])
    /\ UNCHANGED chunks

Next == Fold

\* The pattern of `if let': both times are there, and catalogue() writes the row of
\* the test.  Otherwise it writes nothing (Expand and ExpandUnblamed of TestCatalog).
Matches == createdAt # NoTime /\ lastAt # NoTime

Spec == Init /\ [][Next]_vars

-----------------------------------------------------------------------------
(* Properties *)

\* created_at is the time of the earliest commit among the chunks folded.
CreatedAtEarliest ==
    i > 0 => /\ \E j \in Folded : createdAt = OrigTime(j)
             /\ \A j \in Folded : createdAt <= OrigTime(j)

\* The authors are exactly those of the chunks folded, each of them once.
AuthorsExact ==
    /\ {authors[j] : j \in DOMAIN authors}
            = {Author[chunks[j].orig] : j \in Folded}
    /\ \A j, k \in DOMAIN authors : authors[j] = authors[k] => j = k

\* last_commit_id, last_committer and last_committed_at are of one commit, that
\* some chunk was last changed by and that is not older than the test.
LastIsOneCommit ==
    i > 0 => /\ \E j \in Folded : lastCommit = chunks[j].final
             /\ lastAt = Time[lastCommit]
             /\ createdAt <= lastAt

\* What the README of test-catalog says: "last_committed_at: the last
\* modiffication time for the test case".
LastIsLatest ==
    i > 0 /\ i = Len(chunks) => \A j \in Folded : FinalTime(j) <= lastAt

=============================================================================
