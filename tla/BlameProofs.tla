---------------------------- MODULE BlameProofs ----------------------------
(***************************************************************************)
(* Proofs about Blame, for chunk lists of any length over any commits: the *)
(* creation time, the authors and the last commit that the fold arrives at,*)
(* and for which lists that one is the latest.                             *)
(***************************************************************************)
EXTENDS Blame, TLAPS

\* Before the first chunk nothing is known, after it everything is.
Started ==
    IF i = 0 THEN createdAt = NoTime /\ lastAt = NoTime /\ authors = <<>>
             ELSE createdAt \in Nat /\ lastAt \in Nat

IInv ==
    /\ TypeOK
    /\ Started
    /\ CreatedAtEarliest
    /\ AuthorsExact
    /\ LastIsOneCommit

\* The chunk that a step folds, and what is known of it.
LEMMA NextChunk ==
    ASSUME TypeOK, Fold
    PROVE  /\ i' \in Nat /\ i' > 0 /\ i' = i + 1 /\ i' <= Len(chunks)
           /\ chunks' = chunks
           /\ chunks[i'] \in Chunk
           /\ Folded' = Folded \union {i'} /\ i' \notin Folded
           /\ OrigTime(i') \in Nat /\ FinalTime(i') \in Nat
           /\ OrigTime(i') <= FinalTime(i')
<1>1. /\ i' \in Nat /\ i' > 0 /\ i' = i + 1 /\ i' <= Len(chunks)
      /\ chunks' = chunks
    BY DEF TypeOK, Fold
<1>2. chunks[i'] \in Chunk
    BY <1>1 DEF TypeOK
<1>3. Folded' = Folded \union {i'} /\ i' \notin Folded
    BY <1>1 DEF Folded, TypeOK
<1>4. OrigTime(i') \in Nat /\ FinalTime(i') \in Nat /\ OrigTime(i') <= FinalTime(i')
    BY <1>2, BlameAssumption DEF OrigTime, FinalTime, Chunk
<1> QED
    BY <1>1, <1>2, <1>3, <1>4

\* The times of a chunk do not change when another one is folded.
LEMMA FoldedTimes ==
    ASSUME TypeOK, Fold, NEW j \in Folded
    PROVE  OrigTime(j) \in Nat /\ OrigTime(j)' = OrigTime(j)
<1>1. chunks[j] \in Chunk /\ chunks' = chunks
    BY NextChunk DEF Folded, TypeOK
<1> QED
    BY <1>1, BlameAssumption DEF OrigTime, Chunk

\* One more chunk keeps the creation time that of the earliest commit.
LEMMA CreatedAtStep ==
    ASSUME TypeOK, Started, CreatedAtEarliest, Fold
    PROVE  /\ createdAt' \in Nat /\ createdAt' <= OrigTime(i')
           /\ i > 0 => createdAt' <= createdAt
           /\ CreatedAtEarliest'
<1>a. i \in Nat /\ OrigTime(i') \in Nat
    BY NextChunk DEF TypeOK
<1>b. createdAt' = IF createdAt = NoTime \/ createdAt > OrigTime(i')
                   THEN OrigTime(i') ELSE createdAt
    BY DEF Fold, FoldCreatedAt, OrigTime
<1>1. /\ i = 0 => createdAt' = OrigTime(i')
      /\ i # 0 => /\ createdAt \in Nat
                  /\ createdAt' = IF createdAt > OrigTime(i')
                                  THEN OrigTime(i') ELSE createdAt
    <2>1. CASE i = 0
        BY <2>1, <1>b DEF Started
    <2>2. CASE i # 0
        <3>1. createdAt \in Nat /\ createdAt # NoTime
            BY <2>2, BlameAssumption DEF Started
        <3> QED
            BY <2>2, <3>1, <1>b
    <2> QED
        BY <2>1, <2>2
<1>2. /\ createdAt' \in Nat /\ createdAt' <= OrigTime(i')
      /\ i > 0 => createdAt' <= createdAt
    <2>1. CASE i = 0
        BY <2>1, <1>1, <1>a
    <2>2. CASE i # 0
        BY <2>2, <1>1, <1>a
    <2> QED
        BY <2>1, <2>2
<1> PICK m : m = i'
    OBVIOUS
<1>3. OrigTime(m)' = OrigTime(m)
    BY NextChunk DEF OrigTime
<1>4. \E j \in Folded' : createdAt' = OrigTime(j)'
    <2>1. CASE createdAt' = OrigTime(m)
        BY <2>1, <1>3, NextChunk
    <2>2. CASE createdAt' # OrigTime(m)
        <3>1. i > 0 /\ createdAt' = createdAt
            BY <2>2, <1>1, <1>a
        <3> QED
            BY <3>1, FoldedTimes, NextChunk DEF CreatedAtEarliest
    <2> QED
        BY <2>1, <2>2
<1>5. ASSUME NEW j \in Folded'
      PROVE  createdAt' <= OrigTime(j)'
    <2>1. CASE j = m
        BY <2>1, <1>2, <1>3
    <2>2. CASE j \in Folded
        <3>1. i > 0
            BY <2>2 DEF Folded, TypeOK
        <3>2. createdAt <= OrigTime(j) /\ createdAt \in Nat
            BY <3>1, <2>2 DEF CreatedAtEarliest, Started
        <3> QED
            BY <3>1, <3>2, <2>2, <1>2, FoldedTimes
    <2> QED
        BY <2>1, <2>2, NextChunk
<1> QED
    BY <1>2, <1>4, <1>5 DEF CreatedAtEarliest

\* One more chunk keeps the columns of the last commit those of one commit.
LEMMA LastStep ==
    ASSUME TypeOK, Started, CreatedAtEarliest, LastIsOneCommit, Fold
    PROVE  lastAt' \in Nat /\ LastIsOneCommit'
<1>1. CASE lastAt = NoTime \/ createdAt' < FinalTime(i')
    <2>1. lastAt' = FinalTime(i') /\ lastCommit' = chunks[i'].final
        BY <1>1 DEF Fold, FoldLast, FinalTime
    <2>2. createdAt' <= lastAt'
        BY <2>1, NextChunk, CreatedAtStep
    <2>3. lastAt' = Time[lastCommit'] /\ lastCommit' = chunks'[i'].final
        BY <2>1, NextChunk DEF FinalTime
    <2> QED
        BY <2>1, <2>2, <2>3, NextChunk DEF LastIsOneCommit
<1>2. CASE ~(lastAt = NoTime \/ createdAt' < FinalTime(i'))
    <2>1. lastAt' = lastAt /\ lastCommit' = lastCommit
        BY <1>2 DEF Fold, FoldLast, FinalTime
    <2>2. i > 0 /\ lastAt \in Nat /\ createdAt \in Nat
        BY <1>2 DEF Started, TypeOK
    <2>3. createdAt' <= lastAt'
        BY <2>1, <2>2, CreatedAtStep DEF LastIsOneCommit
    <2> QED
        BY <2>1, <2>2, <2>3, NextChunk DEF LastIsOneCommit
<1> QED
    BY <1>1, <1>2

\* One more chunk keeps the authors those of the chunks, each once.
LEMMA AuthorsStep ==
    ASSUME TypeOK, AuthorsExact, Fold
    PROVE  authors' \in Seq({Author[c] : c \in Commit}) /\ AuthorsExact'
<1> DEFINE a == Author[chunks[i'].orig]
<1>1. a \in {Author[c] : c \in Commit}
    BY NextChunk DEF Chunk
<1>2. {Author[chunks[j].orig] : j \in Folded}'
        = {Author[chunks[j].orig] : j \in Folded} \union {a}
    BY NextChunk
<1>3. CASE \E j \in DOMAIN authors : authors[j] = a
    <2>1. authors' = authors
        BY <1>3 DEF Fold, FoldAuthors
    <2>2. a \in {authors[j] : j \in DOMAIN authors}
        BY <1>3
    <2>3. {authors[j] : j \in DOMAIN authors}'
            = {Author[chunks[j].orig] : j \in Folded}'
        <3>1. {authors[j] : j \in DOMAIN authors}'
                = {authors[j] : j \in DOMAIN authors}
            BY <2>1
        <3>2. {authors[j] : j \in DOMAIN authors}
                = {Author[chunks[j].orig] : j \in Folded}
            BY DEF AuthorsExact
        <3> QED
            BY <1>2, <2>2, <3>1, <3>2
    <2> QED
        BY <2>1, <2>3 DEF AuthorsExact, TypeOK
<1>4. CASE ~ \E j \in DOMAIN authors : authors[j] = a
    <2>1. authors' = Append(authors, a)
        BY <1>4 DEF Fold, FoldAuthors
    <2>2. /\ authors' \in Seq({Author[c] : c \in Commit})
          /\ DOMAIN authors' = DOMAIN authors \union {Len(authors) + 1}
          /\ Len(authors) + 1 \notin DOMAIN authors
          /\ authors'[Len(authors) + 1] = a
          /\ \A j \in DOMAIN authors : authors'[j] = authors[j]
        BY <1>1, <2>1 DEF TypeOK
    <2>3. {authors'[j] : j \in DOMAIN authors'}
            = {authors[j] : j \in DOMAIN authors} \union {a}
        BY <2>2
    <2>4. \A j, k \in DOMAIN authors' : authors'[j] = authors'[k] => j = k
        BY <1>4, <2>2 DEF AuthorsExact
    <2> QED
        BY <1>2, <2>2, <2>3, <2>4 DEF AuthorsExact
<1> QED
    BY <1>3, <1>4

\* What the fold has computed after any number of chunks.
THEOREM FoldInvariant == Spec => []IInv
<1>1. Init => IInv
    <2> SUFFICES ASSUME Init PROVE IInv
        OBVIOUS
    <2>1. chunks \in Seq(Chunk)
        BY DEF Init
    <2>2. TypeOK
        BY <2>1 DEF Init, TypeOK
    <2>3. Folded = {} /\ DOMAIN authors = {}
        BY DEF Init, Folded
    <2> QED
        BY <2>2, <2>3 DEF Init, IInv, Started, CreatedAtEarliest, AuthorsExact,
                          LastIsOneCommit
<1>2. IInv /\ [Next]_vars => IInv'
    <2> SUFFICES ASSUME IInv, [Next]_vars PROVE IInv'
        OBVIOUS
    <2>1. CASE Fold
        <3> USE <2>1
        <3>1. CreatedAtEarliest' /\ createdAt' \in Nat
            BY CreatedAtStep DEF IInv
        <3>2. LastIsOneCommit' /\ lastAt' \in Nat
            BY LastStep DEF IInv
        <3>3. AuthorsExact' /\ authors' \in Seq({Author[c] : c \in Commit})
            BY AuthorsStep DEF IInv
        <3>4. lastCommit' \in Commit \union {NoCommit}
            BY NextChunk DEF IInv, TypeOK, Fold, FoldLast, Chunk
        <3>5. TypeOK'
            BY <3>1, <3>2, <3>3, <3>4, NextChunk DEF IInv, TypeOK
        <3>6. Started'
            BY <3>1, <3>2, NextChunk DEF IInv, Started
        <3> QED
            BY <3>1, <3>2, <3>3, <3>5, <3>6 DEF IInv
    <2>2. CASE UNCHANGED vars
        BY <2>2 DEF vars, IInv, TypeOK, Started, CreatedAtEarliest,
                    AuthorsExact, LastIsOneCommit, Folded, OrigTime
    <2> QED
        BY <2>1, <2>2 DEF Next
<1> QED
    BY <1>1, <1>2, PTL DEF Spec

\* The accumulator of the fold keeps its types, after any number of chunks.
THEOREM TypeCorrect == Spec => []TypeOK
<1>1. IInv => TypeOK
    BY DEF IInv
<1> QED
    BY <1>1, FoldInvariant, PTL

\* The creation time of a test is that of its earliest commit.
THEOREM CreatedAtCorrect == Spec => []CreatedAtEarliest
<1>1. IInv => CreatedAtEarliest
    BY DEF IInv
<1> QED
    BY <1>1, FoldInvariant, PTL

\* The authors of a test are those of its chunks, without repetition.
THEOREM AuthorsCorrect == Spec => []AuthorsExact
<1>1. IInv => AuthorsExact
    BY DEF IInv
<1> QED
    BY <1>1, FoldInvariant, PTL

\* The three columns of the last commit are of one and the same commit.
THEOREM LastCommitCoherent == Spec => []LastIsOneCommit
<1>1. IInv => LastIsOneCommit
    BY DEF IInv
<1> QED
    BY <1>1, FoldInvariant, PTL

-----------------------------------------------------------------------------
(* What the last commit is, where it is not the latest one *)

\* The chunks come in the order of the times of their last changes.
InOrder ==
    \A j, k \in DOMAIN chunks : j <= k => FinalTime(j) <= FinalTime(k)

\* If the lines of a test were changed from the top to the bottom, last_commit is
\* what the README says, the latest change.
LatestIfInOrder == InOrder => \A j \in Folded : FinalTime(j) <= lastAt

\* What the fold computes instead: the commit of the last chunk in the file, but
\* for chunks at the end of it that are no newer than any chunk before them.
LastInFile ==
    i > 0 => \E j \in Folded :
        /\ lastCommit = chunks[j].final
        /\ \A k \in Folded : k > j =>
            \A m \in 1 .. k : FinalTime(k) <= OrigTime(m)

\* A chunk that is not recorded as the last one is no newer than any before it.
LEMMA SkippedIsOld ==
    ASSUME IInv, IInv', Fold, ~(lastAt = NoTime \/ createdAt' < FinalTime(i'))
    PROVE  /\ i > 0 /\ lastAt' = lastAt /\ lastCommit' = lastCommit
           /\ FinalTime(i') <= createdAt'
           /\ \A m \in Folded' : FinalTime(i') <= OrigTime(m)'
<1>1. lastAt' = lastAt /\ lastCommit' = lastCommit
    BY DEF Fold, FoldLast, FinalTime
<1>2. i > 0
    BY DEF IInv, TypeOK, Started
<1>3. FinalTime(i') \in Nat /\ createdAt' \in Nat /\ i' > 0
    BY NextChunk, CreatedAtStep DEF IInv
<1>4. FinalTime(i') <= createdAt'
    BY <1>3
<1>5. ASSUME NEW m \in Folded'
      PROVE  FinalTime(i') <= OrigTime(m)'
    <2>1. createdAt' <= OrigTime(m)'
        BY <1>3 DEF IInv, CreatedAtEarliest
    <2>2. OrigTime(m)' \in Nat
        <3>1. chunks'[m] \in Chunk
            BY DEF IInv, TypeOK, Folded
        <3> QED
            BY <3>1, BlameAssumption DEF OrigTime, Chunk
    <2> QED
        BY <1>3, <1>4, <2>1, <2>2
<1> QED
    BY <1>1, <1>2, <1>4, <1>5

\* The row of a test is written if and only if git blame knows of a chunk.
WrittenIfBlamed == i = Len(chunks) => (Matches <=> chunks # <<>>)

\* catalogue(): a test without chunks, and no other, goes by without a word.
THEOREM WrittenWhenBlamed == Spec => []WrittenIfBlamed
<1>1. IInv => WrittenIfBlamed
    BY BlameAssumption DEF IInv, TypeOK, Started, WrittenIfBlamed, Matches
<1> QED
    BY <1>1, FoldInvariant, PTL

\* One more chunk keeps the last commit that of the last chunk in the file.
LEMMA LastInFileStep ==
    ASSUME IInv, IInv', LastInFile, Fold
    PROVE  LastInFile'
<1>1. i' \in Nat /\ i' > 0 /\ i' = i + 1 /\ chunks' = chunks /\ i \in Nat
      /\ Folded' = Folded \union {i'} /\ i' \notin Folded /\ Folded = 1 .. i
    BY NextChunk DEF IInv, TypeOK, Folded
<1>2. CASE lastAt = NoTime \/ createdAt' < FinalTime(i')
    <2>1. lastCommit' = chunks'[i'].final
        BY <1>1, <1>2 DEF Fold, FoldLast, FinalTime
    <2>2. \A k \in Folded' : ~(k > i')
        BY <1>1
    <2> QED
        BY <1>1, <2>1, <2>2 DEF LastInFile
<1>3. CASE ~(lastAt = NoTime \/ createdAt' < FinalTime(i'))
    <2>1. /\ i > 0 /\ lastCommit' = lastCommit
          /\ \A m \in Folded' : FinalTime(i') <= OrigTime(m)'
        BY <1>3, SkippedIsOld
    <2>2. PICK j \in Folded :
            /\ lastCommit = chunks[j].final
            /\ \A k \in Folded : k > j =>
                \A m \in 1 .. k : FinalTime(k) <= OrigTime(m)
        BY <2>1 DEF LastInFile
    <2>3. ASSUME NEW k \in Folded', k > j, NEW m \in 1 .. k
          PROVE  FinalTime(k)' <= OrigTime(m)'
        <3>1. CASE k = i'
            <4>1. m \in Folded'
                BY <1>1, <3>1
            <4>2. FinalTime(k)' = FinalTime(k)
                BY <1>1 DEF FinalTime
            <4> QED
                BY <2>1, <3>1, <4>1, <4>2
        <3>2. CASE k \in Folded
            BY <1>1, <2>2, <2>3, <3>2 DEF FinalTime, OrigTime
        <3> QED
            BY <1>1, <3>1, <3>2
    <2> QED
        BY <1>1, <2>1, <2>2, <2>3 DEF LastInFile
<1> QED
    BY <1>2, <1>3

\* catalogue(): the last commit is that of the last chunk in the file, and not
\* the latest; only chunks no newer than the whole test before them are skipped.
THEOREM LastIsLastInFile == Spec => []LastInFile
<1>1. Init => LastInFile
    BY DEF Init, LastInFile
<1>2. IInv /\ IInv' /\ LastInFile /\ [Next]_vars => LastInFile'
    <2>1. CASE UNCHANGED vars
        BY <2>1 DEF vars, LastInFile, Folded, FinalTime, OrigTime
    <2> QED
        BY <2>1, LastInFileStep DEF Next
<1> QED
    BY <1>1, <1>2, FoldInvariant, PTL DEF Spec

\* One more chunk in order is the latest, or as old as everything before it.
LEMMA LatestStep ==
    ASSUME IInv, IInv', LatestIfInOrder, Fold
    PROVE  LatestIfInOrder'
<1> SUFFICES ASSUME InOrder', NEW j \in Folded'
             PROVE  FinalTime(j)' <= lastAt'
    BY DEF LatestIfInOrder
<1>1. /\ i' \in Nat /\ i' > 0 /\ i' = i + 1 /\ i' <= Len(chunks) /\ chunks' = chunks
      /\ Folded' = 1 .. i' /\ chunks \in Seq(Chunk)
    BY NextChunk DEF IInv, TypeOK, Folded
<1>2. j \in DOMAIN chunks /\ i' \in DOMAIN chunks /\ j <= i'
    BY <1>1
<1>3. FinalTime(j)' = FinalTime(j) /\ FinalTime(j) <= FinalTime(i')
    BY <1>1, <1>2 DEF InOrder, FinalTime
<1>4. FinalTime(j) \in Nat /\ FinalTime(i') \in Nat /\ lastAt' \in Nat
      /\ createdAt' \in Nat
    <2>1. chunks[j] \in Chunk /\ chunks[i'] \in Chunk
        BY <1>1, <1>2
    <2> QED
        BY <1>1, <2>1, BlameAssumption DEF FinalTime, Chunk, IInv, Started
<1>5. CASE lastAt = NoTime \/ createdAt' < FinalTime(i')
    <2>1. lastAt' = FinalTime(i')
        BY <1>5 DEF Fold, FoldLast, FinalTime
    <2> QED
        BY <1>3, <1>4, <2>1
<1>6. CASE ~(lastAt = NoTime \/ createdAt' < FinalTime(i'))
    <2>1. FinalTime(i') <= createdAt'
        BY <1>6, SkippedIsOld
    <2>2. createdAt' <= lastAt'
        BY <1>1 DEF IInv, LastIsOneCommit
    <2> QED
        BY <1>3, <1>4, <2>1, <2>2
<1> QED
    BY <1>5, <1>6

\* If the chunks are in the order of their last changes, as a single chunk is,
\* the last commit is the latest one, as the README of test-catalog says.
THEOREM LatestInOrder == Spec => []LatestIfInOrder
<1>1. Init => LatestIfInOrder
    BY DEF Init, LatestIfInOrder, Folded
<1>2. IInv /\ IInv' /\ LatestIfInOrder /\ [Next]_vars => LatestIfInOrder'
    <2>1. CASE UNCHANGED vars
        BY <2>1 DEF vars, LatestIfInOrder, InOrder, Folded, FinalTime
    <2> QED
        BY <2>1, LatestStep DEF Next
<1> QED
    BY <1>1, <1>2, FoldInvariant, PTL DEF Spec

=============================================================================
