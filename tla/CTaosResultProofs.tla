------------------------- MODULE CTaosResultProofs -------------------------
(***************************************************************************)
(* Proofs about CTaosResult, for any sets of tasks and results and results *)
(* of any size: the type invariant, the ownership of results on every way  *)
(* out of a method, which results stay unfreed, the rows that fetch_fields *)
(* returns, and that its loop ends.                                        *)
(***************************************************************************)
EXTENDS CTaosResult, SequenceTheorems, TLAPS

-----------------------------------------------------------------------------
(* The parts of the inductive invariant *)

\* A task owns a result exactly while it is in a method or holds it.
OwnerByPc == \A t \in Task : pc[t] \in {"idle", "panicked"} <=> res[t] = NoResult

\* Nothing has been read of a result that was not handed out, or has just been.
Unread(r) == cursor[r] = 0 /\ returned[r] = <<>>
FreshUnread ==
    /\ \A r \in Result \ Given : Unread(r)
    /\ \A t \in Task : pc[t] = "new" => Unread(res[t])

\* Rows are being collected only inside fetch_fields, and a row that is being
\* converted has been fetched.
CollectedInFetch ==
    \A t \in Task :
        /\ pc[t] \notin {"fetch", "convert"} => rows[t] = <<>>
        /\ pc[t] = "convert" => cursor[res[t]] >= 1

IInv ==
    /\ TypeOK
    /\ OwnedIsLive
    /\ OnlyProbesLeak
    /\ OwnerByPc
    /\ FreshUnread
    /\ CollectedInFetch
    /\ RowsExact
    /\ AllRows

Ownership == OwnedIsLive /\ OnlyProbesLeak /\ OwnerByPc

-----------------------------------------------------------------------------
(* Lemmas *)

\* The rows 1, ..., n in their order.
Prefix(n) == [i \in 1 .. n |-> i]

\* One more row at the end of a prefix.
LEMMA PrefixAppend ==
    ASSUME NEW n \in Nat, n >= 1, NEW s \in Seq(Nat), NEW q \in Seq(Nat),
           s \o q = Prefix(n - 1)
    PROVE  s \o Append(q, n) = Prefix(n)
<1> DEFINE a == Append(q, n)
<1>1. /\ Len(s) \in Nat /\ Len(q) \in Nat /\ Len(s) + Len(q) = n - 1
      /\ \A i \in 1 .. n - 1 : (IF i <= Len(s) THEN s[i] ELSE q[i - Len(s)]) = i
  <2>1. /\ s \o q \in Seq(Nat) /\ Len(s \o q) = Len(s) + Len(q)
        /\ \A i \in 1 .. Len(s) + Len(q) :
                (s \o q)[i] = IF i <= Len(s) THEN s[i] ELSE q[i - Len(s)]
    BY ConcatProperties
  <2>2. Len(s) \in Nat /\ Len(q) \in Nat
    BY LenProperties
  <2>3. Len(s \o q) = n - 1
    BY <2>1, LenProperties DEF Prefix
  <2> QED
    BY <2>1, <2>2, <2>3 DEF Prefix
<1>2. /\ a \in Seq(Nat) /\ Len(a) = Len(q) + 1 /\ a[Len(q) + 1] = n
      /\ \A i \in 1 .. Len(q) : a[i] = q[i]
    BY AppendProperties
<1> HIDE DEF a
<1>3. /\ s \o a \in Seq(Nat) /\ Len(s \o a) = n
      /\ \A i \in 1 .. n : (s \o a)[i] = IF i <= Len(s) THEN s[i] ELSE a[i - Len(s)]
  <2>1. /\ s \o a \in Seq(Nat) /\ Len(s \o a) = Len(s) + Len(a)
        /\ \A i \in 1 .. Len(s) + Len(a) :
                (s \o a)[i] = IF i <= Len(s) THEN s[i] ELSE a[i - Len(s)]
    BY <1>2, ConcatProperties
  <2>2. Len(s) + Len(a) = n
    BY <1>1, <1>2
  <2> QED
    BY <2>1, <2>2
<1>4. ASSUME NEW i \in 1 .. n
      PROVE  (s \o a)[i] = i
  <2>0. /\ i \in Int /\ Len(s) \in Int /\ 1 <= i /\ i <= n
        /\ Len(s) + Len(q) = n - 1
    BY <1>1
  <2>1. CASE i <= Len(s)
    BY <2>1, <1>1, <1>3
  <2>2. CASE ~(i <= Len(s)) /\ i # n
    <3>1. i \in 1 .. n - 1 /\ i - Len(s) \in 1 .. Len(q)
      BY <2>0, <2>2, <1>1
    <3>2. (s \o a)[i] = a[i - Len(s)] /\ a[i - Len(s)] = q[i - Len(s)]
      BY <3>1, <2>2, <1>2, <1>3
    <3>3. q[i - Len(s)] = i
      BY <3>1, <2>2, <1>1
    <3> QED
      BY <3>2, <3>3
  <2>3. CASE ~(i <= Len(s)) /\ i = n
    <3>1. i - Len(s) = Len(q) + 1
      BY <2>0, <2>3, <1>1
    <3> QED
      BY <3>1, <2>3, <1>2, <1>3
  <2> QED
    BY <2>1, <2>2, <2>3
<1>5. DOMAIN (s \o a) = 1 .. n
    BY <1>3, LenProperties
<1>6. s \o a = Prefix(n)
    BY <1>3, <1>4, <1>5, LenProperties DEF Prefix
<1> QED
    BY <1>6 DEF a

\* What a task in a method owns is a live result that the library handed out.
LEMMA OwnedGiven ==
    ASSUME IInv, NEW t \in Task, pc[t] \notin {"idle", "panicked"}
    PROVE  /\ res[t] \in live /\ res[t] \in Given /\ res[t] \in Result
           /\ answer[res[t]] \in Answer
<1>1. res[t] \in Result /\ res[t] # NoResult
    BY DEF IInv, TypeOK, OwnerByPc
<1>2. res[t] \in live
    BY <1>1 DEF IInv, OwnedIsLive, Owned
<1> QED
    BY <1>1, <1>2 DEF IInv, TypeOK, Given

\* Every step keeps the types.
LEMMA TypeStep ==
    ASSUME IInv, [Next]_vars
    PROVE  TypeOK'
<1> USE ResultAssumption DEF TypeOK, Goto, Given, history
<1>1. ASSUME NEW t \in Task, NEW m \in Method, NEW r \in Result, NEW a \in Answer,
             Call(t, m, r, a)
      PROVE  TypeOK'
    BY <1>1 DEF IInv, Call, Allocate
<1>2. ASSUME NEW t \in Task, NewFails(t)
      PROVE  TypeOK'
    BY <1>2 DEF IInv, NewFails, Free
<1>3. ASSUME NEW t \in Task, NewOk(t)
      PROVE  TypeOK'
    BY <1>3 DEF IInv, NewOk, Method
<1>4. ASSUME NEW t \in Task, HeldFetch(t) \/ HeldDrop(t)
      PROVE  TypeOK'
    BY <1>4 DEF IInv, HeldFetch, HeldDrop
<1>5. ASSUME NEW t \in Task, FetchRow(t)
      PROVE  TypeOK'
  <2>1. pc[t] = "fetch"
    BY <1>5 DEF FetchRow
  <2>2. res[t] \in Result /\ answer[res[t]] \in Answer
    BY <2>1, OwnedGiven
  <2>3. answer[res[t]].size \in 0 .. MaxRows /\ cursor[res[t]] \in 0 .. MaxRows
    BY <2>2 DEF IInv, Answer
  <2>4. cursor[res[t]] < answer[res[t]].size
    BY <1>5 DEF FetchRow
  <2>5. cursor[res[t]] + 1 \in 0 .. MaxRows
    BY <2>3, <2>4
  <2> QED
    BY <1>5, <2>5 DEF IInv, FetchRow
<1>6. ASSUME NEW t \in Task, Convert(t)
      PROVE  TypeOK'
  <2>1. pc[t] = "convert"
    BY <1>6 DEF Convert
  <2>a. res[t] \in Result
    BY <2>1, OwnedGiven
  <2>b. cursor[res[t]] \in 0 .. MaxRows
    BY <2>a DEF IInv
  <2>c. cursor[res[t]] >= 1
    BY <2>1 DEF IInv, CollectedInFetch
  <2>2. cursor[res[t]] \in 1 .. MaxRows
    BY <2>b, <2>c
  <2>3. Append(rows[t], cursor[res[t]]) \in Seq(1 .. MaxRows)
    BY <2>2, AppendProperties DEF IInv
  <2> QED
    BY <1>6, <2>3 DEF IInv, Convert
<1>7. ASSUME NEW t \in Task, ConvertPanics(t)
      PROVE  TypeOK'
    BY <1>7 DEF IInv, ConvertPanics, Free
<1>8. ASSUME NEW t \in Task, FetchEnd(t)
      PROVE  TypeOK'
  <2>1. pc[t] = "fetch"
    BY <1>8 DEF FetchEnd
  <2>2. res[t] \in Given /\ res[t] \in Result
    BY <2>1, OwnedGiven
  <2>3. returned[res[t]] \o rows[t] \in Seq(1 .. MaxRows)
    BY <2>2, ConcatProperties DEF IInv
  <2> QED
    BY <1>8, <2>2, <2>3 DEF IInv, FetchEnd
<1>9. ASSUME NEW t \in Task, FreeResult(t)
      PROVE  TypeOK'
    BY <1>9 DEF IInv, FreeResult, Free
<1>10. ASSUME NEW r \in Result, NEW a \in Answer, Probe(r, a)
       PROVE  TypeOK'
    BY <1>10 DEF IInv, Probe, Allocate
<1>11. CASE UNCHANGED vars
    BY <1>11 DEF IInv, vars
<1> QED
    BY <1>1, <1>2, <1>3, <1>4, <1>5, <1>6, <1>7, <1>8, <1>9, <1>10, <1>11 DEF Next

\* Every result keeps one owner, and loses it only by being freed.
LEMMA OwnershipStep ==
    ASSUME IInv, [Next]_vars
    PROVE  Ownership'
<1> USE ResultAssumption DEF TypeOK, Goto, Given, history, Ownership, OwnedIsLive,
        OnlyProbesLeak, OwnerByPc, Owned
<1>1. ASSUME NEW t \in Task, NEW m \in Method, NEW r \in Result, NEW a \in Answer,
             Call(t, m, r, a)
      PROVE  Ownership'
    BY <1>1 DEF IInv, Call, Allocate
<1>2. ASSUME NEW t \in Task, NewFails(t)
      PROVE  Ownership'
    BY <1>2 DEF IInv, NewFails, Free
<1>3. ASSUME NEW t \in Task, NewOk(t)
      PROVE  Ownership'
    BY <1>3 DEF IInv, NewOk, Method
<1>4. ASSUME NEW t \in Task, HeldFetch(t) \/ HeldDrop(t)
      PROVE  Ownership'
    BY <1>4 DEF IInv, HeldFetch, HeldDrop
<1>5. ASSUME NEW t \in Task, FetchRow(t)
      PROVE  Ownership'
    BY <1>5 DEF IInv, FetchRow
<1>6. ASSUME NEW t \in Task, Convert(t)
      PROVE  Ownership'
    BY <1>6 DEF IInv, Convert
<1>7. ASSUME NEW t \in Task, ConvertPanics(t)
      PROVE  Ownership'
    BY <1>7 DEF IInv, ConvertPanics, Free
<1>8. ASSUME NEW t \in Task, FetchEnd(t)
      PROVE  Ownership'
    BY <1>8 DEF IInv, FetchEnd
<1>9. ASSUME NEW t \in Task, FreeResult(t)
      PROVE  Ownership'
    BY <1>9 DEF IInv, FreeResult, Free
<1>10. ASSUME NEW r \in Result, NEW a \in Answer, Probe(r, a)
       PROVE  Ownership'
    BY <1>10 DEF IInv, Probe, Allocate
<1>11. CASE UNCHANGED vars
    BY <1>11 DEF IInv, vars
<1> QED
    BY <1>1, <1>2, <1>3, <1>4, <1>5, <1>6, <1>7, <1>8, <1>9, <1>10, <1>11 DEF Next

\* The part of the invariant that is about rows.
RowsInv == FreshUnread /\ CollectedInFetch /\ RowsExact

\* A step that moves one task, and touches the rows and the cursor of no other
\* task's result, has to be looked at for that task only.
LEMMA RowsLocal ==
    ASSUME IInv, NEW t \in Task,
           \A u \in Task \ {t} :
                /\ pc'[u] = pc[u] /\ res'[u] = res[u] /\ rows'[u] = rows[u]
                /\ res[u] # NoResult =>
                        /\ cursor'[res[u]] = cursor[res[u]]
                        /\ returned'[res[u]] = returned[res[u]],
           pc'[t] # "new" /\ UNCHANGED answer,
           \A r \in Result \ Given : Unread(r)',
           pc'[t] \notin {"fetch", "convert"} => rows'[t] = <<>>,
           pc'[t] = "convert" => cursor'[res'[t]] >= 1,
           pc'[t] \in {"held", "fetch", "convert", "free"} =>
                returned'[res'[t]] \o rows'[t] = [i \in 1 .. Converted(t)' |-> i]
    PROVE  RowsInv'
<1>1. FreshUnread'
  <2>1. ASSUME NEW u \in Task, pc'[u] = "new"
        PROVE  cursor'[res'[u]] = 0 /\ returned'[res'[u]] = <<>>
    <3>1. u # t /\ pc[u] = "new" /\ res'[u] = res[u]
      BY <2>1
    <3>2. res[u] # NoResult /\ Unread(res[u])
      BY <3>1 DEF IInv, FreshUnread, OwnerByPc
    <3> QED
      BY <3>1, <3>2 DEF Unread
  <2>2. Given' = Given
    BY DEF Given
  <2> QED
    BY <2>1, <2>2 DEF FreshUnread, Unread
<1>2. CollectedInFetch'
    BY DEF IInv, CollectedInFetch, OwnerByPc
<1>3. RowsExact'
  <2>1. ASSUME NEW u \in Task \ {t}, pc[u] \in {"held", "fetch", "convert", "free"}
        PROVE  returned'[res'[u]] \o rows'[u] = [i \in 1 .. Converted(u)' |-> i]
    <3>1. res[u] # NoResult
      BY <2>1 DEF IInv, OwnerByPc
    <3>2. /\ pc'[u] = pc[u] /\ res'[u] = res[u] /\ rows'[u] = rows[u]
          /\ cursor'[res[u]] = cursor[res[u]] /\ returned'[res[u]] = returned[res[u]]
      BY <3>1
    <3>3. Converted(u)' = Converted(u)
      BY <3>2 DEF Converted
    <3>4. returned[res[u]] \o rows[u] = [i \in 1 .. Converted(u) |-> i]
      BY <2>1 DEF IInv, RowsExact
    <3> QED
      BY <3>2, <3>3, <3>4
  <2> QED
    BY <2>1 DEF RowsExact
<1> QED
    BY <1>1, <1>2, <1>3 DEF RowsInv

\* Every step of a task that already has its result.
LEMMA RowsTaskStep ==
    ASSUME IInv, NEW t \in Task,
           \/ NewFails(t) \/ NewOk(t) \/ HeldFetch(t) \/ HeldDrop(t)
           \/ FetchRow(t) \/ Convert(t) \/ ConvertPanics(t) \/ FetchEnd(t)
           \/ FreeResult(t)
    PROVE  RowsInv'
<1> USE DEF Goto, history
<1>1. pc[t] \notin {"idle", "panicked"}
    BY DEF NewFails, NewOk, HeldFetch, HeldDrop, FetchRow, Convert, ConvertPanics,
           FetchEnd, FreeResult
<1>2. res[t] \in Result /\ res[t] \in Given
    BY <1>1, OwnedGiven
<1>3. ASSUME NEW u \in Task \ {t}, res[u] # NoResult
      PROVE  res[u] # res[t] /\ res[u] \in Result
    BY <1>3 DEF IInv, TypeOK, OwnedIsLive
<1>4. /\ \A r \in Result \ Given : r # res[t] /\ cursor[r] = 0 /\ returned[r] = <<>>
      /\ cursor \in [Result -> 0 .. MaxRows] /\ returned \in [Result -> Seq(1 .. MaxRows)]
      /\ pc \in [Task -> {"idle", "new", "held", "fetch", "convert", "free", "panicked"}]
      /\ res \in [Task -> Result \union {NoResult}]
      /\ rows \in [Task -> Seq(1 .. MaxRows)]
      /\ MaxRows \in Nat
    BY <1>2, ResultAssumption DEF IInv, TypeOK, FreshUnread, Unread
<1>5. /\ pc[t] \notin {"fetch", "convert"} => rows[t] = <<>>
      /\ pc[t] = "convert" => cursor[res[t]] >= 1
      /\ pc[t] \in {"held", "fetch", "convert", "free"} =>
            returned[res[t]] \o rows[t] = [i \in 1 .. Converted(t) |-> i]
      /\ pc[t] = "new" => cursor[res[t]] = 0 /\ returned[res[t]] = <<>>
    BY DEF IInv, CollectedInFetch, RowsExact, FreshUnread, Unread
<1>6. CASE NewFails(t) \/ FreeResult(t) \/ ConvertPanics(t)
  <2>1. /\ \A u \in Task \ {t} :
                /\ pc'[u] = pc[u] /\ res'[u] = res[u] /\ rows'[u] = rows[u]
                /\ res[u] # NoResult =>
                        /\ cursor'[res[u]] = cursor[res[u]]
                        /\ returned'[res[u]] = returned[res[u]]
        /\ pc'[t] \in {"idle", "panicked"} /\ rows'[t] = <<>>
        /\ UNCHANGED <<answer, cursor, returned>>
    BY <1>4, <1>5, <1>6 DEF NewFails, FreeResult, ConvertPanics
  <2>2. \A r \in Result \ Given : Unread(r)'
    BY <1>4, <2>1 DEF Unread
  <2> QED
    BY <2>1, <2>2, RowsLocal
<1>7. CASE NewOk(t) \/ HeldFetch(t) \/ HeldDrop(t)
  <2>1. /\ \A u \in Task \ {t} : pc'[u] = pc[u]
        /\ pc'[t] \in {"held", "fetch", "free"} /\ pc[t] \in {"new", "held"}
        /\ UNCHANGED <<answer, cursor, returned, res, rows>>
    BY <1>4, <1>7 DEF NewOk, HeldFetch, HeldDrop, IInv, TypeOK, Method
  <2>2. \A r \in Result \ Given : Unread(r)'
    BY <1>4, <2>1 DEF Unread
  <2>3. returned[res[t]] \o rows[t] = [i \in 1 .. cursor[res[t]] |-> i]
    <3>1. CASE pc[t] = "new"
      <4>1. <<>> \o <<>> = [i \in 1 .. 0 |-> i]
        OBVIOUS
      <4> QED
        BY <3>1, <4>1, <1>5
    <3>2. CASE pc[t] = "held"
      BY <3>2, <1>5 DEF Converted
    <3> QED
      BY <2>1, <3>1, <3>2
  <2>4. Converted(t)' = cursor[res[t]]
    BY <2>1 DEF Converted
  <2>5. rows[t] = <<>>
    BY <2>1, <1>5
  <2>6. returned'[res'[t]] \o rows'[t] = [i \in 1 .. Converted(t)' |-> i]
    BY <2>1, <2>3, <2>4
  <2> QED
    BY <2>1, <2>2, <2>5, <2>6, RowsLocal
<1>8. CASE FetchRow(t)
  <2>1. /\ \A u \in Task \ {t} :
                /\ pc'[u] = pc[u]
                /\ res[u] # NoResult => cursor'[res[u]] = cursor[res[u]]
        /\ pc[t] = "fetch" /\ pc'[t] = "convert"
        /\ cursor'[res[t]] = cursor[res[t]] + 1
        /\ \A r \in Result \ Given : cursor'[r] = cursor[r]
        /\ UNCHANGED <<answer, returned, res, rows>>
    BY <1>2, <1>3, <1>4, <1>8 DEF FetchRow
  <2>2. \A r \in Result \ Given : Unread(r)'
    BY <1>4, <2>1 DEF Unread
  <2>3. cursor[res[t]] \in Nat /\ Converted(t) = cursor[res[t]]
    BY <1>2, <1>4, <2>1 DEF Converted
  <2>4. Converted(t)' = cursor[res[t]] /\ cursor'[res'[t]] >= 1
    BY <2>1, <2>3 DEF Converted
  <2>5. returned'[res'[t]] \o rows'[t] = [i \in 1 .. Converted(t)' |-> i]
    BY <2>1, <2>3, <2>4, <1>5
  <2> QED
    BY <2>1, <2>2, <2>4, <2>5, RowsLocal
<1>9. CASE Convert(t)
  <2>1. /\ \A u \in Task \ {t} : pc'[u] = pc[u] /\ rows'[u] = rows[u]
        /\ pc[t] = "convert" /\ pc'[t] = "fetch"
        /\ rows'[t] = Append(rows[t], cursor[res[t]])
        /\ UNCHANGED <<answer, returned, res, cursor>>
    BY <1>4, <1>9 DEF Convert
  <2>2. \A r \in Result \ Given : Unread(r)'
    BY <1>4, <2>1 DEF Unread
  <2> DEFINE n == cursor[res[t]]
  <2>3. n \in Nat /\ n >= 1 /\ Converted(t) = n - 1 /\ Converted(t)' = n
    BY <1>2, <1>4, <1>5, <2>1 DEF Converted
  <2>4. returned[res[t]] \in Seq(Nat) /\ rows[t] \in Seq(Nat)
    BY <1>2, <1>4, SeqMonotonic
  <2>5. returned[res[t]] \o rows[t] = Prefix(n - 1)
    BY <2>1, <2>3, <1>5 DEF Prefix
  <2> HIDE DEF n
  <2>6. returned[res[t]] \o Append(rows[t], n) = Prefix(n)
    BY <2>3, <2>4, <2>5, PrefixAppend
  <2>7. returned'[res'[t]] \o rows'[t] = [i \in 1 .. Converted(t)' |-> i]
    BY <2>1, <2>3, <2>6 DEF Prefix, n
  <2> QED
    BY <2>1, <2>2, <2>7, RowsLocal
<1>10. CASE FetchEnd(t)
  <2>1. /\ \A u \in Task \ {t} :
                /\ pc'[u] = pc[u] /\ rows'[u] = rows[u]
                /\ res[u] # NoResult => returned'[res[u]] = returned[res[u]]
        /\ pc[t] = "fetch" /\ pc'[t] \in {"held", "free"}
        /\ rows'[t] = <<>>
        /\ returned'[res[t]] = returned[res[t]] \o rows[t]
        /\ \A r \in Result \ Given : returned'[r] = returned[r]
        /\ UNCHANGED <<answer, cursor, res>>
    BY <1>2, <1>3, <1>4, <1>10 DEF FetchEnd
  <2>2. \A r \in Result \ Given : Unread(r)'
    BY <1>4, <2>1 DEF Unread
  <2>3. Converted(t)' = Converted(t)
    BY <2>1 DEF Converted
  <2>4. returned[res[t]] \o rows[t] \in Seq(1 .. MaxRows)
    BY <1>2, <1>4, ConcatProperties
  <2>5. returned'[res[t]] \o <<>> = returned'[res[t]]
    BY <2>1, <2>4, ConcatEmptySeq
  <2>6. returned'[res'[t]] \o rows'[t] = [i \in 1 .. Converted(t)' |-> i]
    BY <2>1, <2>3, <2>5, <1>5
  <2> QED
    BY <2>1, <2>2, <2>6, RowsLocal
<1> QED
    BY <1>6, <1>7, <1>8, <1>9, <1>10

\* Every step keeps the part about rows: a new result is unread, a probe has no
\* owner, and every other step is one of a task that has its result.
LEMMA RowsStep ==
    ASSUME IInv, [Next]_vars
    PROVE  RowsInv'
<1> USE DEF Goto, history
<1>1. ASSUME NEW t \in Task, NEW m \in Method, NEW r \in Result, NEW a \in Answer,
             Call(t, m, r, a)
      PROVE  RowsInv'
  <2>1. /\ \A u \in Task \ {t} : pc'[u] = pc[u] /\ res'[u] = res[u]
        /\ pc[t] = "idle" /\ pc'[t] = "new" /\ res'[t] = r
        /\ r \notin Given /\ Given' = Given \union {r}
        /\ UNCHANGED <<cursor, returned, rows>>
    BY <1>1 DEF IInv, TypeOK, Call, Allocate, Given
  <2>2. FreshUnread'
    BY <2>1 DEF IInv, FreshUnread, Unread
  <2>3. CollectedInFetch'
    BY <2>1 DEF IInv, CollectedInFetch
  <2>4. ASSUME NEW u \in Task, pc'[u] \in {"held", "fetch", "convert", "free"}
        PROVE  returned'[res'[u]] \o rows'[u] = [i \in 1 .. Converted(u)' |-> i]
    <3>1. u # t /\ pc'[u] = pc[u] /\ res'[u] = res[u]
      BY <2>1, <2>4
    <3>2. Converted(u)' = Converted(u)
      BY <2>1, <3>1 DEF Converted
    <3>3. returned[res[u]] \o rows[u] = [i \in 1 .. Converted(u) |-> i]
      BY <2>4, <3>1 DEF IInv, RowsExact
    <3> QED
      BY <2>1, <3>1, <3>2, <3>3
  <2>5. RowsExact'
    BY <2>4 DEF RowsExact
  <2> QED
    BY <2>2, <2>3, <2>5 DEF RowsInv
<1>2. ASSUME NEW r \in Result, NEW a \in Answer, Probe(r, a)
      PROVE  RowsInv'
  <2>1. Given' = Given \union {r} /\ UNCHANGED <<cursor, returned, rows, pc, res>>
    BY <1>2 DEF IInv, TypeOK, Probe, Allocate, Given
  <2> QED
    BY <2>1 DEF IInv, RowsInv, FreshUnread, Unread, CollectedInFetch, RowsExact,
                Converted
<1>3. CASE UNCHANGED vars
    BY <1>3 DEF vars, IInv, RowsInv, FreshUnread, Unread, CollectedInFetch, RowsExact,
                Converted, Given
<1> QED
    BY <1>1, <1>2, <1>3, RowsTaskStep DEF Next

\* Every step keeps AllRows: the rows returned so far and those collected are
\* all that were handed out, and a fetch_fields that ends uninterrupted has been
\* handed out all.
LEMMA AllRowsStep ==
    ASSUME IInv, [Next]_vars
    PROVE  AllRows'
<1> USE DEF Goto, history
<1>1. ASSUME NEW t \in Task, FetchEnd(t)
      PROVE  AllRows'
  <2>1. /\ pc[t] = "fetch" /\ res[t] \in Result
        /\ returned \in [Result -> Seq(1 .. MaxRows)] /\ rows[t] \in Seq(1 .. MaxRows)
        /\ cursor[res[t]] \in Nat
        /\ fetched \subseteq Result /\ UNCHANGED answer
        /\ returned' = [returned EXCEPT ![res[t]] = @ \o rows[t]]
        /\ fetched' = fetched \union {res[t]}
    BY <1>1, OwnedGiven, ResultAssumption DEF IInv, TypeOK, FetchEnd
  <2>2. returned[res[t]] \o rows[t] = [i \in 1 .. cursor[res[t]] |-> i]
    BY <2>1 DEF IInv, RowsExact, Converted
  <2>3. Len(returned[res[t]] \o rows[t]) = cursor[res[t]]
    <3>1. returned[res[t]] \o rows[t] \in Seq(1 .. MaxRows)
      BY <2>1, ConcatProperties
    <3> QED
      BY <2>1, <2>2, <3>1, LenProperties
  <2>4. CASE cursor[res[t]] = answer[res[t]].size /\ interrupted' = interrupted
    BY <2>1, <2>3, <2>4 DEF IInv, AllRows
  <2>5. CASE interrupted' = interrupted \union {res[t]}
    BY <2>1, <2>5 DEF IInv, AllRows
  <2> QED
    BY <1>1, <2>4, <2>5 DEF FetchEnd
<1>2. ASSUME NEW t \in Task,
             \/ NewFails(t) \/ NewOk(t) \/ HeldFetch(t) \/ HeldDrop(t)
             \/ FetchRow(t) \/ Convert(t) \/ ConvertPanics(t) \/ FreeResult(t)
      PROVE  AllRows'
  <2>1. UNCHANGED <<answer, returned, fetched, interrupted>>
    BY <1>2 DEF NewFails, NewOk, HeldFetch, HeldDrop, FetchRow, Convert,
                ConvertPanics, FreeResult
  <2> QED
    BY <2>1 DEF IInv, AllRows
<1>3. ASSUME NEW r \in Result, NEW a \in Answer, Allocate(r, a),
             UNCHANGED <<returned, fetched, interrupted>>
      PROVE  AllRows'
  <2>1. \A x \in fetched : x \in Given /\ x # r
    BY <1>3 DEF IInv, TypeOK, Allocate
  <2>2. \A x \in fetched : answer'[x] = answer[x]
    BY <1>3, <2>1 DEF Allocate
  <2> QED
    BY <1>3, <2>2 DEF IInv, AllRows
<1>4. CASE UNCHANGED vars
    BY <1>4 DEF vars, IInv, AllRows
<1> QED
    BY <1>1, <1>2, <1>3, <1>4 DEF Next, Call, Probe

-----------------------------------------------------------------------------
(* Theorems *)

\* The inductive invariant holds in every reachable state.
THEOREM Invariance == Spec => []IInv
<1>1. Init => IInv
  <2> SUFFICES ASSUME Init
               PROVE  IInv
    OBVIOUS
  <2>1. TypeOK
    BY ResultAssumption DEF Init, TypeOK, Given, Method
  <2>2. Ownership
    BY DEF Init, Ownership, OwnedIsLive, OnlyProbesLeak, OwnerByPc, Owned
  <2>3. FreshUnread /\ CollectedInFetch /\ RowsExact /\ AllRows
    BY DEF Init, FreshUnread, Unread, CollectedInFetch, RowsExact, AllRows, Given
  <2> QED
    BY <2>1, <2>2, <2>3 DEF IInv, Ownership
<1>2. IInv /\ [Next]_vars => IInv'
    BY TypeStep, OwnershipStep, RowsStep, AllRowsStep DEF IInv, Ownership, RowsInv
<1> QED
    BY <1>1, <1>2, PTL DEF Spec

\* The types of the component, for any tasks and results.
THEOREM TypeCorrect == Spec => []TypeOK
<1>1. IInv => TypeOK
    BY DEF IInv
<1> QED
    BY <1>1, Invariance, PTL

\* No task touches a freed result and no result is freed twice.
THEOREM NoUseAfterFree == Spec => []OwnedIsLive
<1>1. IInv => OwnedIsLive
    BY DEF IInv
<1> QED
    BY <1>1, Invariance, PTL

\* Every way out of a method frees its result.
THEOREM ResultsFreed == Spec => []OnlyProbesLeak
<1>1. IInv => OnlyProbesLeak
    BY DEF IInv
<1> QED
    BY <1>1, Invariance, PTL

\* fetch_fields returns the rows that were handed out, each once, in order.
THEOREM RowsReturnedExactly == Spec => []RowsExact
<1>1. IInv => RowsExact
    BY DEF IInv
<1> QED
    BY <1>1, Invariance, PTL

\* A fetch_fields that was not interrupted has returned every row.
THEOREM AllRowsReturned == Spec => []AllRows
<1>1. IInv => AllRows
    BY DEF IInv
<1> QED
    BY <1>1, Invariance, PTL

-----------------------------------------------------------------------------
(* The leak of the probes, exactly *)

\* The results that are not freed are those that a CTaosResult owns and those of
\* all probes there have been, which nobody owns.
LiveExactly == live = Owned \union probes /\ Owned \intersect probes = {}

\* A probe is nobody's result, and what is freed was somebody's.
LEMMA LiveExactlyStep ==
    ASSUME IInv, LiveExactly, [Next]_vars
    PROVE  LiveExactly'
<1> USE ResultAssumption DEF IInv, TypeOK, OwnedIsLive, OwnerByPc, LiveExactly, Owned
<1>1. ASSUME NEW t \in Task, NEW m \in Method, NEW r \in Result, NEW a \in Answer,
             Call(t, m, r, a)
      PROVE  LiveExactly'
  <2>1. r # NoResult /\ r \notin live /\ r \notin probes /\ res[t] = NoResult
    BY <1>1 DEF Call, Allocate, Goto
  <2>2. Owned' = Owned \union {r}
    BY <1>1, <2>1 DEF Call
  <2> QED
    BY <1>1, <2>1, <2>2 DEF Call, Allocate
<1>2. ASSUME NEW t \in Task, pc[t] \notin {"idle", "panicked"},
             Free(res[t]), res' = [res EXCEPT ![t] = NoResult], probes' = probes
      PROVE  LiveExactly'
  <2>1. res[t] # NoResult /\ \A u \in Task \ {t} : res[u] # res[t]
    BY <1>2
  <2>2. Owned' = Owned \ {res[t]} /\ res[t] \in Owned
    BY <1>2, <2>1
  <2> QED
    BY <1>2, <2>2 DEF Free
<1>3. ASSUME NEW t \in Task, NewFails(t) \/ ConvertPanics(t) \/ FreeResult(t)
      PROVE  LiveExactly'
    BY <1>2, <1>3 DEF NewFails, ConvertPanics, FreeResult, Goto
<1>4. ASSUME NEW t \in Task,
             \/ NewOk(t) \/ HeldFetch(t) \/ HeldDrop(t) \/ FetchRow(t) \/ Convert(t)
             \/ FetchEnd(t)
      PROVE  LiveExactly'
    BY <1>4 DEF NewOk, HeldFetch, HeldDrop, FetchRow, Convert, FetchEnd
<1>5. ASSUME NEW r \in Result, NEW a \in Answer, Probe(r, a)
      PROVE  LiveExactly'
  <2>1. r \notin Owned
    BY <1>5 DEF Probe, Allocate
  <2> QED
    BY <1>5, <2>1 DEF Probe, Allocate
<1>6. CASE UNCHANGED vars
    BY <1>6 DEF vars
<1> QED
    BY <1>1, <1>3, <1>4, <1>5, <1>6 DEF Next

\* Stmt::execute: the result of every probe stays unfreed for good, and nothing
\* else does.
THEOREM ProbesLeakForGood == Spec => []LiveExactly
<1>1. Init => LiveExactly
    BY DEF Init, LiveExactly, Owned
<1> QED
    BY <1>1, LiveExactlyStep, Invariance, PTL DEF Spec

-----------------------------------------------------------------------------
(* The end of fetch_fields *)

\* How many steps the loop of fetch_fields has left, at most, for task t: two for
\* a row that is still to come, and one for the row in the buffer.
RowsLeft(t) ==
    2 * (answer[res[t]].size - cursor[res[t]]) + (IF pc[t] = "convert" THEN 1 ELSE 0)

\* In the loop of fetch_fields a task either leaves the loop or gets nearer to
\* the end of the rows, which no other task moves.
LoopGetsNearer ==
    \A t \in Task : pc[t] \in {"fetch", "convert"} /\ pc'[t] \in {"fetch", "convert"} =>
        /\ RowsLeft(t)' \in Nat
        /\ IF pc'[t] = pc[t] THEN RowsLeft(t)' = RowsLeft(t)
                             ELSE RowsLeft(t)' < RowsLeft(t)

\* The cursor of a result stays within its rows.
CursorWithin == \A r \in Given : cursor[r] <= answer[r].size

\* Only taos_fetch_row moves a cursor, and not past the last row.
LEMMA CursorWithinStep ==
    ASSUME IInv, CursorWithin, [Next]_vars
    PROVE  CursorWithin'
<1> USE DEF IInv, TypeOK, CursorWithin, Given
<1>1. ASSUME NEW r \in Result, NEW a \in Answer, Allocate(r, a), cursor' = cursor
      PROVE  CursorWithin'
  <2>1. cursor[r] = 0 /\ a.size \in Nat
    BY <1>1 DEF Allocate, FreshUnread, Unread, Answer
  <2> QED
    BY <1>1, <2>1 DEF Allocate
<1>2. ASSUME NEW t \in Task, FetchRow(t)
      PROVE  CursorWithin'
  <2>1. /\ res[t] \in Given /\ answer' = answer
        /\ cursor' = [cursor EXCEPT ![res[t]] = cursor[res[t]] + 1]
        /\ cursor[res[t]] < answer[res[t]].size
    BY <1>2, OwnedGiven DEF FetchRow, Goto
  <2>2. cursor[res[t]] \in Nat /\ answer[res[t]].size \in Nat
    BY <2>1, ResultAssumption DEF Answer
  <2>3. cursor[res[t]] + 1 <= answer[res[t]].size
    BY <2>1, <2>2
  <2> QED
    BY <2>1, <2>3
<1>3. CASE UNCHANGED <<answer, cursor>>
    BY <1>3
<1> QED
    BY <1>1, <1>2, <1>3
       DEF Next, Call, Probe, NewFails, NewOk, HeldFetch, HeldDrop, Convert,
           ConvertPanics, FetchEnd, FreeResult, vars

\* fetch_fields ends after at most two steps for a row and one more, for results
\* of any size, whatever the other tasks do: no row is read twice.
THEOREM FetchRunsOut == Spec => [][LoopGetsNearer]_vars
<1>1. Init => CursorWithin
    BY DEF Init, CursorWithin, Given
<1>2. IInv /\ CursorWithin /\ [Next]_vars => [LoopGetsNearer]_vars
  <2> SUFFICES ASSUME IInv, CursorWithin, Next, NEW t \in Task,
                      pc[t] \in {"fetch", "convert"}, pc'[t] \in {"fetch", "convert"}
               PROVE  /\ RowsLeft(t)' \in Nat
                      /\ IF pc'[t] = pc[t] THEN RowsLeft(t)' = RowsLeft(t)
                                           ELSE RowsLeft(t)' < RowsLeft(t)
    BY DEF LoopGetsNearer
  <2> DEFINE r == res[t]
             size == answer[r].size
  <2>1. /\ r \in Given /\ r \in Result /\ r # NoResult
        /\ size \in Nat /\ cursor[r] \in Nat /\ cursor[r] <= size
    <3>1. r \in Given /\ r \in Result /\ answer[r] \in Answer
      BY OwnedGiven
    <3> QED
      BY <3>1, ResultAssumption DEF IInv, TypeOK, Answer, CursorWithin
  <2>2. CASE FetchRow(t)
    <3>1. /\ pc[t] = "fetch" /\ pc'[t] = "convert" /\ res'[t] = r
          /\ answer'[r].size = size /\ cursor'[r] = cursor[r] + 1 /\ cursor[r] < size
      BY <2>1, <2>2 DEF FetchRow, Goto, IInv, TypeOK
    <3>2. RowsLeft(t) = 2 * (size - cursor[r])
          /\ RowsLeft(t)' = 2 * (size - (cursor[r] + 1)) + 1
      BY <2>1, <3>1 DEF RowsLeft
    <3> QED
      BY <2>1, <3>1, <3>2
  <2>3. CASE Convert(t)
    <3>1. /\ pc[t] = "convert" /\ pc'[t] = "fetch" /\ res'[t] = r
          /\ answer'[r].size = size /\ cursor'[r] = cursor[r]
      BY <2>1, <2>3 DEF Convert, Goto, IInv, TypeOK
    <3>2. RowsLeft(t) = 2 * (size - cursor[r]) + 1
          /\ RowsLeft(t)' = 2 * (size - cursor[r])
      BY <2>1, <3>1 DEF RowsLeft
    <3> QED
      BY <2>1, <3>1, <3>2
  <2>4. CASE /\ pc'[t] = pc[t] /\ res'[t] = r /\ answer'[r] = answer[r]
             /\ cursor'[r] = cursor[r]
    BY <2>1, <2>4 DEF RowsLeft
  <2>5. ASSUME NEW u \in Task, u # t,
               \/ NewFails(u) \/ NewOk(u) \/ HeldFetch(u) \/ HeldDrop(u)
               \/ FetchRow(u) \/ Convert(u) \/ ConvertPanics(u) \/ FetchEnd(u)
               \/ FreeResult(u)
        PROVE  /\ pc'[t] = pc[t] /\ res'[t] = r /\ answer'[r] = answer[r]
               /\ cursor'[r] = cursor[r]
    <3>1. res[u] # r
      BY <2>1, <2>5 DEF IInv, OwnedIsLive
    <3> QED
      BY <2>1, <2>5, <3>1
         DEF IInv, TypeOK, Goto, NewFails, NewOk, HeldFetch, HeldDrop, FetchRow,
             Convert, ConvertPanics, FetchEnd, FreeResult
  <2>6. ASSUME NEW u \in Task, NEW m \in Method, NEW x \in Result, NEW a \in Answer,
               Call(u, m, x, a)
        PROVE  /\ pc'[t] = pc[t] /\ res'[t] = r /\ answer'[r] = answer[r]
               /\ cursor'[r] = cursor[r]
    <3>1. u # t /\ x # r
      BY <2>1, <2>6 DEF Call, Goto, Allocate
    <3> QED
      BY <2>1, <2>6, <3>1 DEF Call, Goto, Allocate, IInv, TypeOK
  <2>7. ASSUME NEW x \in Result, NEW a \in Answer, Probe(x, a)
        PROVE  /\ pc'[t] = pc[t] /\ res'[t] = r /\ answer'[r] = answer[r]
               /\ cursor'[r] = cursor[r]
    <3>1. x # r
      BY <2>1, <2>7 DEF Probe, Allocate
    <3> QED
      BY <2>1, <2>7, <3>1 DEF Probe, Allocate
  <2>8. ~(NewFails(t) \/ NewOk(t) \/ HeldFetch(t) \/ HeldDrop(t) \/ ConvertPanics(t)
            \/ FetchEnd(t) \/ FreeResult(t))
    BY DEF NewFails, NewOk, HeldFetch, HeldDrop, ConvertPanics, FetchEnd,
           FreeResult, Goto, IInv, TypeOK
  <2> QED
    BY <2>2, <2>3, <2>4, <2>5, <2>6, <2>7, <2>8 DEF Next
<1> QED
    BY <1>1, <1>2, CursorWithinStep, Invariance, PTL DEF Spec

============================================================================
