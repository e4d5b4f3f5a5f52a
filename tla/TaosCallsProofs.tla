-------------------------- MODULE TaosCallsProofs --------------------------
(***************************************************************************)
(* Proofs about TaosCalls, for any error numbers, statements and tables    *)
(* and any number of calls: the type invariant, that errors are reported   *)
(* by their own codes on every way, whose text a kept error has, and that  *)
(* descriptions and column metadata are those of the table.                *)
(***************************************************************************)
EXTENDS TaosCalls, SequenceTheorems, WellFoundedInduction, TLAPS

-----------------------------------------------------------------------------
(* The parts of the inductive invariant *)

\* The code of every answer is what its number decodes to.
AnswersDecoded ==
    \A a \in answers :
        \/ Vouched(a)
        \/ /\ a.ok <=> a.errno = Success
           /\ a.code = FromI32(LowHalf(a.errno))

\* An error is of a call that was made; its text is its own, or is in a
\* statement that was closed or keeps the text of this or of a later failure.
TextsKept ==
    \A e \in errors :
        /\ e.call <= calls
        /\ \/ e.text = "own"
           \/ e.text \in Stmt /\ (stmt[e.text] = "closed" \/ buffer[e.text] >= e.call)

IInv == TypeOK /\ AnswersDecoded /\ TextsKept

-----------------------------------------------------------------------------
(* Lemmas *)

\* Success is a code of the table, and Unknown is one of its variants.
LEMMA CodesNumbers == Success \in Codes /\ Unknown \in Codes /\ Unknown # Success
<1>1. Success \in RpcCodes
    BY DEF Success, RpcCodes
<1> QED
    BY <1>1 DEF Codes, Unknown, Success

\* Every number decodes to a variant, and only 0 decodes to success.
LEMMA FromI32Type ==
    ASSUME NEW n
    PROVE  FromI32(n) \in Codes /\ (FromI32(n) = Success <=> n = Success)
BY CodesNumbers DEF FromI32

\* The low half of 0 is 0, and no other error number has that low half.
LEMMA LowHalfSuccess ==
    ASSUME NEW e \in Errno
    PROVE  LowHalf(e) = Success <=> e = Success
<1>1. LowHalf(Success) = Success
    BY DEF LowHalf, Success
<1> QED
    BY <1>1, ErrnoAssumption

\* So an error number decodes to success exactly if it is 0.
LEMMA DecodeSuccess ==
    ASSUME NEW e \in Errno
    PROVE  /\ FromI32(LowHalf(e)) \in Codes
           /\ FromI32(LowHalf(e)) = Success <=> e = Success
BY LowHalfSuccess, FromI32Type

\* A call has a number that is larger than those before it.
LEMMA CallNumber ==
    ASSUME TypeOK, Call
    PROVE  /\ calls' = calls + 1 /\ calls' \in 1 .. MaxCalls /\ calls \in 0 .. MaxCalls
           /\ calls' \in 0 .. MaxCalls /\ calls \in Int
<1>1. calls \in 0 .. MaxCalls /\ MaxCalls \in Nat
    BY StmtAssumption DEF TypeOK
<1> QED
    BY <1>1 DEF Call

\* What the type invariant says of a kept error.
LEMMA ErrorFields ==
    ASSUME TypeOK, NEW e \in errors
    PROVE  e.call \in Int /\ e.call \in 1 .. MaxCalls /\ e.code \in Codes /\ e.text \in Place
<1>1. e \in [call : 1 .. MaxCalls, code : Codes, text : Place]
    BY DEF TypeOK
<1>2. e.call \in 1 .. MaxCalls /\ e.code \in Codes /\ e.text \in Place
    BY <1>1
<1> QED
    BY <1>2

\* What a call returns keeps the parts about answers and errors, if its code is
\* what the number decodes to and its text is kept.
LEMMA ReturnStep ==
    ASSUME IInv, Call, NEW path \in Path, NEW errno \in Errno, NEW text \in Place,
           \/ ReturnOk(path, errno) /\
                (errno = Success \/ (path = "execute" /\ LowHalf(errno) = RpcFqdnError))
           \/ /\ errno # Success
              /\ ReturnErr(path, errno, FromI32(LowHalf(errno)), text)
              /\ \/ text = "own"
                 \/ text \in Stmt /\ (stmt'[text] = "closed" \/ buffer'[text] = calls'),
           \A s \in Stmt : buffer'[s] = buffer[s] \/ buffer'[s] = calls',
           \A s \in Stmt : stmt[s] = "closed" => stmt'[s] = "closed"
    PROVE  /\ answers' \subseteq [path : Path, errno : Errno, ok : BOOLEAN, code : Codes]
           /\ errors' \subseteq [call : 1 .. MaxCalls, code : Codes, text : Place]
           /\ AnswersDecoded' /\ TextsKept'
<1>1. calls' = calls + 1 /\ calls' \in 1 .. MaxCalls /\ calls \in 0 .. MaxCalls
    BY CallNumber DEF IInv
<1>2. Success \in Codes /\ FromI32(LowHalf(errno)) \in Codes
      /\ (FromI32(LowHalf(errno)) = Success <=> errno = Success)
    BY CodesNumbers, DecodeSuccess
<1>3. answers' \subseteq [path : Path, errno : Errno, ok : BOOLEAN, code : Codes]
  <2>1. answers \subseteq [path : Path, errno : Errno, ok : BOOLEAN, code : Codes]
    BY DEF IInv, TypeOK
  <2>2. PICK ok \in BOOLEAN, code \in Codes :
          answers' = answers \union
            {[path |-> path, errno |-> errno, ok |-> ok, code |-> code]}
    BY <1>2 DEF ReturnOk, ReturnErr
  <2>3. [path |-> path, errno |-> errno, ok |-> ok, code |-> code]
            \in [path : Path, errno : Errno, ok : BOOLEAN, code : Codes]
    OBVIOUS
  <2> QED
    BY <2>1, <2>2, <2>3
<1>4. errors' \subseteq [call : 1 .. MaxCalls, code : Codes, text : Place]
  <2>1. errors \subseteq [call : 1 .. MaxCalls, code : Codes, text : Place]
    BY DEF IInv, TypeOK
  <2>2. PICK call \in 1 .. MaxCalls, code \in Codes :
          errors' \subseteq errors \union {[call |-> call, code |-> code, text |-> text]}
    BY <1>1, <1>2 DEF ReturnOk, ReturnErr
  <2>3. [call |-> call, code |-> code, text |-> text]
            \in [call : 1 .. MaxCalls, code : Codes, text : Place]
    OBVIOUS
  <2> QED
    BY <2>1, <2>2, <2>3
<1>5. AnswersDecoded'
    BY <1>2 DEF IInv, AnswersDecoded, ReturnOk, ReturnErr, Vouched
<1>6. TextsKept'
  <2>1. ASSUME NEW e \in errors
        PROVE  /\ e.call <= calls'
               /\ \/ e.text = "own"
                  \/ e.text \in Stmt /\ (stmt'[e.text] = "closed" \/ buffer'[e.text] >= e.call)
    <3>1. e.call \in Int /\ e.call <= calls
      BY ErrorFields DEF IInv, TextsKept
    <3>2. calls \in Int /\ calls' = calls + 1
      BY <1>1, StmtAssumption
    <3>3. e.call <= calls' /\ calls' >= e.call
      BY <3>1, <3>2
    <3> QED
      BY <3>3 DEF IInv, TextsKept
  <2>2. ASSUME NEW e \in errors', e \notin errors
        PROVE  /\ e.call = calls'
               /\ \/ e.text = "own"
                  \/ e.text \in Stmt /\ (stmt'[e.text] = "closed" \/ buffer'[e.text] = e.call)
    BY <2>2 DEF ReturnOk, ReturnErr
  <2>3. calls' \in Int
    BY <1>1, StmtAssumption
  <2>4. ASSUME NEW e \in errors'
        PROVE  /\ e.call <= calls'
               /\ \/ e.text = "own"
                  \/ e.text \in Stmt /\ (stmt'[e.text] = "closed" \/ buffer'[e.text] >= e.call)
    BY <2>1, <2>2, <2>3
  <2> QED
    BY <2>4 DEF TextsKept
<1> QED
    BY <1>3, <1>4, <1>5, <1>6

\* Every call on a connection keeps the invariant.
LEMMA ConnectionStep ==
    ASSUME IInv, NEW errno \in Errno,
           Query(errno) \/ LoadTableInfo(errno) \/ RestQuery(errno)
    PROVE  IInv'
<1>1. Call /\ UNCHANGED <<stmt, buffer, schema>>
    BY DEF Query, LoadTableInfo, RestQuery
<1>2. PICK path \in Path :
        \/ ReturnOk(path, errno) /\ errno = Success
        \/ errno # Success /\ ReturnErr(path, errno, FromI32(LowHalf(errno)), "own")
    BY DecodeSuccess DEF Query, QueryResult, LoadTableInfo, RestQuery, Path
<1>3. "own" \in Place
    BY DEF Place
<1>4. /\ answers' \subseteq [path : Path, errno : Errno, ok : BOOLEAN, code : Codes]
      /\ errors' \subseteq [call : 1 .. MaxCalls, code : Codes, text : Place]
      /\ AnswersDecoded' /\ TextsKept'
    BY <1>1, <1>2, <1>3, ReturnStep
<1>5. calls' \in 0 .. MaxCalls
    BY <1>1, CallNumber DEF IInv
<1>6. TypeOK'
    BY <1>1, <1>4, <1>5 DEF IInv, TypeOK
<1> QED
    BY <1>4, <1>6 DEF IInv

\* Every call on a statement keeps the invariant.
LEMMA StatementStep ==
    ASSUME IInv, NEW s \in Stmt, NEW errno \in Errno,
           \/ NewStmt(s, errno) \/ StmtCall(s, errno)
           \/ BindAgain(s, errno) \/ Execute(s, errno)
    PROVE  IInv'
<1>1. Call /\ UNCHANGED schema
    BY DEF NewStmt, StmtCall, BindAgain, Execute
<1>2. calls' \in 0 .. MaxCalls
    BY <1>1, CallNumber DEF IInv
<1>3. /\ stmt' \in [Stmt -> {"none", "open", "closed"}]
      /\ \A x \in Stmt : stmt[x] = "closed" => stmt'[x] = "closed"
    BY DEF IInv, TypeOK, NewStmt, StmtCall, BindAgain, Execute
<1>4. /\ buffer' \in [Stmt -> 0 .. MaxCalls]
      /\ \A x \in Stmt : buffer'[x] = buffer[x] \/ buffer'[x] = calls'
      /\ errno # Success => buffer'[s] = calls'
    BY <1>2 DEF IInv, TypeOK, NewStmt, StmtCall, BindAgain, Execute, KeepText
<1>5. PICK path \in Path, text \in Place :
        \/ ReturnOk(path, errno) /\
             (errno = Success \/ (path = "execute" /\ LowHalf(errno) = RpcFqdnError))
        \/ /\ errno # Success
           /\ ReturnErr(path, errno, FromI32(LowHalf(errno)), text)
           /\ text \in {"own", s}
  <2>1. "own" \in Place /\ s \in Place /\ "stmt" \in Path /\ "execute" \in Path
    BY DEF Place, Path
  <2>2. FromI32(LowHalf(errno)) = RpcFqdnError => LowHalf(errno) = RpcFqdnError
    BY DEF FromI32, Unknown, RpcFqdnError
  <2>3. CASE ErrOr(s, "stmt", errno) \/ ErrOr(s, "execute", errno)
    BY <2>1, <2>3 DEF ErrOr
  <2>4. CASE FromI32(LowHalf(errno)) = RpcFqdnError /\ ReturnOk("execute", errno)
    BY <2>1, <2>2, <2>4
  <2> QED
    BY <2>3, <2>4 DEF NewStmt, StmtCall, BindAgain, Execute
<1>6. /\ answers' \subseteq [path : Path, errno : Errno, ok : BOOLEAN, code : Codes]
      /\ errors' \subseteq [call : 1 .. MaxCalls, code : Codes, text : Place]
      /\ AnswersDecoded' /\ TextsKept'
    BY <1>1, <1>3, <1>4, <1>5, ReturnStep
<1>7. TypeOK'
    BY <1>1, <1>2, <1>3, <1>4, <1>6 DEF IInv, TypeOK
<1> QED
    BY <1>6, <1>7 DEF IInv

\* The end of a statement keeps the invariant: a text in it may go.
LEMMA CloseStep ==
    ASSUME IInv, NEW s \in Stmt, CloseStmt(s)
    PROVE  IInv'
<1>1. TypeOK'
    BY DEF IInv, TypeOK, CloseStmt
<1>2. AnswersDecoded'
    BY DEF IInv, AnswersDecoded, CloseStmt, Vouched
<1>3. TextsKept'
    BY DEF IInv, TypeOK, TextsKept, CloseStmt
<1> QED
    BY <1>1, <1>2, <1>3 DEF IInv

\* A describe ends as a schema or in a panic.
LEMMA DescribeKinds ==
    ASSUME NEW rows
    PROVE  Describe(rows).how \in {"ok", "panicked"}
<1>1. \A cols, tags : Schema(cols, tags).how = "ok"
    BY DEF Schema
<1>2. Panicked.how = "panicked"
    BY DEF Panicked
<1> QED
    BY <1>1, <1>2 DEF Describe

\* The metadata of a query is a schema or, over HTTP, may make an error of it.
LEMMA MetaKinds ==
    ASSUME NEW table
    PROVE  NativeMeta(table).how = "ok" /\ RestMeta(table).how \in {"ok", "error"}
<1>1. NativeMeta(table).how = "ok"
    BY DEF NativeMeta, Schema
<1> QED
    BY <1>1 DEF RestMeta, Refused

\* What is said of a table is an answer of one of the three kinds.
LEMMA SchemaStep ==
    ASSUME IInv, NEW table \in Table, DescribeTable(table) \/ QueryTable(table)
    PROVE  IInv'
<1>1. Call /\ UNCHANGED <<stmt, buffer, errors, answers>>
    BY DEF DescribeTable, QueryTable
<1>2. calls' = calls + 1 /\ calls' \in 0 .. MaxCalls /\ calls \in Int
    BY <1>1, CallNumber DEF IInv
<1>3. TextsKept'
  <2>1. ASSUME NEW e \in errors
        PROVE  e.call <= calls'
    <3>1. e.call \in Int /\ e.call <= calls
      BY ErrorFields DEF IInv, TextsKept
    <3> QED
      BY <3>1, <1>2
  <2> QED
    BY <1>1, <2>1 DEF IInv, TextsKept
<1>4. AnswersDecoded'
    BY <1>1 DEF IInv, AnswersDecoded, Vouched
<1>5. PICK of \in {"describe", "query", "rest query"},
           answer \in {Describe(DescribeRows(table)), NativeMeta(table), RestMeta(table)} :
        /\ Learn(of, table, answer)
        /\ answer.how \in {"ok", "error", "panicked"}
  <2>1. CASE Learn("describe", table, Describe(DescribeRows(table)))
    BY <2>1, DescribeKinds
  <2>2. CASE Learn("query", table, NativeMeta(table))
    BY <2>2, MetaKinds
  <2>3. CASE Learn("rest query", table, RestMeta(table))
    BY <2>3, MetaKinds
  <2> QED
    BY <2>1, <2>2, <2>3 DEF DescribeTable, QueryTable
<1>6. TypeOK'
    BY <1>1, <1>2, <1>5 DEF IInv, TypeOK, Learn
<1> QED
    BY <1>3, <1>4, <1>6 DEF IInv

-----------------------------------------------------------------------------
(* Theorems *)

\* The inductive invariant holds in every reachable state.
THEOREM Invariance == Spec => []IInv
<1>1. Init => IInv
  <2> SUFFICES ASSUME Init
               PROVE  IInv
    OBVIOUS
  <2>1. TypeOK
    BY StmtAssumption DEF Init, TypeOK, NoSchema
  <2>2. AnswersDecoded /\ TextsKept
    BY DEF Init, AnswersDecoded, TextsKept
  <2> QED
    BY <2>1, <2>2 DEF IInv
<1>2. IInv /\ [Next]_vars => IInv'
  <2> SUFFICES ASSUME IInv, [Next]_vars
               PROVE  IInv'
    OBVIOUS
  <2>1. CASE UNCHANGED vars
    BY <2>1 DEF vars, IInv, TypeOK, AnswersDecoded, TextsKept, Vouched
  <2> QED
    BY <2>1, ConnectionStep, StatementStep, CloseStep, SchemaStep DEF Next
<1> QED
    BY <1>1, <1>2, PTL DEF Spec

\* The types of the component.
THEOREM TypeCorrect == Spec => []TypeOK
<1>1. IInv => TypeOK
    BY DEF IInv
<1> QED
    BY <1>1, Invariance, PTL

\* On every way a failure is reported as one, by the code of its number, and no
\* two ways report one failure differently.
THEOREM ErrorsReportedCorrectly == Spec => []ErrorsReported
<1>1. IInv => ErrorsReported
  <2> SUFFICES ASSUME IInv, NEW a \in answers, ~Vouched(a)
               PROVE  /\ a.ok <=> a.errno = Success
                      /\ a.ok <=> a.code = Success
                      /\ LowHalf(a.errno) \in Codes => a.code = LowHalf(a.errno)
                      /\ \A b \in answers :
                            LowHalf(a.errno) = LowHalf(b.errno) =>
                                Vouched(b) \/ a.code = b.code
    BY DEF ErrorsReported
  <2>1. a.errno \in Errno
    BY DEF IInv, TypeOK
  <2>2. \A b \in answers : Vouched(b) \/ b.code = FromI32(LowHalf(b.errno))
    BY DEF IInv, AnswersDecoded
  <2>3. (a.ok <=> a.errno = Success) /\ a.code = FromI32(LowHalf(a.errno))
    BY DEF IInv, AnswersDecoded
  <2>4. a.code = Success <=> a.errno = Success
    BY <2>1, <2>3, DecodeSuccess
  <2>5. LowHalf(a.errno) \in Codes => a.code = LowHalf(a.errno)
    BY <2>3 DEF FromI32
  <2> QED
    BY <2>2, <2>3, <2>4, <2>5
<1> QED
    BY <1>1, Invariance, PTL

\* The text of an error is that of its own call, but for a statement's after the
\* next failure on it or its end.
THEOREM TextsOwnCorrect == Spec => []TextsOwn
<1>1. IInv => TextsOwn
  <2> SUFFICES ASSUME IInv, NEW e \in errors
               PROVE  \/ Reads(e) = e.call
                      \/ /\ e.text \in Stmt
                         /\ stmt[e.text] = "closed" \/ buffer[e.text] > e.call
    BY DEF TextsOwn
  <2>1. CASE e.text = "own"
    <3>1. e.text # "result" /\ e.text \notin Stmt
      BY <2>1, StmtAssumption
    <3> QED
      BY <2>1, <3>1 DEF Reads
  <2>2. CASE e.text \in Stmt /\ stmt[e.text] # "closed" /\ buffer[e.text] >= e.call
    <3>1. e.text # "own" /\ e.text # "result"
      BY <2>2, StmtAssumption
    <3>2. Reads(e) = buffer[e.text]
      BY <2>2, <3>1 DEF Reads
    <3>3. buffer[e.text] \in Int /\ e.call \in Int
      <4>1. buffer[e.text] \in 0 .. MaxCalls
        BY <2>2 DEF IInv, TypeOK
      <4> QED
        BY <4>1, ErrorFields DEF IInv
    <3> QED
      BY <2>2, <3>2, <3>3
  <2>3. CASE e.text \in Stmt /\ stmt[e.text] = "closed"
    BY <2>3
  <2> QED
    BY <2>1, <2>2, <2>3 DEF IInv, TextsKept
<1> QED
    BY <1>1, Invariance, PTL

-----------------------------------------------------------------------------
(* Lemmas on schemas *)

\* A set of numbers that holds 0 and with a number its successor holds all of
\* them; from the well-foundedness of < on Nat.
LEMMA Induction ==
    ASSUME NEW S, 0 \in S, \A n \in Nat : n \in S => n + 1 \in S
    PROVE  Nat \subseteq S
<1> DEFINE R == OpToRel(<, Nat)
           T == Nat \ S
<1> SUFFICES ASSUME T # {}
             PROVE  FALSE
    OBVIOUS
<1>1. IsWellFoundedOn(R, Nat) /\ T \subseteq Nat
    BY NatLessThanWellFounded
<1>2. \A x, y \in Nat : x < y => <<x, y>> \in R
    BY DEF OpToRel
<1> HIDE DEF R, T
<1>3. PICK x \in T : \A y \in T : ~(<<y, x>> \in R)
    BY <1>1, WFMin
<1>4. x \in Nat /\ x \notin S /\ x # 0
    BY <1>1, <1>3 DEF T
<1>5. x - 1 \in Nat /\ x - 1 < x /\ x = (x - 1) + 1
    BY <1>4
<1>6. x - 1 \notin S
    BY <1>4, <1>5
<1>7. x - 1 \in T
    BY <1>5, <1>6 DEF T
<1> QED
    BY <1>2, <1>3, <1>4, <1>5, <1>7

\* What is numbered from 1 to m is a sequence of m elements.
LEMMA Numbered ==
    ASSUME NEW U, NEW m \in Nat, NEW s \in [1 .. m -> U]
    PROVE  s \in Seq(U) /\ Len(s) = m
OBVIOUS

\* A schema that was read.
LEMMA SchemaRead ==
    ASSUME NEW cols, NEW tags
    PROVE  /\ Schema(cols, tags).how = "ok"
           /\ Schema(cols, tags).cols = cols /\ Schema(cols, tags).tags = tags
BY DEF Schema

\* A stretch of a sequence grows by the element that follows it.
LEMMA NextElement ==
    ASSUME NEW rows, NEW lo \in Nat, NEW m \in Nat
    PROVE  Append([i \in 1 .. m |-> rows[lo + i]], rows[lo + (m + 1)])
             = [i \in 1 .. (m + 1) |-> rows[lo + i]]
<1> DEFINE s == [i \in 1 .. m |-> rows[lo + i]]
           e == rows[lo + (m + 1)]
           t == [i \in 1 .. (m + 1) |-> rows[lo + i]]
<1>1. s \in Seq({rows[lo + i] : i \in 1 .. m}) /\ Len(s) = m
  <2>1. s \in [1 .. m -> {rows[lo + i] : i \in 1 .. m}]
    OBVIOUS
  <2> QED
    BY <2>1, Numbered
<1>2. Append(s, e) = [i \in 1 .. (Len(s) + 1) |-> IF i = Len(s) + 1 THEN e ELSE s[i]]
    BY <1>1
<1>3. \A i \in 1 .. (m + 1) : (IF i = m + 1 THEN e ELSE s[i]) = t[i]
    OBVIOUS
<1> QED
    BY <1>1, <1>2, <1>3

\* Of rows whose tags follow the columns, of which there are k, a side is the
\* rows up to k, or those behind k.
LEMMA Sides ==
    ASSUME NEW rows, Len(rows) \in Nat, NEW k \in 0 .. Len(rows), NEW which \in {"cols", "tags"},
           \A i \in 1 .. Len(rows) : SideOf(rows[i]) = (IF i > k THEN "tags" ELSE "cols"),
           NEW lo \in Nat, lo = IF which = "tags" THEN k ELSE 0,
           NEW m \in Nat, m = IF which = "tags" THEN Len(rows) - k ELSE k
    PROVE  /\ DOMAIN Side(rows, which) = 1 .. m
           /\ \A i \in 1 .. m : Side(rows, which)[i] = rows[lo + i]
<1> DEFINE N == Len(rows)
           Size(n) == IF which = "tags" THEN (IF n <= k THEN 0 ELSE n - k)
                             ELSE (IF n <= k THEN n ELSE k)
           Part(n) == [i \in 1 .. Size(n) |-> rows[lo + i]]
           Eqn(f) == f = [n \in 0 .. N |->
                            IF n = 0 THEN <<>>
                            ELSE IF SideOf(rows[n]) = which
                                 THEN Append(f[n - 1], rows[n]) ELSE f[n - 1]]
           side == CHOOSE f : Eqn(f)
           g == [n \in 0 .. N |-> Part(n)]
<1>1. Side(rows, which) = side[N]
    BY DEF Side
<1>2. k \in Nat /\ lo \in Nat /\ Part(0) = <<>>
    OBVIOUS
<1>3. ASSUME NEW n \in 1 .. N
      PROVE  Part(n) = IF SideOf(rows[n]) = which
                       THEN Append(Part(n - 1), rows[n]) ELSE Part(n - 1)
  <2>1. SideOf(rows[n]) = which <=> (n > k <=> which = "tags")
    OBVIOUS
  <2>2. CASE n > k <=> which = "tags"
    <3>1. Size(n) = Size(n - 1) + 1 /\ n = lo + (Size(n - 1) + 1) /\ Size(n - 1) \in Nat
      BY <1>2, <2>2
    <3> HIDE DEF Size
    <3>2. Part(n) = Append(Part(n - 1), rows[n])
      BY <1>2, <3>1, NextElement
    <3> QED
      BY <2>1, <2>2, <3>2
  <2>3. CASE ~(n > k <=> which = "tags")
    <3>1. Size(n) = Size(n - 1)
      BY <1>2, <2>3
    <3> QED
      BY <2>1, <2>3, <3>1
  <2> QED
    BY <2>2, <2>3
<1> HIDE DEF Part, Size
<1>4. Eqn(g)
  <2>1. \A n \in 0 .. N : n # 0 => n \in 1 .. N /\ n - 1 \in 0 .. N
    OBVIOUS
  <2> QED
    BY <1>2, <1>3, <2>1
<1>5. Eqn(side)
    BY <1>4
<1> HIDE DEF side
<1>6. \A n \in Nat : n <= N => side[n] = Part(n)
  <2> DEFINE S == {n \in Nat : n <= N => side[n] = Part(n)}
  <2>1. 0 \in S
    BY <1>2, <1>5
  <2>2. ASSUME NEW n \in Nat, n \in S
        PROVE  n + 1 \in S
    <3> SUFFICES ASSUME n + 1 <= N
                 PROVE  side[n + 1] = Part(n + 1)
      OBVIOUS
    <3>1. n + 1 \in 1 .. N /\ n + 1 \in 0 .. N /\ n + 1 # 0 /\ (n + 1) - 1 = n /\ n <= N
      OBVIOUS
    <3>2. side[n + 1] = IF SideOf(rows[n + 1]) = which
                        THEN Append(side[n], rows[n + 1]) ELSE side[n]
      BY <1>5, <3>1
    <3>3. side[n] = Part(n)
      BY <2>2, <3>1
    <3>4. Part(n + 1) = IF SideOf(rows[n + 1]) = which
                        THEN Append(Part(n), rows[n + 1]) ELSE Part(n)
      BY <1>3, <3>1
    <3> QED
      BY <3>2, <3>3, <3>4
  <2> HIDE DEF S
  <2>3. Nat \subseteq S
    BY <2>1, <2>2, Induction
  <2> QED
    BY <2>3 DEF S
<1>7. side[N] = Part(N) /\ N \in Nat
    BY <1>6
<1>8. m = Size(N)
    BY <1>2, <1>7 DEF Size
<1> QED
    BY <1>1, <1>7, <1>8 DEF Part

\* A table's rows of `describe' part into its columns and its tags.
LEMMA TableParts ==
    ASSUME NEW table \in Table
    PROVE  /\ Len(table) \in Nat /\ DOMAIN table = 1 .. Len(table)
           /\ \E k \in 0 .. Len(table) :
                \A i \in 1 .. Len(table) : table[i].tag <=> i > k
<1>1. table \in Seq(Column)
    BY TableAssumption
<1> DEFINE N == Len(table)
<1>2. N \in Nat /\ DOMAIN table = 1 .. N
    BY <1>1
<1>3. \A i, j \in 1 .. N : i < j /\ table[i].tag => table[j].tag
    BY <1>2, TableAssumption
<1> HIDE DEF N
<1> SUFFICES \E k \in 0 .. N : \A i \in 1 .. N : table[i].tag <=> i > k
    BY <1>2 DEF N
<1> DEFINE S == {n \in Nat : n <= N =>
                    \E k \in 0 .. n : \A i \in 1 .. n : table[i].tag <=> i > k}
<1>4. 0 \in S
    OBVIOUS
<1>5. ASSUME NEW n \in Nat, n \in S
      PROVE  n + 1 \in S
  <2> SUFFICES ASSUME n + 1 <= N
               PROVE  \E k \in 0 .. (n + 1) :
                          \A i \in 1 .. (n + 1) : table[i].tag <=> i > k
    OBVIOUS
  <2>1. n <= N /\ n + 1 \in 1 .. N
    BY <1>2
  <2>2. PICK k \in 0 .. n : \A i \in 1 .. n : table[i].tag <=> i > k
    BY <1>5, <2>1
  <2>3. CASE table[n + 1].tag
    <3>1. \A i \in 1 .. (n + 1) : table[i].tag <=> i > k
      BY <2>2, <2>3
    <3> QED
      BY <2>2, <3>1
  <2>4. CASE ~table[n + 1].tag
    <3>1. k = n
      <4> SUFFICES ASSUME k # n
                   PROVE  FALSE
        OBVIOUS
      <4>1. n \in 1 .. n /\ n > k /\ n \in 1 .. N /\ n < n + 1
        BY <2>1, <2>2, <1>2
      <4> QED
        BY <1>3, <2>1, <2>2, <2>4, <4>1
    <3>2. \A i \in 1 .. (n + 1) : table[i].tag <=> i > n + 1
      BY <2>2, <2>4, <3>1
    <3> QED
      BY <3>2
  <2> QED
    BY <2>3, <2>4
<1> HIDE DEF S
<1>6. Nat \subseteq S
    BY <1>4, <1>5, Induction
<1>7. N \in S /\ N <= N
    BY <1>2, <1>6
<1> QED
    BY <1>7 DEF S

\* The types that have a name in SQL, and json, which has one too.
NamedTypes ==
    {"Bool", "TinyInt", "SmallInt", "Int", "BigInt",
     "UTinyInt", "USmallInt", "UInt", "UBigInt", "Float",
     "Double", "Binary", "Timestamp", "NChar"}

\* The names of the types in SQL, one by one.
LEMMA SqlNames ==
    /\ DOMAIN SqlName = NamedTypes \union {"Json"} /\ SqlName["Json"] = "json"
    /\ SqlName["Bool"] = "bool" /\ SqlName["TinyInt"] = "tinyint"
    /\ SqlName["SmallInt"] = "smallint" /\ SqlName["Int"] = "int"
    /\ SqlName["BigInt"] = "bigint" /\ SqlName["UTinyInt"] = "tinyint unsigned"
    /\ SqlName["USmallInt"] = "smallint unsigned" /\ SqlName["UInt"] = "int unsigned"
    /\ SqlName["UBigInt"] = "bigint unsigned" /\ SqlName["Float"] = "float"
    /\ SqlName["Double"] = "double" /\ SqlName["Binary"] = "binary"
    /\ SqlName["Timestamp"] = "timestamp" /\ SqlName["NChar"] = "nchar"
BY DEF SqlName, NamedTypes

\* from_str has an arm for every one of them, and the arm that matches a name has
\* its type; there is none for json.
LEMMA ArmsOfNames ==
    /\ \A type \in NamedTypes :
            \E arm \in Arms : arm[1] = SqlName[type]
    /\ \A type \in NamedTypes, arm \in Arms : arm[1] = SqlName[type] => arm[2] = type
    /\ \A arm \in Arms : arm[1] \notin {"json", "another"}
<1>1. \A arm \in Arms : arm[2] \in NamedTypes /\ arm[1] = SqlName[arm[2]]
  <2>1. /\ \A arm \in IntegerArms : \E type \in NamedTypes : arm = <<SqlName[type], type>>
        /\ \A arm \in OtherArms : \E type \in NamedTypes : arm = <<SqlName[type], type>>
    BY SqlNames, ZenonT(60) DEF IntegerArms, OtherArms, NamedTypes
  <2>2. ASSUME NEW type \in NamedTypes, NEW arm, arm = <<SqlName[type], type>>
        PROVE  arm[2] \in NamedTypes /\ arm[1] = SqlName[arm[2]]
    BY <2>2
  <2> QED
    BY <2>1, <2>2 DEF Arms
<1>2. ASSUME NEW type \in NamedTypes, NEW other \in NamedTypes,
             SqlName[type] = SqlName[other]
      PROVE  type = other
    BY <1>2, SqlNames, ZenonT(60) DEF NamedTypes
<1>3. \A type \in NamedTypes : <<SqlName[type], type>> \in Arms
    BY SqlNames DEF NamedTypes, Arms, IntegerArms, OtherArms
<1>4. ASSUME NEW type \in NamedTypes
      PROVE  \E arm \in Arms : arm[1] = SqlName[type]
  <2>1. <<SqlName[type], type>>[1] = SqlName[type]
    OBVIOUS
  <2> QED
    BY <1>3, <2>1
<1>5. \A type \in NamedTypes : SqlName[type] \notin {"json", "another"}
    BY SqlNames DEF NamedTypes
<1> QED
    BY <1>1, <1>2, <1>4, <1>5

\* The server's name of a type is read as the type it names, json and the name of
\* any other type not at all.
LEMMA TypesByName ==
    ASSUME NEW type
    PROVE  IF type \in NamedTypes
           THEN HasName(TextOf(type)) /\ FromStr(TextOf(type)) = type
           ELSE ~HasName(TextOf(type))
<1> DEFINE letters == IF type \in DOMAIN SqlName THEN SqlName[type] ELSE "another"
<1>1. TextOf(type) = [letters |-> letters, case |-> "upper"]
    BY DEF TextOf
<1> HIDE DEF letters
<1>2. ToLowercase(TextOf(type)) = [letters |-> letters, case |-> "lower"]
    BY <1>1 DEF ToLowercase
<1>3. /\ HasName(TextOf(type)) <=> letters \in DOMAIN Named
      /\ FromStr(TextOf(type)) = Named[letters]
    BY <1>2 DEF HasName, FromStr
<1>4. letters \in DOMAIN Named <=> \E arm \in Arms : arm[1] = letters
    BY DEF Named
<1>5. CASE type \in NamedTypes
  <2>1. letters = SqlName[type]
    BY <1>5, SqlNames DEF letters
  <2>2. /\ \E arm \in Arms : arm[1] = letters
        /\ \A arm \in Arms : arm[1] = letters => arm[2] = type
    BY <1>5, <2>1, ArmsOfNames
  <2>3. Named[letters] = (CHOOSE arm \in Arms : arm[1] = letters)[2]
    BY <1>4, <2>2 DEF Named
  <2>4. Named[letters] = type
    BY <2>2, <2>3
  <2> QED
    BY <1>3, <1>4, <1>5, <2>2, <2>4
<1>6. CASE type \notin NamedTypes
  <2>1. letters \in {"json", "another"}
    BY <1>6, SqlNames DEF letters
  <2> QED
    BY <1>3, <1>4, <1>6, <2>1, ArmsOfNames
<1> QED
    BY <1>5, <1>6

\* The types that describe knows are those of SQL but json.
LEMMA NamesOfTypes ==
    ASSUME NEW type
    PROVE  type \in NamedTypes <=>
                ~(Newer(type) \/ type \in {"Json", "Null"})
BY DEF Newer, NamedTypes, LibraryNumber

\* The library's number of a type, and that of json, is the number of the variant
\* that stands for it; a newer type has a number that is not known.
LEMMA TypesByNumber ==
    ASSUME NEW type
    PROVE  IF Newer(type)
           THEN ~KnownNumber(NumberOf(type)) /\ TypeOf(NumberOf(type)) = "Unknown"
           ELSE KnownNumber(NumberOf(type)) /\ TypeOf(NumberOf(type)) = type
<1>1. DOMAIN Types = 1 .. 16
    BY DEF Types
<1>2. CASE Newer(type)
  <2>1. NumberOf(type) = 16
    BY <1>2 DEF NumberOf, Newer
  <2>2. ~KnownNumber(16)
    BY <1>1 DEF KnownNumber
  <2> QED
    BY <1>2, <2>1, <2>2 DEF TypeOf
<1>3. CASE type = "Json"
    BY <1>3 DEF NumberOf, LibraryNumber, Newer, TypeOf, KnownNumber, Types
<1>4. CASE type \in DOMAIN LibraryNumber
  <2>1. NumberOf(type) = LibraryNumber[type] /\ ~Newer(type)
    BY <1>4 DEF NumberOf, Newer
  <2>2. LibraryNumber[type] \in 0 .. 14 /\ Types[LibraryNumber[type] + 1] = type
    BY <1>4 DEF LibraryNumber, Types
  <2>3. KnownNumber(LibraryNumber[type])
    BY <1>1, <2>2 DEF KnownNumber
  <2> QED
    BY <2>1, <2>2, <2>3 DEF TypeOf
<1> QED
    BY <1>2, <1>3, <1>4 DEF Newer

\* The length of a column passes through an i16.
LEMMA LengthKept ==
    ASSUME NEW table \in Table, NEW i \in DOMAIN table
    PROVE  AsI16(table[i].bytes) = table[i].bytes
<1>1. table[i].bytes \in Nat /\ table[i].bytes <= \h4000
  <2>1. table[i] \in Column
    BY TableAssumption
  <2> QED
    BY <2>1, TableAssumption DEF Column
<1> QED
    BY <1>1 DEF AsI16

\* What is known of a column from its row of `describe'.
Meta(column) == [name |-> column.name, type |-> FromStr(TextOf(column.type)),
                 bytes |-> column.bytes]

\* Its fields.
LEMMA MetaFields ==
    ASSUME NEW column
    PROVE  /\ Meta(column).name = column.name /\ Meta(column).bytes = column.bytes
           /\ Meta(column).type = FromStr(TextOf(column.type))
BY DEF Meta

\* The rows of a table whose first k entries are its columns.
LEMMA RowsOfTable ==
    ASSUME NEW table \in Table, NEW rows, rows = DescribeRows(table)
    PROVE  /\ DOMAIN rows = 1 .. Len(table) /\ Len(rows) = Len(table)
           /\ \A i \in 1 .. Len(table) :
                /\ rows[i].type = TextOf(table[i].type)
                /\ SideOf(rows[i]) = IF table[i].tag THEN "tags" ELSE "cols"
                /\ ColumnMeta(rows[i]) = Meta(table[i])
<1>1. Len(table) \in Nat /\ DOMAIN table = 1 .. Len(table)
    BY TableParts
<1>2. DOMAIN rows = 1 .. Len(table)
    BY <1>1 DEF DescribeRows
<1>3. Len(rows) = Len(table)
    BY <1>1, <1>2
<1>4. ASSUME NEW i \in 1 .. Len(table)
      PROVE  /\ rows[i].type = TextOf(table[i].type)
             /\ SideOf(rows[i]) = IF table[i].tag THEN "tags" ELSE "cols"
             /\ ColumnMeta(rows[i]) = Meta(table[i])
  <2> DEFINE note == IF table[i].tag THEN "TAG" ELSE ""
  <2>1. rows[i] = [field |-> table[i].name, type |-> TextOf(table[i].type),
                   length |-> table[i].bytes, note |-> note]
    BY <1>1 DEF DescribeRows
  <2>2. note = "TAG" <=> table[i].tag
    OBVIOUS
  <2>3. AsI16(table[i].bytes) = table[i].bytes
    BY <1>1, LengthKept
  <2> HIDE DEF note
  <2>4. /\ rows[i].field = table[i].name /\ rows[i].type = TextOf(table[i].type)
        /\ rows[i].length = table[i].bytes /\ rows[i].note = note
    BY <2>1
  <2> QED
    BY <2>2, <2>3, <2>4 DEF ColumnMeta, Meta, SideOf
<1> QED
    BY <1>2, <1>3, <1>4

\* Of a table whose types all have a name, describe returns the columns and then
\* the tags.
LEMMA DescribeParts ==
    ASSUME NEW table \in Table, NEW d, d = Describe(DescribeRows(table)),
           \A i \in 1 .. Len(table) : HasName(TextOf(table[i].type))
    PROVE  /\ d.how = "ok"
           /\ DOMAIN (d.cols \o d.tags) = 1 .. Len(table)
           /\ \A i \in 1 .. Len(table) : (d.cols \o d.tags)[i] = Meta(table[i])
           /\ \A i \in 1 .. Len(table) : table[i].tag <=> i > Len(d.cols)
<1> DEFINE N == Len(table)
           rows == DescribeRows(table)
           columns == Side(rows, "cols")
           behind == Side(rows, "tags")
           cols == ColumnMetas(columns)
           tags == ColumnMetas(behind)
           U == {Meta(table[i]) : i \in 1 .. N}
<1>1. N \in Nat
    BY TableParts
<1>2. PICK k \in 0 .. N : \A i \in 1 .. N : table[i].tag <=> i > k
    BY TableParts
<1>3. k \in Nat /\ N - k \in Nat /\ k + (N - k) = N
    BY <1>1, <1>2
<1>4. /\ DOMAIN rows = 1 .. N /\ Len(rows) = N
      /\ \A i \in 1 .. N : rows[i].type = TextOf(table[i].type)
      /\ \A i \in 1 .. N : SideOf(rows[i]) = (IF i > k THEN "tags" ELSE "cols")
      /\ \A i \in 1 .. N : ColumnMeta(rows[i]) = Meta(table[i])
    BY <1>2, RowsOfTable
<1>5. d = Describe(rows)
    OBVIOUS
<1> HIDE DEF rows
<1>6. d = Schema(cols, tags)
    BY <1>4, <1>5 DEF Describe
<1>7. /\ DOMAIN columns = 1 .. k
      /\ \A i \in 1 .. k : columns[i] = rows[i]
  <2>1. /\ DOMAIN columns = 1 .. k
        /\ \A i \in 1 .. k : columns[i] = rows[0 + i]
    BY <1>1, <1>2, <1>4, Sides
  <2> QED
    BY <1>3, <2>1
<1>8. /\ DOMAIN behind = 1 .. (N - k)
      /\ \A i \in 1 .. (N - k) : behind[i] = rows[k + i]
  <2> DEFINE m == N - k
  <2>1. /\ m = Len(rows) - k
        /\ Len(rows) \in Nat /\ k \in 0 .. Len(rows)
        /\ \A i \in 1 .. Len(rows) : SideOf(rows[i]) = (IF i > k THEN "tags" ELSE "cols")
    BY <1>1, <1>2, <1>4
  <2> HIDE DEF m, N
  <2>2. m \in Nat /\ k \in Nat
    BY <1>3 DEF m
  <2>3. /\ DOMAIN behind = 1 .. m
        /\ \A i \in 1 .. m : behind[i] = rows[k + i]
    BY <2>1, <2>2, Sides
  <2> QED
    BY <2>3 DEF m
<1> HIDE DEF columns, behind, N
<1>9. cols \in Seq(U) /\ Len(cols) = k /\ \A i \in 1 .. k : cols[i] = Meta(table[i])
  <2>1. cols = [i \in 1 .. k |-> ColumnMeta(columns[i])]
    BY <1>7 DEF ColumnMetas
  <2>2. \A i \in 1 .. k : i \in 1 .. N /\ ColumnMeta(columns[i]) = Meta(table[i])
    BY <1>1, <1>2, <1>4, <1>7
  <2> HIDE DEF cols
  <2>3. cols \in [1 .. k -> U]
    BY <2>1, <2>2
  <2> QED
    BY <1>3, <2>1, <2>2, <2>3, Numbered
<1>10. /\ tags \in Seq(U) /\ Len(tags) = N - k
       /\ \A i \in 1 .. (N - k) : tags[i] = Meta(table[k + i])
  <2>1. tags = [i \in 1 .. (N - k) |-> ColumnMeta(behind[i])]
    BY <1>8 DEF ColumnMetas
  <2>2. \A i \in 1 .. (N - k) : k + i \in 1 .. N
                                /\ ColumnMeta(behind[i]) = Meta(table[k + i])
    <3>1. \A i \in 1 .. (N - k) : k + i \in 1 .. N
      BY <1>1, <1>2
    <3> QED
      BY <1>4, <1>8, <3>1
  <2> HIDE DEF tags
  <2>3. tags \in [1 .. (N - k) -> U]
    BY <2>1, <2>2
  <2> QED
    BY <1>3, <2>1, <2>2, <2>3, Numbered
<1>11. d.how = "ok" /\ d.cols = cols /\ d.tags = tags
    BY <1>6, SchemaRead
<1> HIDE DEF cols, tags, U
<1>12. /\ Len(cols \o tags) = N /\ cols \o tags \in Seq(U)
       /\ \A i \in 1 .. N : (cols \o tags)[i] = Meta(table[i])
  <2>1. /\ Len(cols \o tags) = N /\ cols \o tags \in Seq(U)
        /\ \A i \in 1 .. N : (cols \o tags)[i] = IF i <= k THEN cols[i] ELSE tags[i - k]
    <3>1. Len(cols) + Len(tags) = N /\ Len(cols) = k
      BY <1>3, <1>9, <1>10
    <3>2. /\ cols \o tags \in Seq(U)
          /\ Len(cols \o tags) = Len(cols) + Len(tags)
          /\ \A i \in 1 .. Len(cols) + Len(tags) :
                (cols \o tags)[i] = IF i <= Len(cols) THEN cols[i] ELSE tags[i - Len(cols)]
      BY <1>9, <1>10, ConcatProperties
    <3> QED
      BY <3>1, <3>2
  <2>2. \A i \in 1 .. N : (IF i <= k THEN cols[i] ELSE tags[i - k]) = Meta(table[i])
    BY <1>1, <1>2, <1>9, <1>10
  <2> QED
    BY <2>1, <2>2
<1> QED
    BY <1>2, <1>9, <1>11, <1>12 DEF N

\* What describe says of a table is exact; it panics if a type has no name.
LEMMA DescribeExact ==
    ASSUME NEW table \in Table, Learn("describe", table, Describe(DescribeRows(table)))
    PROVE  SchemaExact'
<1> DEFINE N == Len(table)
           d == Describe(DescribeRows(table))
<1>1. /\ schema'.of = "describe" /\ schema'.table = table
      /\ schema'.how = d.how /\ schema'.cols = d.cols /\ schema'.tags = d.tags
    BY DEF Learn
<1>2. N \in Nat /\ DOMAIN table = 1 .. N
    BY TableParts
<1>3. CASE \A i \in 1 .. N : HasName(TextOf(table[i].type))
  <2>1. /\ d.how = "ok"
        /\ DOMAIN (d.cols \o d.tags) = 1 .. N
        /\ \A i \in 1 .. N : (d.cols \o d.tags)[i] = Meta(table[i])
        /\ \A i \in 1 .. N : table[i].tag <=> i > Len(d.cols)
    BY <1>3, DescribeParts
  <2>2. \A i \in 1 .. N : FromStr(TextOf(table[i].type)) = table[i].type
    BY <1>3, TypesByName
  <2> HIDE DEF d
  <2> DEFINE metas == d.cols \o d.tags
  <2>3. \A i \in 1 .. N : /\ metas[i].name = table[i].name
                          /\ metas[i].bytes = table[i].bytes
                          /\ metas[i].type = table[i].type
    <3>1. \A i \in 1 .. N : metas[i] = Meta(table[i])
      BY <2>1
    <3> HIDE DEF metas
    <3> QED
      BY <2>2, <3>1, MetaFields
  <2>4. DOMAIN metas = 1 .. N
    BY <2>1
  <2>5. metas = schema'.cols \o schema'.tags
    BY <1>1
  <2> HIDE DEF metas, N
  <2>6. Names(schema') = [i \in DOMAIN table |-> table[i].name]
    BY <1>2, <2>3, <2>4, <2>5 DEF Names, NamesOf
  <2>7. \A i \in 1 .. N : table[i].tag <=> i > Len(schema'.cols)
    BY <1>1, <2>1
  <2>8. \A i \in DOMAIN table : ~Newer(table[i].type)
                               /\ table[i].type \notin {"Json", "Null"}
    BY <1>2, <1>3, TypesByName, NamesOfTypes DEF N
  <2> QED
    BY <1>1, <1>2, <2>1, <2>3, <2>5, <2>6, <2>7, <2>8 DEF SchemaExact
<1>4. CASE \E i \in 1 .. N : ~HasName(TextOf(table[i].type))
  <2>1. d = Panicked
    <3> DEFINE rows == DescribeRows(table)
    <3>1. DOMAIN rows = 1 .. N /\ \A i \in 1 .. N : rows[i].type = TextOf(table[i].type)
      BY RowsOfTable
    <3> HIDE DEF rows
    <3>2. Describe(rows) = Panicked
      BY <1>4, <3>1 DEF Describe
    <3> QED
      BY <3>2 DEF rows
  <2>2. d.how = "panicked"
    BY <2>1 DEF Panicked
  <2>3. \E i \in DOMAIN table : \/ Newer(table[i].type)
                              \/ table[i].type \in {"Json", "Null"}
    BY <1>2, <1>4, TypesByName, NamesOfTypes
  <2> QED
    BY <1>1, <2>2, <2>3 DEF SchemaExact
<1> QED
    BY <1>3, <1>4

\* A refused query has ended with an error.
LEMMA RefusedRead == Refused.how = "error"
BY DEF Refused

\* What the metadata of a query says of a table is exact.
LEMMA QueryExact ==
    ASSUME NEW table \in Table, NEW of \in {"query", "rest query"},
           NEW answer,
           answer = IF of = "query" THEN NativeMeta(table) ELSE RestMeta(table),
           Learn(of, table, answer)
    PROVE  SchemaExact'
<1> DEFINE N == Len(table)
<1>1. /\ schema'.of = of /\ schema'.of # "describe" /\ schema'.table = table
      /\ schema'.how = answer.how /\ schema'.cols = answer.cols /\ schema'.tags = answer.tags
    BY DEF Learn
<1>2. N \in Nat /\ DOMAIN table = 1 .. N
    BY TableParts
<1>3. CASE answer = NativeMeta(table)
  <2> DEFINE metas == [i \in DOMAIN table |->
                         [name |-> table[i].name, type |-> TypeOf(NumberOf(table[i].type)),
                          bytes |-> table[i].bytes]]
             U == {metas[i] : i \in 1 .. N}
  <2>1. answer.how = "ok" /\ answer.cols = metas /\ answer.tags = <<>>
    <3>1. answer = Schema(metas, <<>>)
      BY <1>3 DEF NativeMeta
    <3> HIDE DEF metas
    <3>2. /\ Schema(metas, <<>>).how = "ok" /\ Schema(metas, <<>>).cols = metas
          /\ Schema(metas, <<>>).tags = <<>>
      BY SchemaRead
    <3> QED
      BY <3>1, <3>2
  <2>2. metas \o <<>> = metas
    <3>1. metas \in [1 .. N -> U]
      BY <1>2
    <3>2. metas \in Seq(U)
      BY <1>2, <3>1, Numbered
    <3> QED
      BY <3>2, ConcatEmptySeq
  <2>3. Names(schema') = [i \in DOMAIN table |-> table[i].name]
    <3>1. Names(schema') = NamesOf(metas)
      BY <1>1, <2>1, <2>2 DEF Names
    <3>2. DOMAIN metas = DOMAIN table /\ \A i \in DOMAIN table : metas[i].name = table[i].name
      OBVIOUS
    <3> HIDE DEF metas
    <3> QED
      BY <3>1, <3>2 DEF NamesOf
  <2>4. \A i \in DOMAIN table :
          TypeOf(NumberOf(table[i].type)) =
              IF Newer(table[i].type) THEN "Unknown" ELSE table[i].type
    BY TypesByNumber
  <2>5. \A i \in DOMAIN table : /\ metas[i].bytes = table[i].bytes
                                /\ metas[i].type = TypeOf(NumberOf(table[i].type))
    OBVIOUS
  <2> HIDE DEF metas
  <2>6. metas = schema'.cols \o schema'.tags
    BY <1>1, <2>1, <2>2
  <2>7. schema'.how = "ok" /\ schema'.of # "describe" /\ schema'.table = table
    BY <1>1, <2>1
  <2>8. \A i \in DOMAIN table :
          /\ metas[i].bytes = table[i].bytes
          /\ metas[i].type = IF Newer(table[i].type) THEN "Unknown" ELSE table[i].type
    BY <2>4, <2>5
  <2> HIDE DEF U
  <2>9. of = "rest query" => \A i \in DOMAIN table : ~Newer(table[i].type)
    <3>1. of = "rest query" => answer # Refused
      BY <2>1, RefusedRead
    <3>2. \A i \in DOMAIN table :
            KnownNumber(NumberOf(table[i].type)) => ~Newer(table[i].type)
      BY TypesByNumber
    <3> QED
      BY <3>1, <3>2 DEF RestMeta
  <2> QED
    BY <1>1, <2>3, <2>6, <2>7, <2>8, <2>9 DEF SchemaExact
<1>4. CASE answer # NativeMeta(table)
  <2>1. answer = Refused /\ \E i \in DOMAIN table : ~KnownNumber(NumberOf(table[i].type))
    BY <1>4 DEF RestMeta
  <2>2. \E i \in DOMAIN table : Newer(table[i].type)
    BY <2>1, TypesByNumber
  <2>3. of = "rest query" /\ answer.how = "error"
    BY <1>4, <2>1, RefusedRead
  <2> QED
    BY <1>1, <2>2, <2>3 DEF SchemaExact
<1> QED
    BY <1>3, <1>4

\* What the connector says of a table is true, for every table whose tags follow
\* its columns: nothing is lost, doubled, moved to the other side or mistyped.
THEOREM SchemaIsExact == Spec => []SchemaExact
<1>1. Init => SchemaExact
  <2> SUFFICES ASSUME Init
               PROVE  SchemaExact
    OBVIOUS
  <2>1. /\ schema.table = <<>> /\ schema.how = "ok"
        /\ schema.cols = <<>> /\ schema.tags = <<>>
    BY DEF Init, NoSchema
  <2>2. <<>> \o <<>> = <<>> /\ DOMAIN <<>> = {}
    OBVIOUS
  <2>3. Names(schema) = [i \in DOMAIN schema.table |-> schema.table[i].name]
    BY <2>1, <2>2 DEF Names, NamesOf
  <2> QED
    BY <2>1, <2>2, <2>3 DEF SchemaExact
<1>2. SchemaExact /\ [Next]_vars => SchemaExact'
  <2> SUFFICES ASSUME SchemaExact, [Next]_vars
               PROVE  SchemaExact'
    OBVIOUS
  <2>1. ASSUME NEW table \in Table, DescribeTable(table)
        PROVE  SchemaExact'
    BY <2>1, DescribeExact DEF DescribeTable
  <2>2. ASSUME NEW table \in Table, QueryTable(table)
        PROVE  SchemaExact'
    <3>1. CASE Learn("query", table, NativeMeta(table))
      BY <3>1, QueryExact
    <3>2. CASE Learn("rest query", table, RestMeta(table))
      BY <3>2, QueryExact
    <3> QED
      BY <2>2, <3>1, <3>2 DEF QueryTable
  <2>3. CASE UNCHANGED schema
    BY <2>3 DEF SchemaExact, Names, NamesOf
  <2> QED
    BY <2>1, <2>2, <2>3 DEF Next, vars, Query, LoadTableInfo, RestQuery, NewStmt,
       StmtCall, BindAgain, Execute, CloseStmt
<1> QED
    BY <1>1, <1>2, PTL DEF Spec

=============================================================================
