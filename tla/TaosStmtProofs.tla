--------------------------- MODULE TaosStmtProofs ---------------------------
(***************************************************************************)
(* Proofs about TaosStmt, for any rows, tables and number of failing calls *)
(* of the library: the type invariant, that no row enters a batch or the   *)
(* database but by a bind that was Ok, and once, that an accepted row      *)
(* stays in the batch until execute or Drop, the refinement of             *)
(* BatchInsert, and that the calls of a method run out.                    *)
(***************************************************************************)
EXTENDS TaosStmt, SequenceTheorems, TLAPS

-----------------------------------------------------------------------------
(* The parts of the inductive invariant *)

BindPc == {"bindParam", "inplaceParam", "addBatch", "inplaceAddBatch"}

\* The row of the bind in progress has never been accepted, so it is neither in
\* the batch nor in the database, and between the two calls it is staged.
RowIsFresh ==
    pc \in BindPc =>
        /\ row \in bound
        /\ \A e \in everAcked : e.row # row
StagedIsRow ==
    pc \in {"addBatch", "inplaceAddBatch"} => staged \in Record /\ staged.row = row

\* What has been accepted was passed to a bind.
AckedWasBound == \A e \in everAcked : e.row \in bound

\* An execute works on the batch that it found, and it is the caller's turn to
\* count what it has accepted anew.
ExecuteOnSent == pc = "execute" => sent = Batched /\ acked = {}

IInv ==
    /\ TypeOK
    /\ NoPhantomRow
    /\ AckedIsBatched
    /\ RowIsFresh
    /\ StagedIsRow
    /\ AckedWasBound
    /\ ExecuteOnSent

-----------------------------------------------------------------------------
(* Lemmas *)

\* A successful add_batch adds the staged row to the batch, at its end.
LEMMA AddBatchAdds ==
    ASSUME TypeOK, staged \in Record, AddBatch
    PROVE  /\ batch' \in Seq(Record)
           /\ Batched' = Batched \union {staged}
           /\ DOMAIN batch' = DOMAIN batch \union {Len(batch) + 1}
           /\ Len(batch) + 1 \notin DOMAIN batch
           /\ \A i \in DOMAIN batch : batch'[i] = batch[i]
           /\ batch'[Len(batch) + 1] = staged
<1>1. batch \in Seq(Record) /\ batch' = Append(batch, staged)
    BY DEF TypeOK, AddBatch
<1>2. /\ batch' \in Seq(Record) /\ Len(batch') = Len(batch) + 1
      /\ \A i \in 1 .. Len(batch) : batch'[i] = batch[i]
      /\ batch'[Len(batch) + 1] = staged
    BY <1>1, AppendProperties
<1>3. /\ Len(batch) \in Nat
      /\ DOMAIN batch = 1 .. Len(batch) /\ DOMAIN batch' = 1 .. Len(batch')
    BY <1>1, <1>2, LenProperties
<1>4. /\ DOMAIN batch' = DOMAIN batch \union {Len(batch) + 1}
      /\ Len(batch) + 1 \notin DOMAIN batch
    BY <1>2, <1>3
<1> HIDE DEF Record
<1>5. Batched' = Batched \union {staged}
    BY <1>2, <1>3, <1>4 DEF Batched
<1> QED
    BY <1>2, <1>3, <1>4, <1>5

\* The set of rows in the batch follows the batch.
LEMMA BatchedUnchanged ==
    ASSUME UNCHANGED batch
    PROVE  Batched' = Batched
    BY DEF Batched

\* An empty batch holds no row.
LEMMA BatchedEmpty ==
    ASSUME batch' = <<>>
    PROVE  Batched' = {}
    BY DEF Batched

\* Both methods of bind end in the same way when add_batch succeeds.
LEMMA AcceptStep ==
    ASSUME IInv, NEW from \in {"addBatch", "inplaceAddBatch"},
           ReturnOk(from), AddBatch, UNCHANGED errors
    PROVE  IInv'
<1>1. /\ pc = from /\ pc' = "ready" /\ row' = "none"
      /\ staged \in Record /\ staged.row = row /\ row \in bound
      /\ \A e \in everAcked : e.row # row
      /\ acked' = acked \union {staged} /\ everAcked' = everAcked \union {staged}
      /\ staged' = NoRecord
      /\ UNCHANGED <<sent, confirmed, vouched, bound, table, stored, errors>>
    BY DEF ReturnOk, AddBatch, Goto, IInv, StagedIsRow, RowIsFresh, BindPc
<1>2. /\ batch' \in Seq(Record)
      /\ Batched' = Batched \union {staged}
      /\ DOMAIN batch' = DOMAIN batch \union {Len(batch) + 1}
      /\ Len(batch) + 1 \notin DOMAIN batch
      /\ \A i \in DOMAIN batch : batch'[i] = batch[i]
      /\ batch'[Len(batch) + 1] = staged
    BY <1>1, AddBatchAdds DEF IInv
<1>3. TypeOK'
    BY <1>1, <1>2 DEF IInv, TypeOK, Pc
<1>4. NoPhantomRow'
  <2>1. Batched' \union stored' \subseteq everAcked'
    BY <1>1, <1>2 DEF IInv, NoPhantomRow
  <2>2. \A i \in DOMAIN batch : batch[i] \in everAcked
    BY DEF IInv, NoPhantomRow, Batched
  <2>3. ASSUME NEW i \in DOMAIN batch', NEW j \in DOMAIN batch',
               batch'[i].row = batch'[j].row
        PROVE  i = j
    <3>1. CASE i \in DOMAIN batch /\ j \in DOMAIN batch
      BY <3>1, <2>3, <1>2 DEF IInv, NoPhantomRow
    <3>2. CASE i \in DOMAIN batch /\ j = Len(batch) + 1
      <4>1. batch'[i].row # row /\ batch'[j].row = row
        BY <3>2, <2>2, <1>1, <1>2
      <4> QED
        BY <4>1, <2>3
    <3>3. CASE i = Len(batch) + 1 /\ j \in DOMAIN batch
      <4>1. batch'[j].row # row /\ batch'[i].row = row
        BY <3>3, <2>2, <1>1, <1>2
      <4> QED
        BY <4>1, <2>3
    <3> QED
      BY <3>1, <3>2, <3>3, <1>2
  <2> QED
    BY <2>1, <2>3 DEF NoPhantomRow
<1>5. AckedIsBatched'
    BY <1>1, <1>2 DEF IInv, AckedIsBatched
<1>6. RowIsFresh' /\ StagedIsRow' /\ ExecuteOnSent'
    BY <1>1 DEF RowIsFresh, StagedIsRow, ExecuteOnSent, BindPc
<1>7. AckedWasBound'
    BY <1>1 DEF IInv, AckedWasBound
<1> QED
    BY <1>3, <1>4, <1>5, <1>6, <1>7 DEF IInv

\* A step that leaves the batch, the database and what was accepted alone has to
\* be looked at for the control of the methods only.
LEMMA QuietStep ==
    ASSUME IInv, TypeOK',
           UNCHANGED <<batch, stored, acked, everAcked>>,
           bound \subseteq bound',
           pc = "closed" => pc' = "closed",
           RowIsFresh', StagedIsRow',
           pc' # "execute"
    PROVE  IInv'
<1>1. Batched' = Batched
    BY BatchedUnchanged
<1>2. NoPhantomRow' /\ AckedIsBatched'
    BY <1>1 DEF IInv, NoPhantomRow, AckedIsBatched
<1>3. AckedWasBound' /\ ExecuteOnSent'
    BY DEF IInv, AckedWasBound, ExecuteOnSent
<1> QED
    BY <1>2, <1>3 DEF IInv

\* taos_stmt_bind_param, in bind and in bind_inplace.
LEMMA BindParamStep ==
    ASSUME IInv, UNCHANGED <<table, batch, stored>>,
           \/ BindParam("bindParam", "addBatch")
           \/ BindParam("inplaceParam", "inplaceAddBatch")
    PROVE  IInv'
<1> USE DEF Goto, history
<1>1. ASSUME NEW from \in {"bindParam", "inplaceParam"},
             NEW to \in {"addBatch", "inplaceAddBatch"},
             BindParam(from, to)
      PROVE  IInv'
  <2>1. CASE /\ table # NoTable /\ Goto(from, to)
             /\ staged' = [row |-> row, table |-> table]
             /\ UNCHANGED <<row, history, errors>>
    <3>1. row \in Row /\ table \in Table
      <4>1. row \in bound /\ bound \subseteq Row /\ table \in Table \union {NoTable}
        BY <2>1 DEF IInv, RowIsFresh, BindPc, TypeOK
      <4> QED
        BY <2>1, <4>1
    <3>2. staged' \in Record /\ staged'.row = row
      BY <2>1, <3>1 DEF Record
    <3>3. TypeOK'
      BY <2>1, <3>2 DEF IInv, TypeOK, Pc
    <3>4. RowIsFresh' /\ StagedIsRow'
      BY <2>1, <3>2 DEF IInv, RowIsFresh, StagedIsRow, BindPc
    <3> QED
      BY <2>1, <3>3, <3>4, QuietStep
  <2>2. CASE /\ ReturnErr(from)
             /\ IF table = NoTable THEN UNCHANGED errors ELSE Fails
             /\ staged' \in {staged, NoRecord}
    <3>1. TypeOK'
      BY <2>2, StmtAssumption DEF IInv, TypeOK, Pc, ReturnErr, Fails
    <3> QED
      BY <2>2, <3>1, QuietStep DEF ReturnErr, RowIsFresh, StagedIsRow, BindPc
  <2> QED
    BY <1>1, <2>1, <2>2 DEF BindParam
<1> QED
    BY <1>1

\* taos_stmt_add_batch fails: bind returns the error, bind_inplace begins again.
LEMMA AddBatchFailsStep ==
    ASSUME IInv, AddBatchFails,
           \/ ReturnErr("addBatch")
           \/ Goto("inplaceAddBatch", "inplaceParam") /\ UNCHANGED <<row, history>>
    PROVE  IInv'
<1> USE DEF Goto, history
<1>1. TypeOK'
    BY StmtAssumption DEF IInv, TypeOK, Pc, ReturnErr, AddBatchFails, Fails
<1>2. UNCHANGED <<table, batch, stored, history>>
    BY DEF AddBatchFails, ReturnErr
<1>3. CASE ReturnErr("addBatch")
    BY <1>1, <1>2, <1>3, QuietStep DEF ReturnErr, RowIsFresh, StagedIsRow, BindPc
<1>4. CASE Goto("inplaceAddBatch", "inplaceParam") /\ UNCHANGED <<row, history>>
  <2>1. RowIsFresh' /\ StagedIsRow'
    BY <1>4 DEF IInv, RowIsFresh, StagedIsRow, BindPc
  <2> QED
    BY <1>1, <1>2, <1>4, <2>1, QuietStep
<1> QED
    BY <1>3, <1>4

\* taos_stmt_execute: with success, or with an error that is returned or probed.
LEMMA ExecuteStep ==
    ASSUME IInv, Execute \/ ExecuteFails
    PROVE  IInv'
<1> USE DEF Goto, history
<1>1. /\ pc = "execute" /\ sent = Batched /\ acked = {}
      /\ pc' \in {"ready", "probe"} /\ batch' \in {batch, <<>>}
      /\ stored' \subseteq stored \union Batched
      /\ confirmed' \subseteq confirmed \union sent
      /\ errors' \in 0 .. MaxErrors
      /\ UNCHANGED <<row, table, staged, acked, everAcked, sent, vouched, bound>>
  <2>1. CASE Execute
    BY <2>1 DEF Execute, ExecuteReturnsOk, IInv, TypeOK, ExecuteOnSent
  <2>2. CASE ExecuteFails
    <3>1. errors' \in 0 .. MaxErrors
      BY <2>2, StmtAssumption DEF ExecuteFails, Fails, IInv, TypeOK
    <3> QED
      BY <2>2, <3>1 DEF ExecuteFails, ExecuteReturnsErr, IInv, ExecuteOnSent
  <2> QED
    BY <2>1, <2>2
<1>2. Batched' \subseteq Batched
    BY <1>1, BatchedUnchanged, BatchedEmpty
<1>3. Batched \subseteq everAcked /\ everAcked \subseteq Record
    BY DEF IInv, NoPhantomRow, TypeOK
<1>4. TypeOK'
  <2>1. batch' \in Seq(Record)
    BY <1>1, EmptySeq DEF IInv, TypeOK
  <2> QED
    BY <1>1, <1>3, <2>1 DEF IInv, TypeOK, Pc
<1>5. NoPhantomRow'
  <2>1. \A i, j \in DOMAIN batch' : batch'[i].row = batch'[j].row => i = j
    <3>1. CASE batch' = batch
      BY <3>1 DEF IInv, NoPhantomRow
    <3>2. CASE batch' = <<>>
      BY <3>2
    <3> QED
      BY <1>1, <3>1, <3>2
  <2> QED
    BY <1>1, <1>2, <1>3, <2>1 DEF IInv, NoPhantomRow
<1>6. AckedIsBatched' /\ RowIsFresh' /\ StagedIsRow' /\ ExecuteOnSent'
    BY <1>1 DEF AckedIsBatched, RowIsFresh, StagedIsRow, ExecuteOnSent, BindPc
<1>7. AckedWasBound'
    BY <1>1 DEF IInv, AckedWasBound
<1> QED
    BY <1>4, <1>5, <1>6, <1>7 DEF IInv

\* Every other step.
LEMMA OtherStep ==
    ASSUME IInv,
           \/ StmtInit \/ Prepare \/ SetTbname \/ CallExecute \/ Close \/ Probe
           \/ \E r \in Row, method \in {"bindParam", "inplaceParam"} :
                    CallBind(r, method)
    PROVE  IInv'
<1> USE DEF Goto, history, library
<1>1. CASE StmtInit \/ Prepare \/ SetTbname \/ Probe
  <2>1. TypeOK'
    BY <1>1, StmtAssumption
    DEF StmtInit, Prepare, SetTbname, Probe, Fails, ExecuteReturnsErr, IInv, TypeOK, Pc
  <2>2. /\ UNCHANGED <<batch, stored, acked, everAcked, bound>>
        /\ pc # "closed" /\ pc' \in {"prepare", "ready", "closed"}
    BY <1>1 DEF StmtInit, Prepare, SetTbname, Probe, ExecuteReturnsErr
  <2> QED
    BY <2>1, <2>2, QuietStep DEF RowIsFresh, StagedIsRow, BindPc
<1>2. ASSUME NEW r \in Row, NEW method \in {"bindParam", "inplaceParam"},
             CallBind(r, method)
      PROVE  IInv'
  <2>1. /\ UNCHANGED <<batch, stored, acked, everAcked>>
        /\ pc = "ready" /\ pc' = method /\ row' = r
        /\ r \notin bound /\ bound' = bound \union {r}
    BY <1>2 DEF CallBind
  <2>2. TypeOK'
    BY <1>2 DEF CallBind, IInv, TypeOK, Pc
  <2>3. RowIsFresh' /\ StagedIsRow'
    BY <2>1 DEF IInv, AckedWasBound, RowIsFresh, StagedIsRow, BindPc
  <2> QED
    BY <2>1, <2>2, <2>3, QuietStep
<1>3. CASE CallExecute
  <2>1. /\ UNCHANGED <<batch, stored, everAcked, bound, staged>>
        /\ pc' = "execute" /\ sent' = Batched /\ acked' = {}
    BY <1>3 DEF CallExecute
  <2>2. Batched' = Batched
    BY <2>1, BatchedUnchanged
  <2>3. TypeOK'
    BY <1>3 DEF CallExecute, IInv, TypeOK, Pc, NoPhantomRow
  <2>4. NoPhantomRow' /\ AckedIsBatched' /\ AckedWasBound' /\ ExecuteOnSent'
    BY <2>1, <2>2 DEF IInv, NoPhantomRow, AckedIsBatched, AckedWasBound, ExecuteOnSent
  <2> QED
    BY <2>1, <2>3, <2>4 DEF IInv, RowIsFresh, StagedIsRow, BindPc
<1>4. CASE Close
  <2>1. /\ UNCHANGED <<row, table, stored, acked, everAcked, sent, confirmed, vouched,
                       bound, errors>>
        /\ pc' = "closed" /\ batch' = <<>> /\ staged' = NoRecord
    BY <1>4 DEF Close
  <2>2. Batched' = {}
    BY <2>1, BatchedEmpty
  <2>3. batch' \in Seq(Record) /\ DOMAIN batch' = {}
    BY <2>1, EmptySeq
  <2>4. TypeOK'
    BY <2>1, <2>3 DEF IInv, TypeOK, Pc
  <2>5. NoPhantomRow' /\ AckedIsBatched' /\ AckedWasBound'
    BY <2>1, <2>2, <2>3 DEF IInv, NoPhantomRow, AckedIsBatched, AckedWasBound
  <2> QED
    BY <2>1, <2>4, <2>5 DEF IInv, RowIsFresh, StagedIsRow, ExecuteOnSent, BindPc
<1> QED
    BY <1>1, <1>2, <1>3, <1>4

\* Every step of a statement keeps the inductive invariant.
LEMMA NextStep ==
    ASSUME IInv, [Next]_vars
    PROVE  IInv'
<1>1. CASE BindBindParam \/ InplaceBindParam
    BY <1>1, BindParamStep DEF BindBindParam, InplaceBindParam
<1>2. CASE BindAddBatch \/ InplaceAddBatch
    BY <1>2, AcceptStep, AddBatchFailsStep DEF BindAddBatch, InplaceAddBatch
<1>3. CASE Execute \/ ExecuteFails
    BY <1>3, ExecuteStep
<1>4. CASE UNCHANGED vars
  <2>1. /\ UNCHANGED <<batch, stored, acked, everAcked, sent, bound, pc, row, staged>>
        /\ TypeOK'
    BY <1>4 DEF vars, IInv, TypeOK
  <2>2. Batched' = Batched
    BY <2>1, BatchedUnchanged
  <2> QED
    BY <2>1, <2>2 DEF IInv, NoPhantomRow, AckedIsBatched, RowIsFresh, StagedIsRow,
                      AckedWasBound, ExecuteOnSent
<1> QED
    BY <1>1, <1>2, <1>3, <1>4, OtherStep DEF Next, Inside

-----------------------------------------------------------------------------
(* Theorems *)

\* The inductive invariant holds in every reachable state.
THEOREM Invariance == Spec => []IInv
<1>1. Init => IInv
  <2> SUFFICES ASSUME Init
               PROVE  IInv
    OBVIOUS
  <2>1. batch \in Seq(Record) /\ DOMAIN batch = {} /\ Batched = {}
    BY EmptySeq DEF Init, Batched
  <2>2. TypeOK
    BY <2>1, StmtAssumption DEF Init, TypeOK, Pc
  <2> QED
    BY <2>1, <2>2 DEF Init, IInv, NoPhantomRow, AckedIsBatched, RowIsFresh, StagedIsRow,
                      AckedWasBound, ExecuteOnSent, BindPc
<1> QED
    BY <1>1, NextStep, PTL DEF Spec

\* The types of the statement, for any rows and tables.
THEOREM TypeCorrect == Spec => []TypeOK
<1>1. IInv => TypeOK
    BY DEF IInv
<1> QED
    BY <1>1, Invariance, PTL

\* No retry and no failed bind leaves a row behind: a row is batched once, and
\* batched or stored only after a bind that was Ok.
THEOREM RowsOnce == Spec => []NoPhantomRow
<1>1. IInv => NoPhantomRow
    BY DEF IInv
<1> QED
    BY <1>1, Invariance, PTL

\* Nothing but execute and Drop takes an accepted row out of the batch.
THEOREM RowsKept == Spec => []AckedIsBatched
<1>1. IInv => AckedIsBatched
    BY DEF IInv
<1> QED
    BY <1>1, Invariance, PTL

\* The methods of Stmt implement the abstract insert: what taos_stmt_execute has
\* sent with success is stored, and nothing else is ever confirmed.
THEOREM ImplementsBatchInsert == Spec => PromiseKept
<1>1. Init => Promise!Init
    BY DEF Init, Promise!Init, Batched
<1>2. IInv /\ [Next]_vars => [Promise!Next]_(Promise!vars)
  <2> SUFFICES ASSUME IInv, [Next]_vars
               PROVE  Promise!Next \/ UNCHANGED <<Batched, stored, confirmed>>
    BY DEF Promise!vars
  <2> USE DEF Goto, history, library
  <2>1. ASSUME NEW from \in {"addBatch", "inplaceAddBatch"}, ReturnOk(from), AddBatch
        PROVE  Promise!Next
    <3>1. /\ pc = from /\ staged \in Record /\ staged.row = row
          /\ \A e \in everAcked : e.row # row
          /\ Batched \union stored \subseteq everAcked
      BY <2>1 DEF ReturnOk, IInv, StagedIsRow, RowIsFresh, BindPc, NoPhantomRow
    <3>2. staged \notin Batched \union stored
      BY <3>1
    <3>3. Batched' = Batched \union {staged} /\ UNCHANGED <<stored, confirmed>>
      BY <2>1, <3>1, AddBatchAdds DEF IInv, AddBatch, ReturnOk
    <3>4. Promise!Add(staged)
      BY <3>2, <3>3 DEF Promise!Add
    <3> QED
      BY <3>1, <3>4 DEF Promise!Next
  <2>2. CASE Execute
    <3>1. /\ sent = Batched /\ Batched' = {} /\ stored' = stored \union Batched
          /\ confirmed' = confirmed \union sent
      BY <2>2, BatchedEmpty DEF Execute, ExecuteReturnsOk, IInv, ExecuteOnSent
    <3>2. Promise!Flush
      BY <3>1 DEF Promise!Flush
    <3> QED
      BY <3>2 DEF Promise!Next
  <2>3. CASE ExecuteFails
    <3>1. Batched' \in {Batched, {}}
      BY <2>3, BatchedEmpty, BatchedUnchanged DEF ExecuteFails
    <3>2. /\ \E part \in SUBSET Batched : stored' = stored \union part
          /\ UNCHANGED confirmed
      BY <2>3 DEF ExecuteFails, ExecuteReturnsErr
    <3>3. Promise!FlushFails
      BY <3>1, <3>2 DEF Promise!FlushFails
    <3> QED
      BY <3>3 DEF Promise!Next
  <2>4. CASE Close
    <3>1. Batched' = {} /\ UNCHANGED <<stored, confirmed>>
      BY <2>4, BatchedEmpty DEF Close
    <3>2. {} \in SUBSET Batched /\ stored' = stored \union {}
      BY <3>1
    <3>3. Promise!FlushFails
      BY <3>1, <3>2 DEF Promise!FlushFails
    <3> QED
      BY <3>3 DEF Promise!Next
  <2>5. ASSUME \/ StmtInit \/ Prepare \/ SetTbname \/ CallExecute \/ Probe
               \/ BindBindParam \/ InplaceBindParam
               \/ AddBatchFails /\ (BindAddBatch \/ InplaceAddBatch) /\ UNCHANGED confirmed
               \/ \E r \in Row, method \in {"bindParam", "inplaceParam"} :
                        CallBind(r, method)
               \/ UNCHANGED vars
        PROVE  UNCHANGED <<Batched, stored, confirmed>>
    <3>1. UNCHANGED <<batch, stored, confirmed>>
      BY <2>5 DEF StmtInit, Prepare, SetTbname, CallExecute, Probe, ExecuteReturnsErr,
                  BindBindParam, InplaceBindParam, BindParam, ReturnErr, AddBatchFails,
                  CallBind, vars
    <3> QED
      BY <3>1, BatchedUnchanged
  <2> QED
    BY <2>1, <2>2, <2>3, <2>4, <2>5
    DEF Next, Inside, BindAddBatch, InplaceAddBatch, ReturnErr
<1> QED
    BY <1>1, <1>2, Invariance, PTL DEF Spec, PromiseKept, Promise!Spec

\* What the abstract insert promises, and the statement therefore keeps: every row
\* for which taos_stmt_execute itself was Ok is stored, and stays stored.
ConfirmedStored == confirmed \subseteq stored
THEOREM ConfirmedIsStored == Spec => []ConfirmedStored
<1>1. Promise!Init => ConfirmedStored
    BY DEF Promise!Init, ConfirmedStored
<1>2. ConfirmedStored /\ [Promise!Next]_(Promise!vars) => ConfirmedStored'
    BY DEF ConfirmedStored, Promise!Next, Promise!vars, Promise!Add,
           Promise!Flush, Promise!FlushFails
<1>3. Promise!Spec => []ConfirmedStored
    BY <1>1, <1>2, PTL DEF Promise!Spec
<1> QED
    BY <1>3, ImplementsBatchInsert, PTL DEF PromiseKept

-----------------------------------------------------------------------------
(* The safety part of MethodsReturn *)

InMethod == {"prepare", "bindParam", "addBatch", "inplaceParam",
             "inplaceAddBatch", "execute", "probe"}

\* The calls into the library that a method still makes if none of them fails.
CallsLeft(p) ==
    IF p \in {"bindParam", "inplaceParam", "execute"} THEN 2
    ELSE IF p \in InMethod THEN 1 ELSE 0

\* The calls that a method still makes at most, if the library fails MaxErrors
\* times in all: every failed add_batch brings bind_inplace back by one call.
Variant == 2 * (MaxErrors - errors) + CallsLeft(pc)

\* Every step of a method uses up one of the calls that it has left.
GetsNearer == pc \in InMethod => Variant' < Variant /\ Variant' \in Nat

\* prepare, bind, bind_inplace and execute return, however the failures fall: a
\* retry is paid for by the failure that causes it, and nothing else repeats.
THEOREM CallsRunOut == Spec => [][GetsNearer]_vars
<1>1. TypeOK /\ [Next]_vars => [GetsNearer]_vars
    <2> SUFFICES ASSUME TypeOK, Next, pc \in InMethod
                 PROVE  Variant' < Variant /\ Variant' \in Nat
        BY DEF GetsNearer
    <2>1. /\ MaxErrors \in Nat /\ errors \in Nat /\ errors <= MaxErrors
        BY StmtAssumption DEF TypeOK
    <2>2. Inside
        BY DEF Next, InMethod, StmtInit, SetTbname, CallExecute, Close, CallBind, Goto
    <2>3. /\ errors' = errors \/ (errors' = errors + 1 /\ errors < MaxErrors)
          /\ \/ CallsLeft(pc') < CallsLeft(pc)
             \/ CallsLeft(pc') = CallsLeft(pc) + 1 /\ errors' = errors + 1
        <3>1. CASE Prepare \/ BindBindParam \/ BindAddBatch \/ InplaceBindParam
            BY <3>1 DEF Prepare, BindBindParam, BindAddBatch, InplaceBindParam,
                        BindParam, ReturnErr, ReturnOk, AddBatchFails, Goto, Fails,
                        InMethod, CallsLeft
        <3>2. CASE InplaceAddBatch
            BY <3>2 DEF InplaceAddBatch, ReturnOk, AddBatchFails, Goto, Fails,
                        InMethod, CallsLeft
        <3>3. CASE Execute \/ ExecuteFails \/ Probe
            BY <3>3 DEF Execute, ExecuteFails, Probe, ExecuteReturnsOk,
                        ExecuteReturnsErr, Goto, Fails, InMethod, CallsLeft
        <3> QED
            BY <2>2, <3>1, <3>2, <3>3 DEF Inside
    <2>4. CallsLeft(pc) \in Nat /\ CallsLeft(pc') \in Nat
        BY DEF CallsLeft
    <2> HIDE DEF CallsLeft
    <2> QED
        BY <2>1, <2>3, <2>4 DEF Variant
<1> QED
    BY <1>1, TypeCorrect, PTL DEF Spec

=============================================================================
