------------------------------ MODULE TaosStmt ------------------------------
(***************************************************************************)
(* One prepared insert statement (src/stmt.rs): Taos::stmt, set_tbname,    *)
(* bind, bind_inplace, execute and Drop.  The statement is not Sync, so    *)
(* one caller drives it; what is hard is that every method is a sequence   *)
(* of calls into the C library, each of which may fail, and that two       *)
(* methods go on after a failure: bind_inplace calls itself again when     *)
(* add_batch fails, and execute asks the server for its version when it    *)
(* cannot resolve the server's name, and takes an answer for success.      *)
(*                                                                         *)
(* The library is external: it stages one row, appends the staged row to   *)
(* its batch, and sends the batch.  A failed send may have stored a part   *)
(* of the batch, and may keep or drop it.                                  *)
(***************************************************************************)
EXTENDS Integers, FiniteSets, Sequences

CONSTANTS
    Row,            \* the rows of parameters, each bound by one call
    Table,          \* the tables that set_tbname or set_tbname_tags can name
    NoTable,        \* no table is chosen yet
    NoRecord,       \* nothing is staged
    MaxErrors       \* bound: how many calls into the library fail in a run

ASSUME StmtAssumption ==
    /\ NoTable \notin Table
    /\ MaxErrors \in Nat

\* A row bound for a table.
Record == [row : Row, table : Table]

ASSUME NoRecordAssumption == NoRecord \notin Record

VARIABLES
    pc,             \* the method and the call inside it that is next
    row,            \* the parameters of the bind in progress
    table,          \* library: the table that rows are bound for
    staged,         \* library: the row between bind_param and add_batch
    batch,          \* library: the rows between add_batch and execute, in order
    stored,         \* server: the rows in the tables
    acked,          \* history: rows whose bind was Ok since the last execute
    everAcked,      \* history: all rows whose bind was Ok
    sent,           \* history: the batch that the execute in progress found
    confirmed,      \* history: rows that an execute has sent with success
    vouched,        \* history: rows that an execute was Ok for after the probe
    bound,          \* history: rows that have been passed to a bind
    errors          \* how many calls have failed

library == <<table, staged, batch, stored>>
history == <<acked, everAcked, sent, confirmed, vouched, bound>>
vars    == <<pc, row, table, staged, batch, stored, acked, everAcked, sent,
             confirmed, vouched, bound, errors>>

Pc == {"none", "prepare", "ready", "bindParam", "addBatch", "inplaceParam",
       "inplaceAddBatch", "execute", "probe", "closed"}

\* The type of every variable of the component.
TypeOK ==
    /\ pc \in Pc
    /\ row \in Row \union {"none"}
    /\ table \in Table \union {NoTable}
    /\ staged \in Record \union {NoRecord}
    /\ batch \in Seq(Record)
    /\ stored \subseteq Record
    /\ acked \subseteq everAcked
    /\ everAcked \subseteq Record
    /\ sent \subseteq everAcked
    /\ confirmed \subseteq everAcked
    /\ vouched \subseteq everAcked
    /\ bound \subseteq Row
    /\ errors \in 0 .. MaxErrors

Init ==
    /\ pc = "none"
    /\ row = "none"
    /\ table = NoTable
    /\ staged = NoRecord
    /\ batch = <<>>
    /\ stored = {}
    /\ acked = {}
    /\ everAcked = {}
    /\ sent = {}
    /\ confirmed = {}
    /\ vouched = {}
    /\ bound = {}
    /\ errors = 0

Batched == {batch[i] : i \in DOMAIN batch}

Goto(from, to) == pc = from /\ pc' = to

Fails == errors < MaxErrors /\ errors' = errors + 1

-----------------------------------------------------------------------------
(* Taos::stmt, set_tbname and set_tbname_tags, Drop *)

StmtInit ==
    /\ Goto("none", "prepare")
    /\ UNCHANGED <<row, library, history, errors>>

\* prepare: on an error the half-made statement is dropped, which closes it.
Prepare ==
    /\ \/ Goto("prepare", "ready") /\ UNCHANGED errors
       \/ Goto("prepare", "closed") /\ Fails
    /\ UNCHANGED <<row, library, history>>

\* The rows that are staged or in the batch keep their table.
SetTbname ==
    /\ Goto("ready", "ready")
    /\ \/ table' \in Table /\ UNCHANGED errors
       \/ Fails /\ UNCHANGED table
    /\ UNCHANGED <<row, staged, batch, stored, history>>

\* taos_stmt_close: what has not been executed is gone.
Close ==
    /\ Goto("ready", "closed")
    /\ staged' = NoRecord
    /\ batch' = <<>>
    /\ UNCHANGED <<row, table, stored, history, errors>>

-----------------------------------------------------------------------------
(* bind and bind_inplace *)

\* A call of either method, with parameters that no earlier call has used.
CallBind(r, method) ==
    /\ Goto("ready", method)
    /\ r \notin bound
    /\ row' = r
    /\ bound' = bound \union {r}
    /\ UNCHANGED <<library, acked, everAcked, sent, confirmed, vouched, errors>>

\* The method returns to its caller, with an error or with Ok.
ReturnErr(from) ==
    /\ Goto(from, "ready")
    /\ row' = "none"
    /\ UNCHANGED history

ReturnOk(from) ==
    /\ Goto(from, "ready")
    /\ row' = "none"
    /\ acked' = acked \union {staged}
    /\ everAcked' = everAcked \union {staged}
    /\ UNCHANGED <<sent, confirmed, vouched, bound>>

\* Wrong on purpose: no `?' after bind_param, the method goes on to add_batch.
BindParamUnchecked(from, to) ==
    /\ Goto(from, to)
    /\ \/ /\ table # NoTable
          /\ staged' = [row |-> row, table |-> table]
          /\ UNCHANGED errors
       \/ /\ IF table = NoTable THEN UNCHANGED errors ELSE Fails
          /\ staged' \in {staged, NoRecord}
    /\ UNCHANGED <<row, history>>

\* taos_stmt_bind_param stages the row for the chosen table, over whatever an
\* earlier, failed add_batch has left; without a table it fails.
BindParam(from, to) ==
    \/ /\ table # NoTable
       /\ Goto(from, to)
       /\ staged' = [row |-> row, table |-> table]
       /\ UNCHANGED <<row, history, errors>>
    \/ /\ ReturnErr(from)
       /\ IF table = NoTable THEN UNCHANGED errors ELSE Fails
       /\ staged' \in {staged, NoRecord}

BindBindParam    == BindParam("bindParam", "addBatch")
                        /\ UNCHANGED <<table, batch, stored>>
InplaceBindParam == BindParam("inplaceParam", "inplaceAddBatch")
                        /\ UNCHANGED <<table, batch, stored>>

\* taos_stmt_add_batch appends the staged row.
AddBatch ==
    /\ batch' = Append(batch, staged)
    /\ staged' = NoRecord
    /\ UNCHANGED <<table, stored>>

AddBatchFails ==
    /\ Fails
    /\ staged' \in {staged, NoRecord}
    /\ UNCHANGED <<table, batch, stored>>

\* Wrong on purpose: no `?' after add_batch.
BindAddBatchUnchecked ==
    /\ ReturnOk("addBatch")
    /\ (AddBatch /\ UNCHANGED errors) \/ AddBatchFails

\* bind: `?' on both calls.
BindAddBatch ==
    \/ ReturnOk("addBatch") /\ AddBatch /\ UNCHANGED errors
    \/ ReturnErr("addBatch") /\ AddBatchFails

\* Wrong on purpose: the row is appended although add_batch reports an error,
\* as it would be if the retry came after a call that had taken effect.
InplaceAddBatchTwice ==
    \/ ReturnOk("inplaceAddBatch") /\ AddBatch /\ UNCHANGED errors
    \/ /\ Goto("inplaceAddBatch", "inplaceParam")
       /\ Fails
       /\ batch' = Append(batch, staged)
       /\ UNCHANGED <<row, table, staged, stored, history>>

\* Wrong on purpose: the retry repeats without a successful add_batch ever
\* ending it.
InplaceAddBatchForever ==
    \/ /\ Goto("inplaceAddBatch", "inplaceParam")
       /\ UNCHANGED <<row, library, history, errors>>

\* bind_inplace: when add_batch fails, the error is dropped and the method
\* calls itself with the same parameters.
InplaceAddBatch ==
    \/ ReturnOk("inplaceAddBatch") /\ AddBatch /\ UNCHANGED errors
    \/ /\ Goto("inplaceAddBatch", "inplaceParam")
       /\ AddBatchFails
       /\ UNCHANGED <<row, history>>

-----------------------------------------------------------------------------
(* execute *)

CallExecute ==
    /\ Goto("ready", "execute")
    /\ sent' = Batched
    /\ acked' = {}
    /\ UNCHANGED <<row, library, everAcked, confirmed, vouched, bound, errors>>

ExecuteReturnsOk ==
    /\ Goto("execute", "ready")
    /\ confirmed' = confirmed \union sent
    /\ UNCHANGED <<row, acked, everAcked, sent, vouched, bound>>

ExecuteReturnsErr(from) ==
    /\ Goto(from, "ready")
    /\ UNCHANGED <<row, history>>

\* taos_stmt_execute stores the batch.
Execute ==
    /\ ExecuteReturnsOk
    /\ stored' = stored \union Batched
    /\ batch' = <<>>
    /\ UNCHANGED <<table, staged, errors>>

\* Wrong on purpose: an error that is not looked at.
ExecuteFailsUnseen ==
    /\ Fails
    /\ \E part \in SUBSET Batched : stored' = stored \union part
    /\ batch' \in {batch, <<>>}
    /\ UNCHANGED <<table, staged>>
    /\ ExecuteReturnsOk

\* Every error but RpcFqdnError is returned.
ExecuteFails ==
    /\ Fails
    /\ \E part \in SUBSET Batched : stored' = stored \union part
    /\ batch' \in {batch, <<>>}
    /\ UNCHANGED <<table, staged>>
    /\ \/ ExecuteReturnsErr("execute")
       \/ Goto("execute", "probe") /\ UNCHANGED <<row, history>>

\* select server_version(): an answer makes execute Ok, an error gives the
\* error of the execute.
Probe ==
    /\ \/ /\ Goto("probe", "ready")
          /\ vouched' = vouched \union sent
          /\ UNCHANGED <<row, acked, everAcked, sent, confirmed, bound, errors>>
       \/ ExecuteReturnsErr("probe") /\ Fails
    /\ UNCHANGED library

-----------------------------------------------------------------------------

Inside ==
    \/ Prepare \/ BindBindParam \/ BindAddBatch \/ InplaceBindParam
    \/ InplaceAddBatch \/ Execute \/ ExecuteFails \/ Probe

Next ==
    \/ StmtInit \/ SetTbname \/ CallExecute \/ Close
    \/ \E r \in Row, method \in {"bindParam", "inplaceParam"} :
            CallBind(r, method)
    \/ Inside

Spec == Init /\ [][Next]_vars

\* The thread inside a method goes on.
FairSpec == Spec /\ WF_vars(Inside)

-----------------------------------------------------------------------------
(* Properties *)

\* A row is in the batch once, and in the batch or in the database only if its
\* bind was Ok, for the table that was chosen when it was bound: neither the
\* retry of bind_inplace nor a bind that failed half-way leaves a trace.
NoPhantomRow ==
    /\ \A i, j \in DOMAIN batch : batch[i].row = batch[j].row => i = j
    /\ Batched \union stored \subseteq everAcked

\* Every row whose bind was Ok waits in the batch for the next execute: no
\* method but execute and Drop loses what was accepted, whatever fails.
AckedIsBatched == pc # "closed" => acked \subseteq Batched

\* If the library fails only so many times, every method returns: bind_inplace
\* calls itself no more often than add_batch fails.
MethodsReturn == pc \notin {"none", "ready"} ~> pc \in {"ready", "closed"}

\* The promise of a prepared insert, with every retry and every failure: what
\* an execute has sent with success is stored.
Promise == INSTANCE BatchInsert WITH batch <- Batched
PromiseKept == Promise!Spec

\* What the tests rely on when they count the rows after `stmt.execute()?': an
\* execute that is Ok has stored every row whose bind was Ok.
OkMeansStored == confirmed \union vouched \subseteq stored

=============================================================================
