------------------------------ MODULE TaosCalls ------------------------------
(***************************************************************************)
(* What a call of the connector returns to the program: success, an error  *)
(* with its code and its text, or the schema of a table.  The four ways on *)
(* which an error number of the library becomes a TaosError are            *)
(* CTaosResult::new and load_table_info (src/client.rs), Stmt::err_or      *)
(* (src/stmt.rs) and the Error case of a response (src/rest.rs).  The text *)
(* of an error is a Cow<'static, str>; err_or lets it point into the       *)
(* statement, where the library keeps the text of the last failed call     *)
(* until the statement is closed.                                          *)
(*                                                                         *)
(* A text is known by the call that failed.  The program keeps every error *)
(* that it gets.                                                           *)
(***************************************************************************)
EXTENDS TaosCode, TaosDescribe

CONSTANTS
    Errno,          \* the error numbers of the library, as i32
    Stmt,           \* the prepared statements
    Table,          \* the tables that are described and queried
    MaxCalls        \* bound: how many calls the program makes

\* The library numbers an error by a code in the low half, and success by 0.
ASSUME ErrnoAssumption ==
    \A e \in Errno : e \in Int /\ (LowHalf(e) = Success => e = Success)

ASSUME StmtAssumption ==
    /\ Stmt \cap {"own", "result"} = {}
    /\ MaxCalls \in Nat

\* Tags follow the columns, and a column is at most 16K long.
ASSUME TableAssumption ==
    \A table \in Table :
        /\ table \in Seq(Column)
        /\ \A i, j \in DOMAIN table : i < j /\ table[i].tag => table[j].tag
        /\ \A i \in DOMAIN table : table[i].bytes <= \h4000

VARIABLES
    calls,          \* how many calls were made; they are numbered from 1
    stmt,           \* stmt[s]: the life of a statement
    buffer,         \* buffer[s]: the call whose text the statement holds, or 0
    errors,         \* the errors that the program keeps
    answers,        \* history: what every call returned for its error number
    schema          \* what a table was last said to be

vars == <<calls, stmt, buffer, errors, answers, schema>>

\* The ways of an error number.
Path == {"query", "load_table_info", "stmt", "execute", "rest"}

\* Where the text of an error is: in a String of its own, which a literal in
\* the program is like, in a statement, or in a freed result.
Place == {"own", "result"} \union Stmt

NoSchema == [of |-> "none", table |-> <<>>, how |-> "ok", cols |-> <<>>, tags |-> <<>>]

\* The type of every variable of the component.
TypeOK ==
    /\ calls \in 0 .. MaxCalls
    /\ stmt \in [Stmt -> {"none", "open", "closed"}]
    /\ buffer \in [Stmt -> 0 .. MaxCalls]
    /\ errors \subseteq [call : 1 .. MaxCalls, code : Codes, text : Place]
    /\ answers \subseteq [path : Path, errno : Errno, ok : BOOLEAN, code : Codes]
    /\ schema.of \in {"none", "describe", "query", "rest query"}
    /\ schema.table \in Table \union {<<>>}
    /\ schema.how \in {"ok", "error", "panicked"}

Init ==
    /\ calls = 0
    /\ stmt = [s \in Stmt |-> "none"]
    /\ buffer = [s \in Stmt |-> 0]
    /\ errors = {}
    /\ answers = {}
    /\ schema = NoSchema

Call == calls < MaxCalls /\ calls' = calls + 1

\* The call returns Ok, or Err with a TaosError that the program keeps.
ReturnOk(path, errno) ==
    /\ answers' = answers \union
            {[path |-> path, errno |-> errno, ok |-> TRUE, code |-> Success]}
    /\ UNCHANGED errors

ReturnErr(path, errno, code, text) ==
    /\ answers' = answers \union
            {[path |-> path, errno |-> errno, ok |-> FALSE, code |-> code]}
    /\ errors' = errors \union {[call |-> calls', code |-> code, text |-> text]}

-----------------------------------------------------------------------------
(* Calls on a connection *)

\* Wrong on purpose: the text is not copied before the result is freed.
QueryErrorBorrowed(errno) ==
    LET code == FromI32(LowHalf(errno))
    IN  IF code = Success THEN ReturnOk("query", errno)
                          ELSE ReturnErr("query", errno, code, "result")

\* CTaosResult::new: the text is copied, then the result is freed.
QueryResult(errno) ==
    LET code == FromI32(LowHalf(errno))
    IN  IF code = Success THEN ReturnOk("query", errno)
                          ELSE ReturnErr("query", errno, code, "own")

Query(errno) ==
    /\ Call
    /\ QueryResult(errno)
    /\ UNCHANGED <<stmt, buffer, schema>>

\* Wrong on purpose: the number is decoded as it is.
LoadTableInfoUnmasked(errno) ==
    /\ Call
    /\ LET code == FromI32(errno)
       IN  IF code = Success THEN ReturnOk("load_table_info", errno)
                             ELSE ReturnErr("load_table_info", errno, code, "own")
    /\ UNCHANGED <<stmt, buffer, schema>>

\* load_table_info: the text is a literal.
LoadTableInfo(errno) ==
    /\ Call
    /\ LET code == FromI32(LowHalf(errno))
       IN  IF code = Success THEN ReturnOk("load_table_info", errno)
                             ELSE ReturnErr("load_table_info", errno, code, "own")
    /\ UNCHANGED <<stmt, buffer, schema>>

\* A statement over HTTP: the server answers with rows or with the low half of
\* its error number, which is not masked again.
RestQuery(errno) ==
    /\ Call
    /\ IF errno = Success
       THEN ReturnOk("rest", errno)
       ELSE ReturnErr("rest", errno, FromI32(LowHalf(errno)), "own")
    /\ UNCHANGED <<stmt, buffer, schema>>

-----------------------------------------------------------------------------
(* Calls on a statement *)

\* The library keeps the text of a failed call in the statement.
KeepText(s, errno) ==
    buffer' = IF errno = Success THEN buffer ELSE [buffer EXCEPT ![s] = calls']

\* Stmt::err_or: success is 0 in all bits.  Text that is UTF-8 stays where it is
\* (to_owned of a Cow that borrows), other text is converted, and without a
\* text it is a literal.
ErrOr(s, path, errno) ==
    IF errno = Success
    THEN ReturnOk(path, errno)
    ELSE \E text \in {"own", s} :
            ReturnErr(path, errno, FromI32(LowHalf(errno)), text)

\* Taos::stmt: init and prepare; on an error the statement is dropped, which
\* closes it, while its text is on the way to the program.
NewStmt(s, errno) ==
    /\ Call
    /\ stmt[s] = "none"
    /\ KeepText(s, errno)
    /\ ErrOr(s, "stmt", errno)
    /\ stmt' = [stmt EXCEPT ![s] = IF errno = Success THEN "open" ELSE "closed"]
    /\ UNCHANGED schema

\* set_tbname, set_sub_tbname, set_tbname_tags, bind: a call into the library,
\* and err_or of what it returns.
StmtCall(s, errno) ==
    /\ Call
    /\ stmt[s] = "open"
    /\ KeepText(s, errno)
    /\ ErrOr(s, "stmt", errno)
    /\ UNCHANGED <<stmt, schema>>

\* bind_inplace that calls itself: an error of add_batch is dropped, and what is
\* returned is of a later attempt.
BindAgain(s, errno) ==
    /\ Call
    /\ stmt[s] = "open"
    /\ buffer' = [buffer EXCEPT ![s] = calls']
    /\ ErrOr(s, "stmt", errno)
    /\ UNCHANGED <<stmt, schema>>

\* execute: when the server's name cannot be resolved but the server answers a
\* query, the error is dropped.
Execute(s, errno) ==
    /\ Call
    /\ stmt[s] = "open"
    /\ KeepText(s, errno)
    /\ \/ ErrOr(s, "execute", errno)
       \/ FromI32(LowHalf(errno)) = RpcFqdnError /\ ReturnOk("execute", errno)
    /\ UNCHANGED <<stmt, schema>>

\* Drop for Stmt.
CloseStmt(s) ==
    /\ stmt[s] = "open"
    /\ stmt' = [stmt EXCEPT ![s] = "closed"]
    /\ UNCHANGED <<calls, buffer, errors, answers, schema>>

-----------------------------------------------------------------------------
(* Schemas *)

Learn(of, table, answer) ==
    schema' = [of |-> of, table |-> table, how |-> answer.how,
               cols |-> answer.cols, tags |-> answer.tags]

\* Taos::describe of either transport, of a table that exists.
DescribeTable(table) ==
    /\ Call
    /\ Learn("describe", table, Describe(DescribeRows(table)))
    /\ UNCHANGED <<stmt, buffer, errors, answers>>

\* The column_meta of `select *'.
QueryTable(table) ==
    /\ Call
    /\ \/ Learn("query", table, NativeMeta(table))
       \/ Learn("rest query", table, RestMeta(table))
    /\ UNCHANGED <<stmt, buffer, errors, answers>>

-----------------------------------------------------------------------------

Next ==
    \/ \E errno \in Errno : Query(errno) \/ LoadTableInfo(errno) \/ RestQuery(errno)
    \/ \E s \in Stmt, errno \in Errno :
            \/ NewStmt(s, errno) \/ StmtCall(s, errno)
            \/ BindAgain(s, errno) \/ Execute(s, errno)
    \/ \E s \in Stmt : CloseStmt(s)
    \/ \E table \in Table : DescribeTable(table) \/ QueryTable(table)

Spec == Init /\ [][Next]_vars

-----------------------------------------------------------------------------
(* Properties *)

\* What the program reads when it looks at the text of an error: the text of
\* which call, or 0 for what is found in freed memory.
Reads(e) ==
    CASE e.text = "own"    -> e.call
      [] e.text = "result" -> 0
      [] e.text \in Stmt   -> IF stmt[e.text] = "closed" THEN 0 ELSE buffer[e.text]

\* An execute that the probe has turned into success.
Vouched(a) == a.path = "execute" /\ a.ok /\ LowHalf(a.errno) = RpcFqdnError

\* No failure is lost, but for the one that execute asks the server about, and
\* no success is refused, on whichever way; a code of the table arrives as that
\* code; and no two ways ever report one failure differently, though each of
\* them decodes the number by itself.
ErrorsReported ==
    \A a \in answers :
        \/ Vouched(a)
        \/ /\ a.ok <=> a.errno = Success
           /\ a.ok <=> a.code = Success
           /\ LowHalf(a.errno) \in Codes => a.code = LowHalf(a.errno)
           /\ \A b \in answers :
                LowHalf(a.errno) = LowHalf(b.errno) => Vouched(b) \/ a.code = b.code

\* The text of a kept error stays that of its own call, whatever is called
\* afterwards; but for that of a statement, which does so until the next failure
\* on that statement, or its end, whatever else happens in between.
TextsOwn ==
    \A e \in errors :
        \/ Reads(e) = e.call
        \/ e.text \in Stmt /\ (stmt[e.text] = "closed" \/ buffer[e.text] > e.call)

\* A type that the enum of the connector was not made for.
Newer(type) == type \notin DOMAIN LibraryNumber \union {"Json"}

\* What the connector says of a table is what the server has: describe lists every
\* column and every tag once, in order, each on its own side, a query's metadata
\* lists all of them, both with the types and lengths that the table has.  But
\* describe panics, always and only, over a type that from_str has no arm for, json
\* among them, and a query over HTTP is refused, always and only, for a newer type,
\* where a native one says Unknown of that column and the truth of the others.
SchemaExact ==
    LET table == schema.table
        metas == schema.cols \o schema.tags
        Fails(type) ==
            \/ schema.of = "describe" /\ (Newer(type) \/ type \in {"Json", "Null"})
            \/ schema.of = "rest query" /\ Newer(type)
    IN  IF \E i \in DOMAIN table : Fails(table[i].type)
        THEN schema.how = (IF schema.of = "describe" THEN "panicked" ELSE "error")
        ELSE /\ schema.how = "ok"
             /\ Names(schema) = [i \in DOMAIN table |-> table[i].name]
             /\ \A i \in DOMAIN table :
                    /\ metas[i].bytes = table[i].bytes
                    /\ metas[i].type = IF Newer(table[i].type) THEN "Unknown"
                                       ELSE table[i].type
                    /\ schema.of = "describe" => (table[i].tag <=> i > Len(schema.cols))

\* TaosError declares its text a Cow<'static, str>, a text that is valid for as
\* long as the program runs: that of the call that failed.
TextsStay == \A e \in errors : Reads(e) = e.call

=============================================================================
