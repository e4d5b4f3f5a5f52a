---------------------------- MODULE CTaosResult ----------------------------
(***************************************************************************)
(* The results of one native connection (src/client.rs, CTaosResult, and   *)
(* its users raw_query, exec, query, schemaless_insert and the probe of    *)
(* Stmt::execute).  The library hands out a result for every statement; a  *)
(* CTaosResult owns it, and its Drop frees it on whatever path it goes out *)
(* of scope: an error code, the end of a method, a panic while a row is    *)
(* converted.  Rows are fetched one at a time into a buffer that belongs   *)
(* to the library and is overwritten by the next fetch.                    *)
(*                                                                         *)
(* Any number of tasks use the connection at once through &Taos; a result  *)
(* is not Send, so it stays with the task that made it.  The connection is *)
(* open throughout.                                                        *)
(***************************************************************************)
EXTENDS Integers, Sequences

CONSTANTS
    Task,           \* the tasks that share the connection
    Result,         \* the results that the library hands out
    NoResult,       \* a task that owns no result
    MaxRows         \* bound: the rows of a result

ASSUME ResultAssumption ==
    /\ NoResult \notin Result
    /\ MaxRows \in Nat

\* What the library answers to a statement.  A result of `size' rows, of which
\* `odd' is the first that has a value of a type the connector does not know
\* (0: none), or an error.
Answer == {a \in [ok : BOOLEAN, size : 0 .. MaxRows, odd : 0 .. MaxRows] :
                a.odd <= a.size /\ (~a.ok => a.size = 0)}

Method == {"exec", "query", "raw_query", "schemaless_insert"}

VARIABLES
    answer,         \* answer[r]: what the library answered, for results in use
    live,           \* the results that have not been freed
    cursor,         \* cursor[r]: how many rows the library has handed out
    pc,             \* pc[t]: where task t is
    method,         \* method[t]: the method it is in
    res,            \* res[t]: the result that its CTaosResult owns
    rows,           \* rows[t]: the rows that fetch_fields has collected
    returned,       \* history: the rows of r that calls of fetch_fields returned
    fetched,        \* history: results of which a fetch_fields has returned
    interrupted,    \* history: results whose rows broke off with an error
    probes          \* history: results of the probe of Stmt::execute

vars == <<answer, live, cursor, pc, method, res, rows, returned,
          fetched, interrupted, probes>>

Given == DOMAIN answer
InMethod(t) == pc[t] \in {"new", "fetch", "convert", "free"}

\* The type of every variable of the component.
TypeOK ==
    /\ Given \subseteq Result
    /\ answer \in [Given -> Answer]
    /\ live \subseteq Given
    /\ cursor \in [Result -> 0 .. MaxRows]
    /\ pc \in [Task -> {"idle", "new", "held", "fetch", "convert", "free", "panicked"}]
    /\ method \in [Task -> Method]
    /\ res \in [Task -> Result \union {NoResult}]
    /\ rows \in [Task -> Seq(1 .. MaxRows)]
    /\ returned \in [Result -> Seq(1 .. MaxRows)]
    /\ fetched \subseteq Given /\ interrupted \subseteq fetched
    /\ probes \subseteq Given

Init ==
    /\ answer = [r \in {} |-> 0]
    /\ live = {}
    /\ cursor = [r \in Result |-> 0]
    /\ pc = [t \in Task |-> "idle"]
    /\ method = [t \in Task |-> "exec"]
    /\ res = [t \in Task |-> NoResult]
    /\ rows = [t \in Task |-> <<>>]
    /\ returned = [r \in Result |-> <<>>]
    /\ fetched = {}
    /\ interrupted = {}
    /\ probes = {}

Goto(t, from, to) == pc[t] = from /\ pc' = [pc EXCEPT ![t] = to]

history == <<returned, fetched, interrupted>>

-----------------------------------------------------------------------------
(* The library *)

\* A statement is answered with a result that was never handed out before.
Allocate(r, a) ==
    /\ r \notin Given
    /\ answer' = [x \in Given \union {r} |-> IF x = r THEN a ELSE answer[x]]
    /\ live' = live \union {r}

Free(r) == live' = live \ {r}

-----------------------------------------------------------------------------
(* raw_query, exec, query, schemaless_insert *)

Call(t, m, r, a) ==
    /\ Goto(t, "idle", "new")
    /\ Allocate(r, a)
    /\ method' = [method EXCEPT ![t] = m]
    /\ res' = [res EXCEPT ![t] = r]
    /\ UNCHANGED <<cursor, rows, history, probes>>

\* Wrong on purpose: the code is looked at before the result has an owner.
NewFailsUnowned(t) ==
    /\ Goto(t, "new", "idle")
    /\ ~answer[res[t]].ok
    /\ res' = [res EXCEPT ![t] = NoResult]
    /\ UNCHANGED <<answer, live, cursor, method, rows, history, probes>>

\* CTaosResult::new of a result with an error code: the text is copied, and
\* the local CTaosResult is dropped.
NewFails(t) ==
    /\ Goto(t, "new", "idle")
    /\ ~answer[res[t]].ok
    /\ Free(res[t])
    /\ res' = [res EXCEPT ![t] = NoResult]
    /\ UNCHANGED <<answer, cursor, method, rows, history, probes>>

\* CTaosResult::new of any other result: exec and schemaless_insert drop it,
\* query fetches its rows, raw_query returns it.
NewOk(t) ==
    /\ Goto(t, "new", CASE method[t] \in {"exec", "schemaless_insert"} -> "free"
                        [] method[t] = "query"     -> "fetch"
                        [] method[t] = "raw_query" -> "held")
    /\ answer[res[t]].ok
    /\ UNCHANGED <<answer, live, cursor, method, res, rows, history,
                   probes>>

\* The program calls fetch_fields on its own result, perhaps not for the first
\* time, or lets go of it.
HeldFetch(t) ==
    /\ Goto(t, "held", "fetch")
    /\ UNCHANGED <<answer, live, cursor, method, res, rows, history,
                   probes>>

HeldDrop(t) ==
    /\ Goto(t, "held", "free")
    /\ UNCHANGED <<answer, live, cursor, method, res, rows, history,
                   probes>>

\* Drop for CTaosResult.
FreeResult(t) ==
    /\ Goto(t, "free", "idle")
    /\ Free(res[t])
    /\ res' = [res EXCEPT ![t] = NoResult]
    /\ UNCHANGED <<answer, cursor, method, rows, history, probes>>

-----------------------------------------------------------------------------
(* fetch_fields *)

\* taos_fetch_row puts the next row into the library's buffer.
FetchRow(t) ==
    /\ Goto(t, "fetch", "convert")
    /\ cursor[res[t]] < answer[res[t]].size
    /\ cursor' = [cursor EXCEPT ![res[t]] = @ + 1]
    /\ UNCHANGED <<answer, live, method, res, rows, history, probes>>

\* Wrong on purpose: the rows keep pointing into the library's buffer.
ConvertByReference(t) ==
    /\ Goto(t, "convert", "fetch")
    /\ answer[res[t]].odd # cursor[res[t]]
    /\ rows' = [rows EXCEPT ![t] = [i \in 1 .. Len(@) + 1 |-> cursor[res[t]]]]
    /\ UNCHANGED <<answer, live, cursor, method, res, history, probes>>

\* Wrong on purpose: rows are counted from 0.
ConvertFromZero(t) ==
    /\ Goto(t, "convert", "fetch")
    /\ answer[res[t]].odd # cursor[res[t]]
    /\ rows' = [rows EXCEPT ![t] = Append(@, cursor[res[t]] - 1)]
    /\ UNCHANGED <<answer, live, cursor, method, res, history, probes>>

\* The cells of the row in the buffer are copied into fields.
Convert(t) ==
    /\ Goto(t, "convert", "fetch")
    /\ answer[res[t]].odd # cursor[res[t]]
    /\ rows' = [rows EXCEPT ![t] = Append(@, cursor[res[t]])]
    /\ UNCHANGED <<answer, live, cursor, method, res, history, probes>>

\* A type that is not known is unreachable!(): the task unwinds, which drops
\* its CTaosResult.
ConvertPanics(t) ==
    /\ Goto(t, "convert", "panicked")
    /\ answer[res[t]].odd = cursor[res[t]]
    /\ Free(res[t])
    /\ res' = [res EXCEPT ![t] = NoResult]
    /\ rows' = [rows EXCEPT ![t] = <<>>]
    /\ UNCHANGED <<answer, cursor, method, history, probes>>

\* Wrong on purpose: fetch_fields frees the result that it has read.
FetchEndFrees(t) ==
    /\ Goto(t, "fetch", IF method[t] = "raw_query" THEN "held" ELSE "free")
    /\ cursor[res[t]] = answer[res[t]].size
    /\ Free(res[t])
    /\ returned' = [returned EXCEPT ![res[t]] = @ \o rows[t]]
    /\ fetched' = fetched \union {res[t]}
    /\ rows' = [rows EXCEPT ![t] = <<>>]
    /\ UNCHANGED <<answer, cursor, method, res, interrupted, probes>>

\* Wrong on purpose: the loop stops one row short.
FetchEndOneShort(t) ==
    /\ Goto(t, "fetch", IF method[t] = "raw_query" THEN "held" ELSE "free")
    /\ cursor[res[t]] + 1 >= answer[res[t]].size
    /\ returned' = [returned EXCEPT ![res[t]] = @ \o rows[t]]
    /\ fetched' = fetched \union {res[t]}
    /\ rows' = [rows EXCEPT ![t] = <<>>]
    /\ UNCHANGED <<answer, live, cursor, method, res, interrupted, probes>>

\* taos_fetch_row returns NULL: the rows are at their end, or the next block
\* could not be had from the server.  The code does not ask which.
FetchEnd(t) ==
    /\ Goto(t, "fetch", IF method[t] = "raw_query" THEN "held" ELSE "free")
    /\ \/ cursor[res[t]] = answer[res[t]].size /\ UNCHANGED interrupted
       \/ /\ cursor[res[t]] < answer[res[t]].size
          /\ interrupted' = interrupted \union {res[t]}
    /\ returned' = [returned EXCEPT ![res[t]] = @ \o rows[t]]
    /\ fetched' = fetched \union {res[t]}
    /\ rows' = [rows EXCEPT ![t] = <<>>]
    /\ UNCHANGED <<answer, live, cursor, method, res, probes>>

-----------------------------------------------------------------------------
(* Stmt::execute *)

\* The probe `select server_version()': its result has no owner.
Probe(r, a) ==
    /\ Allocate(r, a)
    /\ probes' = probes \union {r}
    /\ UNCHANGED <<cursor, pc, method, res, rows, history>>

-----------------------------------------------------------------------------

Next ==
    \/ \E t \in Task, m \in Method, r \in Result, a \in Answer : Call(t, m, r, a)
    \/ \E t \in Task :
            \/ NewFails(t) \/ NewOk(t) \/ HeldFetch(t) \/ HeldDrop(t)
            \/ FetchRow(t) \/ Convert(t) \/ ConvertPanics(t) \/ FetchEnd(t)
            \/ FreeResult(t)
    \/ \E r \in Result, a \in Answer : Probe(r, a)

Spec == Init /\ [][Next]_vars

-----------------------------------------------------------------------------
(* Properties *)

Converted(t) == IF pc[t] = "convert" THEN cursor[res[t]] - 1 ELSE cursor[res[t]]
Owned == {res[t] : t \in Task} \ {NoResult}

\* No task ever touches a result that has been freed, and no result has two
\* owners: it is freed once, whichever of the ways out of a method is taken.
OwnedIsLive ==
    /\ Owned \subseteq live
    /\ \A t, u \in Task : res[t] = res[u] /\ t # u => res[t] = NoResult

\* Every result is freed when its CTaosResult goes out of scope, after an
\* error code and in a panic too: only the probes of execute leak.
OnlyProbesLeak == live \subseteq Owned \union probes

\* The rows that fetch_fields has collected or returned are the rows that the
\* library handed out, each once, in their order and with their own values,
\* however often fetch_fields is called on one result.
RowsExact ==
    \A t \in Task : pc[t] \in {"held", "fetch", "convert", "free"} =>
        returned[res[t]] \o rows[t] = [i \in 1 .. Converted(t) |-> i]

\* A fetch_fields that returns has returned all rows, unless the library could
\* not get them.
AllRows ==
    \A r \in fetched \ interrupted : Len(returned[r]) = answer[r].size

=============================================================================
