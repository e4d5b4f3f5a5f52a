------------------------------ MODULE TaosRest ------------------------------
(***************************************************************************)
(* Statements sent over HTTP (src/rest.rs, raw_query, exec and query).     *)
(* Every statement is one POST request with a time-out of ten seconds; when *)
(* send() fails for whatever reason the same request is sent once more, on *)
(* another connection.  A failure to read the body is not retried.         *)
(*                                                                         *)
(* The network and the server are external: a request is executed late,    *)
(* early or never, independently of whether its sender still waits, so the *)
(* two requests of one call can be executed in either order and after the  *)
(* call has returned.  The statements are `create database' and `drop      *)
(* database if exists'.                                                    *)
(***************************************************************************)
EXTENDS Integers, Sequences, FiniteSets

CONSTANTS
    Task,           \* the tasks that call query() or exec(), one call at a time
    Database,       \* the databases that the statements name
    Script          \* Script[t]: the statements that task t executes in order

Statement == [op : {"create", "drop", "tooLong"}, db : Database]

ASSUME ScriptAssumption == Script \in [Task -> Seq(Statement)]

VARIABLES
    pc,             \* pc[t]: where the current call of task t is
    results,        \* results[t]: what its finished calls returned
    reqs,           \* requests that the server has not seen and may still see
    resps,          \* responses whose request is still being waited for
    databases,      \* the server's state: the databases that exist
    executed        \* history: the requests executed, with their answers

vars == <<pc, results, reqs, resps, databases, executed>>

\* What a call returns: the server's answer or a transport error.
Answer == {"data", "error"}
Result == [answer : Answer \union {"transport"}, attempt : {1, 2}]

Request  == [task : Task, call : Nat, attempt : {1, 2}]
Response == [req : Request, answer : Answer]

\* The type of every variable of the component.
TypeOK ==
    /\ pc \in [Task -> {"idle", "send1", "send2", "body1", "body2", "panicked"}]
    /\ results \in [Task -> Seq(Result)]
    /\ reqs \subseteq Request
    /\ resps \subseteq Response
    /\ databases \subseteq Database
    /\ executed \subseteq Response

Init ==
    /\ pc = [t \in Task |-> "idle"]
    /\ results = [t \in Task |-> <<>>]
    /\ reqs = {}
    /\ resps = {}
    /\ databases \in SUBSET Database
    /\ executed = {}

-----------------------------------------------------------------------------
(* The client *)

Call(t)       == Len(results[t]) + (IF pc[t] = "idle" THEN 0 ELSE 1)
Attempt(t)    == IF pc[t] \in {"send1", "body1"} THEN 1 ELSE 2
Current(t)    == [task |-> t, call |-> Call(t), attempt |-> Attempt(t)]
Sending(t)    == pc[t] \in {"send1", "send2"}
ReadingBody(t) == pc[t] \in {"body1", "body2"}

Return(t, answer) ==
    /\ pc' = [pc EXCEPT ![t] = "idle"]
    /\ results' = [results EXCEPT
            ![t] = Append(@, [answer |-> answer, attempt |-> Attempt(t)])]

\* The programs that use the connector stop at the first call that is not Ok
\* (`?' or an assertion), so a script goes on after Ok only.
MayCall(t) ==
    /\ pc[t] = "idle"
    /\ Len(results[t]) < Len(Script[t])
    /\ \A i \in DOMAIN results[t] : results[t][i].answer = "data"

NextStatement(t) == Script[t][Len(results[t]) + 1]

\* Wrong on purpose: the request is sent on two connections at once.
SendHedged(t) ==
    /\ MayCall(t)
    /\ NextStatement(t).op # "tooLong"
    /\ pc' = [pc EXCEPT ![t] = "send1"]
    /\ reqs' = reqs \union
            [task : {t}, call : {Len(results[t]) + 1}, attempt : {1, 2}]
    /\ UNCHANGED <<results, resps, databases, executed>>

Send(t) ==
    /\ MayCall(t)
    /\ NextStatement(t).op # "tooLong"
    /\ pc' = [pc EXCEPT ![t] = "send1"]
    /\ reqs' = reqs \union
            {[task |-> t, call |-> Len(results[t]) + 1, attempt |-> 1]}
    /\ UNCHANGED <<results, resps, databases, executed>>

\* assert!(sql.len() < 65480) fails before anything is sent.
SendTooLong(t) ==
    /\ MayCall(t)
    /\ NextStatement(t).op = "tooLong"
    /\ pc' = [pc EXCEPT ![t] = "panicked"]
    /\ UNCHANGED <<results, reqs, resps, databases, executed>>

\* Wrong on purpose: without a time-out send() fails only when the request is
\* known to be lost.
SendFailsNoTimeout(t) ==
    /\ Sending(t)
    /\ Current(t) \notin reqs
    /\ \A r \in resps : r.req # Current(t)
    /\ \/ /\ pc[t] = "send1"
          /\ pc' = [pc EXCEPT ![t] = "send2"]
          /\ reqs' = reqs \union {[Current(t) EXCEPT !.attempt = 2]}
          /\ UNCHANGED results
       \/ /\ pc[t] = "send2"
          /\ Return(t, "transport")
          /\ UNCHANGED reqs
    /\ UNCHANGED <<resps, databases, executed>>

\* Wrong on purpose: a request that was sent twice without an answer is taken
\* to be done.
SendFailsSilently(t) ==
    /\ Sending(t)
    /\ \/ /\ pc[t] = "send1"
          /\ pc' = [pc EXCEPT ![t] = "send2"]
          /\ reqs' = reqs \union {[Current(t) EXCEPT !.attempt = 2]}
          /\ UNCHANGED results
       \/ /\ pc[t] = "send2"
          /\ Return(t, "data")
          /\ UNCHANGED reqs
    /\ resps' = {r \in resps : r.req # Current(t)}
    /\ UNCHANGED <<databases, executed>>

\* Wrong on purpose: the request is sent a third time.
SendFailsAgain(t) ==
    /\ Sending(t)
    /\ pc' = [pc EXCEPT ![t] = "send2"]
    /\ reqs' = reqs \union {[Current(t) EXCEPT !.attempt = @ + 1]}
    /\ resps' = {r \in resps : r.req # Current(t)}
    /\ UNCHANGED <<results, databases, executed>>

\* send() fails: refused, reset or timed out, the error is not looked at.  The
\* first failure sends the request again, the second one is returned.  Nobody
\* listens for the answer to the failed request any more.
SendFails(t) ==
    /\ Sending(t)
    /\ \/ /\ pc[t] = "send1"
          /\ pc' = [pc EXCEPT ![t] = "send2"]
          /\ reqs' = reqs \union {[Current(t) EXCEPT !.attempt = 2]}
          /\ UNCHANGED results
       \/ /\ pc[t] = "send2"
          /\ Return(t, "transport")
          /\ UNCHANGED reqs
    /\ resps' = {r \in resps : r.req # Current(t)}
    /\ UNCHANGED <<databases, executed>>

\* The head of the response arrives: send() is Ok.
HeadArrives(t) ==
    /\ Sending(t)
    /\ \E r \in resps : r.req = Current(t)
    /\ pc' = [pc EXCEPT ![t] = IF Attempt(t) = 1 THEN "body1" ELSE "body2"]
    /\ UNCHANGED <<results, reqs, resps, databases, executed>>

\* Wrong on purpose: any response that parses is a success.
BodyArrivesUnread(t) ==
    /\ ReadingBody(t)
    /\ \E r \in resps :
        /\ r.req = Current(t)
        /\ Return(t, "data")
        /\ resps' = resps \ {r}
    /\ UNCHANGED <<reqs, databases, executed>>

\* res.json() is Ok: the data variant of the response or its error variant.
BodyArrives(t) ==
    /\ ReadingBody(t)
    /\ \E r \in resps :
        /\ r.req = Current(t)
        /\ Return(t, r.answer)
        /\ resps' = resps \ {r}
    /\ UNCHANGED <<reqs, databases, executed>>

\* res.json() fails: cut off, timed out, or not the JSON that is expected.
BodyFails(t) ==
    /\ ReadingBody(t)
    /\ Return(t, "transport")
    /\ resps' = {r \in resps : r.req # Current(t)}
    /\ UNCHANGED <<reqs, databases, executed>>

-----------------------------------------------------------------------------
(* The network and the server *)

\* The request is executed now; its answer travels to whoever still waits.
Execute(q) ==
    /\ q \in reqs
    /\ reqs' = reqs \ {q}
    /\ LET statement == Script[q.task][q.call]
           refused == statement.op = "create" /\ statement.db \in databases
           response == [req |-> q, answer |-> IF refused THEN "error" ELSE "data"]
       IN  /\ databases' = IF statement.op = "create"
                           THEN databases \union {statement.db}
                           ELSE databases \ {statement.db}
           /\ executed' = executed \union {response}
           /\ resps' = IF Sending(q.task) /\ Current(q.task) = q
                       THEN resps \union {response}
                       ELSE resps
    /\ UNCHANGED <<pc, results>>

\* The request is lost, or the server drops it.
Lose(q) ==
    /\ q \in reqs
    /\ reqs' = reqs \ {q}
    /\ UNCHANGED <<pc, results, resps, databases, executed>>

-----------------------------------------------------------------------------

Waiting(t) == SendFails(t) \/ HeadArrives(t) \/ BodyArrives(t) \/ BodyFails(t)

Next ==
    \/ \E t \in Task : Send(t) \/ SendTooLong(t) \/ Waiting(t)
    \/ \E q \in reqs : Execute(q) \/ Lose(q)

Spec == Init /\ [][Next]_vars

\* A call that waits goes on: the time-out fires if nothing else happens.  The
\* server and the network are not obliged to do anything.
Fairness == \A t \in Task : WF_vars(Waiting(t))

FairSpec == Spec /\ Fairness

-----------------------------------------------------------------------------
(* Properties *)

Executions(t, i) == {e \in executed : e.req.task = t /\ e.req.call = i}
InFlight(t, i)   == {q \in reqs : q.task = t /\ q.call = i}

\* A statement answered at the first attempt was executed once and will not be
\* executed again: only a send() that failed leaves a request behind.
FirstAttemptOnce ==
    \A t \in Task : \A i \in DOMAIN results[t] :
        results[t][i].answer \in Answer /\ results[t][i].attempt = 1 =>
            /\ Cardinality(Executions(t, i)) = 1
            /\ InFlight(t, i) = {}

\* No task but t names d.
Private(t, d) ==
    \A u \in Task \ {t} : \A i \in DOMAIN Script[u] : Script[u][i].db # d

\* Call i of task t creates a private database that call i - 1 dropped and no
\* earlier call creates.
Recreates(t, i) ==
    /\ i > 1 /\ Private(t, Script[t][i].db)
    /\ Script[t][i - 1].db = Script[t][i].db
    /\ Script[t][i - 1].op = "drop" /\ Script[t][i].op = "create"
    /\ \A j \in 1 .. i - 1 :
            Script[t][j].db = Script[t][i].db => Script[t][j].op # "create"

\* A create that follows a drop that was Ok is refused by the server only
\* because the same create has already succeeded in its other attempt: the
\* error never means that the statement was not done.
RefusedMeansDone ==
    \A t \in Task : \A i \in DOMAIN results[t] :
        Recreates(t, i) /\ results[t][i].answer = "error"
        => \E e \in Executions(t, i) :
                e.answer = "data" /\ e.req.attempt # results[t][i].attempt

\* After calls that were all answered at the first attempt a private database
\* is in the state that the last statement on it says, and stays in it.
StateAsAnswered ==
    \A t \in Task, d \in Database :
        LET On == {i \in DOMAIN results[t] : Script[t][i].db = d}
        IN  /\ pc[t] = "idle" /\ Private(t, d)
            /\ \A i \in On : results[t][i] = [answer |-> "data", attempt |-> 1]
            => \A last \in On : (\A i \in On : i <= last) =>
                    (d \in databases <=> Script[t][last].op = "create")

\* The promise of a statement over HTTP, as an abstract service without requests
\* and time-outs: a call is answered by an execution of its own statement, which
\* is executed at most twice, late or never, and not again once the answer came
\* at the first attempt.
Calling == [t \in Task |-> Sending(t) \/ ReadingBody(t)]
Service == INSTANCE StatementService WITH calling <- Calling
ServiceKept == Service!Spec

\* Every call returns, whatever the network and the server do.
CallsReturn ==
    \A t \in Task : (Sending(t) \/ ReadingBody(t)) ~> pc[t] = "idle"

=============================================================================
