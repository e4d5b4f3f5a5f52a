-------------------------- MODULE StatementService --------------------------
(***************************************************************************)
(* What a program may rely on when it executes statements over HTTP, one   *)
(* call at a time in each task, with one silent retry.  There are no       *)
(* requests, responses or time-outs here: a statement is executed at most  *)
(* once for each of the two attempts, at any time after its call has begun *)
(* and also after the call has returned, unless the attempt it returned    *)
(* from rules the other one out.  A call returns the answer of one of the  *)
(* executions of its own statement, or an error that says nothing.         *)
(***************************************************************************)
EXTENDS Integers, Sequences

CONSTANTS
    Task,           \* the tasks, which make one call at a time
    Database,       \* the databases that the statements name
    Script          \* Script[t]: the statements that task t executes in order

VARIABLES
    calling,        \* calling[t]: the last call of task t has not returned
    results,        \* results[t]: what its other calls returned
    databases,      \* the databases that exist
    executed        \* the executions so far, with their answers

vars == <<calling, results, databases, executed>>

Init ==
    /\ calling = [t \in Task |-> FALSE]
    /\ results = [t \in Task |-> <<>>]
    /\ databases \in SUBSET Database
    /\ executed = {}

\* A task goes on to its next statement after Ok only.
Begin(t) ==
    /\ ~calling[t]
    /\ Len(results[t]) < Len(Script[t])
    /\ \A i \in DOMAIN results[t] : results[t][i].answer = "data"
    /\ calling' = [calling EXCEPT ![t] = TRUE]
    /\ UNCHANGED <<results, databases, executed>>

\* The statement of call i of task t is executed for an attempt of the call.
Execute(t, i, attempt) ==
    /\ \/ i = Len(results[t]) + 1 /\ calling[t]
       \/ i \in DOMAIN results[t] /\ attempt <= results[t][i].attempt
    /\ LET request == [task |-> t, call |-> i, attempt |-> attempt]
           statement == Script[t][i]
           refused == statement.op = "create" /\ statement.db \in databases
       IN  /\ \A e \in executed : e.req # request
           /\ databases' = IF statement.op = "create"
                           THEN databases \union {statement.db}
                           ELSE databases \ {statement.db}
           /\ executed' = executed \union
                {[req |-> request, answer |-> IF refused THEN "error" ELSE "data"]}
    /\ UNCHANGED <<calling, results>>

\* The call of task t returns from an attempt, and no later one was executed:
\* with the answer to that attempt, or with an error of the transport.
Return(t, answer, attempt) ==
    /\ calling[t]
    /\ LET call == Len(results[t]) + 1
       IN  /\ \A e \in executed :
                e.req.task = t /\ e.req.call = call => e.req.attempt <= attempt
           /\ \/ answer = "transport"
              \/ [req |-> [task |-> t, call |-> call, attempt |-> attempt],
                  answer |-> answer] \in executed
    /\ calling' = [calling EXCEPT ![t] = FALSE]
    /\ results' = [results EXCEPT
            ![t] = Append(@, [answer |-> answer, attempt |-> attempt])]
    /\ UNCHANGED <<databases, executed>>

Next ==
    \E t \in Task :
        \/ Begin(t)
        \/ \E i \in DOMAIN Script[t], attempt \in {1, 2} : Execute(t, i, attempt)
        \/ \E answer \in {"data", "error", "transport"}, attempt \in {1, 2} :
                Return(t, answer, attempt)

Spec == Init /\ [][Next]_vars

=============================================================================
