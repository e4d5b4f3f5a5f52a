--------------------------- MODULE TaosRestProofs ---------------------------
(***************************************************************************)
(* Proofs about TaosRest, for any tasks, databases and scripts: the type   *)
(* invariant, that every answer a call returns is the server's answer to   *)
(* the request the call was waiting for, that a call answered at its first *)
(* attempt was executed once and leaves no request behind, what the        *)
(* answers say of the state of a database that one task uses, the          *)
(* refinement of StatementService, and that the steps of a call run out.   *)
(***************************************************************************)
EXTENDS TaosRest, FiniteSetTheorems, SequenceTheorems, TLAPS

-----------------------------------------------------------------------------
(* The parts of the inductive invariant *)

\* The attempt that call i of task t has come to, or ended with.
LastAttempt(t, i) ==
    IF i <= Len(results[t]) THEN results[t][i].attempt ELSE Attempt(t)

\* The requests that are under way or were executed have been sent: by a call
\* that has begun, and for an attempt that it has come to.
Sent(q) ==
    /\ q.call \in 1 .. Call(q.task)
    /\ q.attempt <= LastAttempt(q.task, q.call)
OnlySent ==
    /\ \A q \in reqs : Sent(q)
    /\ \A e \in executed : Sent(e.req)

\* A request is executed at most once.
ExecutedOnce ==
    /\ \A e \in executed : e.req \notin reqs
    /\ \A e, f \in executed : e.req = f.req => e = f

\* A response that travels is the server's, and its request is still waited for.
ResponsesAwaited ==
    /\ resps \subseteq executed
    /\ \A r \in resps :
        (Sending(r.req.task) \/ ReadingBody(r.req.task)) /\ r.req = Current(r.req.task)

\* What a call returns as the server's answer is the answer that the server
\* gave to the very request the call was waiting for, not to the other attempt,
\* to an earlier statement or to another task's statement.
AnswerIsOwn ==
    \A t \in Task : \A i \in DOMAIN results[t] :
        results[t][i].answer \in Answer =>
            [req |-> [task |-> t, call |-> i, attempt |-> results[t][i].attempt],
             answer |-> results[t][i].answer] \in executed

\* A task makes no call that is not in its script.
WithinScript == \A t \in Task : Call(t) <= Len(Script[t])

IInv ==
    /\ TypeOK
    /\ WithinScript
    /\ OnlySent
    /\ ExecutedOnce
    /\ ResponsesAwaited
    /\ AnswerIsOwn

Pc == {"idle", "send1", "send2", "body1", "body2", "panicked"}

-----------------------------------------------------------------------------
(* Lemmas *)

\* The number of the call that task t has come to, and its attempt.
LEMMA CallNumber ==
    ASSUME TypeOK, NEW t \in Task
    PROVE  /\ Len(results[t]) \in Nat
           /\ pc[t] = "idle" => Call(t) = Len(results[t])
           /\ pc[t] # "idle" => Call(t) = Len(results[t]) + 1
           /\ Call(t) \in Nat
           /\ Attempt(t) \in {1, 2}
           /\ Attempt(t) = 1 <=> pc[t] \in {"send1", "body1"}
<1>1. Len(results[t]) \in Nat
    BY LenProperties DEF TypeOK
<1>2. CASE pc[t] = "idle"
    <2>1. Call(t) = Len(results[t]) + 0
        BY <1>2 DEF Call
    <2> QED
        BY <1>1, <1>2, <2>1 DEF Attempt
<1>3. CASE pc[t] # "idle"
    <2>1. Call(t) = Len(results[t]) + 1
        BY <1>3 DEF Call
    <2> QED
        BY <1>1, <1>3, <2>1 DEF Attempt
<1> QED
    BY <1>2, <1>3

\* The request that task t waits for.
LEMMA CurrentIsRequest ==
    ASSUME TypeOK, NEW t \in Task
    PROVE  /\ Current(t) \in Request
           /\ Current(t).task = t /\ Current(t).call = Call(t)
           /\ Current(t).attempt = Attempt(t)
           /\ [Current(t) EXCEPT !.attempt = 2] \in Request
           /\ [Current(t) EXCEPT !.attempt = 2]
                = [task |-> t, call |-> Call(t), attempt |-> 2]
BY CallNumber DEF Current, Request

\* The end of a call appends its result.
LEMMA ReturnAppends ==
    ASSUME TypeOK, NEW t \in Task, NEW answer \in Answer \union {"transport"},
           Return(t, answer)
    PROVE  /\ results' \in [Task -> Seq(Result)]
           /\ Len(results'[t]) = Len(results[t]) + 1
           /\ results'[t][Len(results[t]) + 1]
                = [answer |-> answer, attempt |-> Attempt(t)]
           /\ \A i \in 1 .. Len(results[t]) : results'[t][i] = results[t][i]
           /\ \A u \in Task \ {t} : results'[u] = results[u] /\ pc'[u] = pc[u]
           /\ pc'[t] = "idle" /\ pc' \in [Task -> Pc]
<1> DEFINE new == [answer |-> answer, attempt |-> Attempt(t)]
<1>1. new \in Result
    BY CallNumber DEF Result
<1>2. results[t] \in Seq(Result)
    BY DEF TypeOK
<1> HIDE DEF new
<1>3. /\ Append(results[t], new) \in Seq(Result)
      /\ Len(Append(results[t], new)) = Len(results[t]) + 1
      /\ \A i \in 1 .. Len(results[t]) : Append(results[t], new)[i] = results[t][i]
      /\ Append(results[t], new)[Len(results[t]) + 1] = new
    BY <1>1, <1>2, AppendProperties
<1>4. results' = [results EXCEPT ![t] = Append(@, new)] /\ pc' = [pc EXCEPT ![t] = "idle"]
    BY DEF Return, new
<1>5. results \in [Task -> Seq(Result)] /\ pc \in [Task -> Pc]
    BY DEF TypeOK, Pc
<1>6. /\ results' \in [Task -> Seq(Result)] /\ results'[t] = Append(results[t], new)
      /\ \A u \in Task \ {t} : results'[u] = results[u] /\ pc'[u] = pc[u]
      /\ pc'[t] = "idle" /\ pc' \in [Task -> Pc]
    BY <1>3, <1>4, <1>5 DEF Pc
<1> QED
    BY <1>3, <1>6 DEF new

\* What it takes for a request to be sent after a step.
LEMMA SentNext ==
    ASSUME NEW u, NEW i, NEW a, NEW q, q = [task |-> u, call |-> i, attempt |-> a],
           (i \in 1 .. Call(u))', (a <= LastAttempt(u, i))'
    PROVE  Sent(q)'
<1>1. q.task = u /\ q.call = i /\ q.attempt = a
    OBVIOUS
<1> QED
    BY <1>1 DEF Sent, Call, LastAttempt, Attempt

\* What was sent stays sent when its call goes on or ends.
LEMMA SentStays ==
    ASSUME TypeOK, NEW t \in Task, NEW q \in Request, Sent(q),
           \A u \in Task \ {t} : results'[u] = results[u] /\ pc'[u] = pc[u],
           \/ /\ results'[t] = results[t]
              /\ pc[t] # "idle" => pc'[t] # "idle"
              /\ pc[t] \notin {"idle", "send1", "body1"} =>
                    pc'[t] \notin {"send1", "body1"}
           \/ /\ Len(results'[t]) = Len(results[t]) + 1
              /\ results'[t][Len(results[t]) + 1].attempt = Attempt(t)
              /\ \A i \in 1 .. Len(results[t]) : results'[t][i] = results[t][i]
              /\ pc[t] # "idle" /\ pc'[t] = "idle"
    PROVE  Sent(q)'
<1>1. q.task \in Task /\ q.call \in Nat /\ q.attempt \in {1, 2}
    BY DEF Request
<1>2. /\ q.call >= 1 /\ q.call <= Call(q.task)
      /\ q.attempt <= LastAttempt(q.task, q.call)
    BY <1>1, CallNumber DEF Sent
<1> DEFINE n == Len(results[t])
<1>3. n \in Nat
    BY CallNumber
<1>4. CASE q.task # t
    BY <1>1, <1>4 DEF Sent, Call, LastAttempt, Attempt
<1>5. CASE q.task = t /\ results'[t] = results[t]
    <2>1. Call(t)' \in {n, n + 1} /\ (pc[t] # "idle" => Call(t)' = n + 1)
        <3>1. Call(t)' = n + (IF pc'[t] = "idle" THEN 0 ELSE 1)
            BY <1>5 DEF Call
        <3>2. CASE pc'[t] = "idle"
            <4>1. Call(t)' = n + 0
                BY <3>1, <3>2
            <4> QED
                BY <1>3, <1>5, <3>2, <4>1
        <3>3. CASE pc'[t] # "idle"
            <4>1. Call(t)' = n + 1
                BY <3>1, <3>3
            <4> QED
                BY <4>1
        <3> QED
            BY <3>2, <3>3
    <2>2. q.attempt <= LastAttempt(t, q.call)'
        <3>1. CASE q.call <= n
            <4>1. /\ LastAttempt(t, q.call) = results[t][q.call].attempt
                  /\ LastAttempt(t, q.call)' = results'[t][q.call].attempt
                BY <1>5, <3>1 DEF LastAttempt
            <4> QED
                BY <1>2, <1>5, <4>1
        <3>2. CASE ~(q.call <= n)
            <4>1. /\ LastAttempt(t, q.call) = Attempt(t)
                  /\ LastAttempt(t, q.call)' = Attempt(t)'
                BY <1>5, <3>2 DEF LastAttempt
            <4>2. pc[t] # "idle"
                BY <1>1, <1>2, <1>3, <1>5, <3>2, CallNumber
            <4>3. CASE pc[t] \in {"send1", "body1"}
                <5>1. Attempt(t) = 1 /\ Attempt(t)' \in {1, 2}
                    BY <4>3 DEF Attempt
                <5> QED
                    BY <1>1, <1>2, <1>5, <4>1, <5>1
            <4>4. CASE pc[t] \notin {"send1", "body1"}
                <5>1. Attempt(t)' = 2
                    BY <1>5, <4>2, <4>4 DEF Attempt
                <5> QED
                    BY <1>1, <4>1, <5>1
            <4> QED
                BY <4>3, <4>4
        <3> QED
            BY <3>1, <3>2
    <2>3. q.call <= Call(t)'
        BY <1>1, <1>2, <1>3, <1>5, <2>1, CallNumber
    <2> QED
        BY <1>1, <1>2, <1>3, <1>5, <2>1, <2>2, <2>3 DEF Sent
<1>6. CASE q.task = t /\ results'[t] # results[t]
    <2>1. /\ Len(results'[t]) = n + 1 /\ results'[t][n + 1].attempt = Attempt(t)
          /\ \A i \in 1 .. n : results'[t][i] = results[t][i]
          /\ pc[t] # "idle" /\ pc'[t] = "idle"
        BY <1>6
    <2>2. Call(t) = n + 1
        BY <2>1, CallNumber
    <2>3. Call(t)' = n + 1
        BY <1>3, <2>1 DEF Call
    <2>4. LastAttempt(t, q.call)' = LastAttempt(t, q.call)
        BY <1>1, <1>2, <1>3, <1>6, <2>1, <2>2 DEF LastAttempt
    <2> QED
        BY <1>1, <1>2, <1>6, <2>2, <2>3, <2>4 DEF Sent
<1> QED
    BY <1>4, <1>5, <1>6

\* Task t gets no further than its script, and nobody else moves.
LEMMA ScriptStays ==
    ASSUME TypeOK, WithinScript, NEW t \in Task,
           \A u \in Task \ {t} : results'[u] = results[u] /\ pc'[u] = pc[u],
           Call(t)' <= Len(Script[t])
    PROVE  WithinScript'
<1> SUFFICES ASSUME NEW u \in Task
             PROVE  Call(u)' <= Len(Script[u])
    BY DEF WithinScript
<1>1. CASE u = t
    BY <1>1
<1>2. CASE u # t
    BY <1>2 DEF Call, WithinScript
<1> QED
    BY <1>1, <1>2

\* The answers that were returned stay the server's own, and so does a new one
\* that is the answer to the current request.
LEMMA AnswersStay ==
    ASSUME TypeOK, AnswerIsOwn, NEW t \in Task, executed \subseteq executed',
           \A u \in Task \ {t} : results'[u] = results[u],
           NEW answer \in Answer \union {"transport"},
           Return(t, answer), pc[t] # "idle",
           answer \in Answer =>
                [req |-> Current(t), answer |-> answer] \in executed
    PROVE  AnswerIsOwn'
<1> DEFINE n == Len(results[t])
<1>1. /\ results' \in [Task -> Seq(Result)]
      /\ Len(results'[t]) = n + 1
      /\ results'[t][n + 1] = [answer |-> answer, attempt |-> Attempt(t)]
      /\ \A i \in 1 .. n : results'[t][i] = results[t][i]
    BY ReturnAppends
<1>2. n \in Nat /\ Call(t) = n + 1
    BY CallNumber
<1>3. DOMAIN results[t] = 1 .. n /\ DOMAIN results'[t] = 1 .. n + 1
    BY <1>1, LenProperties DEF TypeOK
<1> SUFFICES ASSUME NEW u \in Task, NEW i \in DOMAIN results'[u],
                    results'[u][i].answer \in Answer
             PROVE  [req |-> [task |-> u, call |-> i,
                              attempt |-> results'[u][i].attempt],
                     answer |-> results'[u][i].answer] \in executed'
    BY DEF AnswerIsOwn
<1>4. CASE u # t
    BY <1>4 DEF AnswerIsOwn
<1>5. CASE u = t /\ i \in 1 .. n
    BY <1>1, <1>3, <1>5 DEF AnswerIsOwn
<1>6. CASE u = t /\ i = n + 1
    <2>1. /\ results'[u][i].answer = answer
          /\ results'[u][i].attempt = Attempt(t)
        BY <1>1, <1>6
    <2>2. Current(t) = [task |-> u, call |-> i, attempt |-> Attempt(t)]
        BY <1>2, <1>6 DEF Current
    <2> QED
        BY <2>1, <2>2
<1>7. i \in 1 .. n \/ i = n + 1 \/ u # t
    BY <1>2, <1>3
<1> QED
    BY <1>4, <1>5, <1>6, <1>7

\* The responses that still travel are those of the tasks that did not move.
LEMMA ResponsesStay ==
    ASSUME ResponsesAwaited, NEW t \in Task,
           \A u \in Task \ {t} : results'[u] = results[u] /\ pc'[u] = pc[u],
           executed' = executed, resps' \subseteq resps, resps \subseteq Response,
           \A r \in resps' : r.req.task # t
    PROVE  ResponsesAwaited'
BY DEF ResponsesAwaited, Sending, ReadingBody, Current, Call, Attempt,
        Response, Request

-----------------------------------------------------------------------------
(* The invariant *)

\* The invariant holds before any call.
THEOREM Initially == Init => IInv
<1> SUFFICES ASSUME Init PROVE IInv
    OBVIOUS
<1>1. TypeOK
    BY EmptySeq DEF Init, TypeOK
<1>2. \A t \in Task : results[t] = <<>> /\ pc[t] = "idle" /\ Len(results[t]) = 0
    BY EmptySeq DEF Init
<1>3. WithinScript
    <2> SUFFICES ASSUME NEW t \in Task PROVE Call(t) <= Len(Script[t])
        BY DEF WithinScript
    <2>1. Call(t) = 0
        BY <1>1, <1>2, CallNumber
    <2>2. Len(Script[t]) \in Nat
        BY ScriptAssumption, LenProperties
    <2> QED
        BY <2>1, <2>2
<1>4. AnswerIsOwn
    BY <1>2, EmptySeq DEF AnswerIsOwn
<1> QED
    BY <1>1, <1>3, <1>4
       DEF Init, IInv, OnlySent, ExecutedOnce, ResponsesAwaited

\* A request is sent.
LEMMA SendKeeps == ASSUME IInv, NEW t \in Task, Send(t) PROVE IInv'
<1> USE DEF IInv
<1> DEFINE n == Len(results[t])
           new == [task |-> t, call |-> n + 1, attempt |-> 1]
<1>1. /\ n \in Nat /\ Call(t) = n /\ pc[t] = "idle" /\ n < Len(Script[t])
      /\ ~ Sending(t) /\ ~ ReadingBody(t)
    BY CallNumber DEF Send, MayCall, Sending, ReadingBody
<1>2. new \in Request
    BY <1>1 DEF Request
<1>3. /\ results' = results /\ resps' = resps /\ executed' = executed
      /\ databases' = databases /\ reqs' = reqs \union {new}
      /\ pc' = [pc EXCEPT ![t] = "send1"]
    BY DEF Send
<1>4. pc \in [Task -> Pc] /\ TypeOK'
    BY <1>2, <1>3 DEF TypeOK, Pc
<1>5. pc'[t] = "send1" /\ \A u \in Task \ {t} : results'[u] = results[u] /\ pc'[u] = pc[u]
    BY <1>3, <1>4
<1>6. Call(t)' = n + 1 /\ Attempt(t)' = 1
    BY <1>3, <1>5 DEF Call, Attempt
<1>7. WithinScript'
    <2>1. Len(Script[t]) \in Nat
        BY ScriptAssumption, LenProperties
    <2> QED
        BY <1>1, <1>5, <1>6, <2>1, ScriptStays
<1>8. OnlySent'
    <2>1. \A q \in Request : Sent(q) => Sent(q)'
        BY <1>1, <1>3, <1>5, SentStays
    <2>2. LastAttempt(t, n + 1)' = 1
        BY <1>1, <1>3, <1>6 DEF LastAttempt
    <2>3. Sent(new)'
        <3>1. (n + 1 \in 1 .. Call(t))' /\ (1 <= LastAttempt(t, n + 1))'
            BY <1>1, <1>3, <1>6, <2>2
        <3> QED
            BY <1>3, <3>1, SentNext
    <2> QED
        BY <1>3, <2>1, <2>3 DEF OnlySent, TypeOK, Response
<1>9. ExecutedOnce'
    <2>1. ~ Sent(new)
        BY <1>1 DEF Sent
    <2> QED
        BY <1>3, <2>1 DEF OnlySent, ExecutedOnce
<1>10. ResponsesAwaited'
    BY <1>1, <1>3, <1>5, ResponsesStay DEF TypeOK, ResponsesAwaited
<1>11. AnswerIsOwn'
    BY <1>3 DEF AnswerIsOwn
<1> QED
    BY <1>4, <1>7, <1>8, <1>9, <1>10, <1>11

\* The statement is too long.
LEMMA SendTooLongKeeps == ASSUME IInv, NEW t \in Task, SendTooLong(t) PROVE IInv'
<1> USE DEF IInv
<1> DEFINE n == Len(results[t])
<1>1. /\ n \in Nat /\ pc[t] = "idle" /\ n < Len(Script[t])
      /\ ~ Sending(t) /\ ~ ReadingBody(t)
    BY CallNumber DEF SendTooLong, MayCall, Sending, ReadingBody
<1>2. /\ results' = results /\ resps' = resps /\ executed' = executed
      /\ databases' = databases /\ reqs' = reqs
      /\ pc' = [pc EXCEPT ![t] = "panicked"]
    BY DEF SendTooLong
<1>3. pc \in [Task -> Pc] /\ TypeOK'
    BY <1>2 DEF TypeOK, Pc
<1>4. pc'[t] = "panicked" /\ \A u \in Task \ {t} : results'[u] = results[u] /\ pc'[u] = pc[u]
    BY <1>2, <1>3
<1>5. Call(t)' = n + 1
    BY <1>2, <1>4 DEF Call
<1>6. WithinScript'
    <2>1. Len(Script[t]) \in Nat
        BY ScriptAssumption, LenProperties
    <2> QED
        BY <1>1, <1>4, <1>5, <2>1, ScriptStays
<1>7. OnlySent'
    <2>1. \A q \in Request : Sent(q) => Sent(q)'
        BY <1>1, <1>2, <1>4, SentStays
    <2> QED
        BY <1>2, <2>1 DEF OnlySent, TypeOK, Response
<1>8. ExecutedOnce'
    BY <1>2 DEF ExecutedOnce
<1>9. ResponsesAwaited'
    BY <1>1, <1>2, <1>4, ResponsesStay DEF TypeOK, ResponsesAwaited
<1>10. AnswerIsOwn'
    BY <1>2 DEF AnswerIsOwn
<1> QED
    BY <1>3, <1>6, <1>7, <1>8, <1>9, <1>10

\* A call returns: the server's answer to its request, or a transport error.
LEMMA ReturnKeeps ==
    ASSUME IInv, NEW t \in Task, Sending(t) \/ ReadingBody(t),
           NEW answer \in Answer \union {"transport"}, Return(t, answer),
           answer \in Answer =>
                [req |-> Current(t), answer |-> answer] \in executed,
           UNCHANGED <<reqs, databases, executed>>,
           resps' \subseteq resps, \A r \in resps' : r.req # Current(t)
    PROVE  IInv'
<1> USE DEF IInv
<1> DEFINE n == Len(results[t])
<1>1. pc[t] # "idle" /\ n \in Nat /\ Call(t) = n + 1
    BY CallNumber DEF Sending, ReadingBody
<1>2. /\ results' \in [Task -> Seq(Result)]
      /\ Len(results'[t]) = n + 1
      /\ results'[t][n + 1] = [answer |-> answer, attempt |-> Attempt(t)]
      /\ \A i \in 1 .. n : results'[t][i] = results[t][i]
      /\ \A u \in Task \ {t} : results'[u] = results[u] /\ pc'[u] = pc[u]
      /\ pc'[t] = "idle" /\ pc' \in [Task -> Pc]
    BY ReturnAppends
<1>3. TypeOK'
    BY <1>2 DEF TypeOK, Pc
<1>4. WithinScript'
    <2>1. Call(t)' = n + 1
        BY <1>2, <1>3, CallNumber DEF Call
    <2> QED
        BY <1>1, <1>2, <2>1, ScriptStays DEF WithinScript
<1>5. OnlySent'
    <2>1. \A q \in Request : Sent(q) => Sent(q)'
        BY <1>1, <1>2, SentStays
    <2> QED
        BY <2>1 DEF OnlySent, TypeOK, Response
<1>6. ExecutedOnce'
    BY DEF ExecutedOnce
<1>7. ResponsesAwaited'
    <2>1. \A r \in resps' : r.req.task # t
        <3> SUFFICES ASSUME NEW r \in resps', r.req.task = t PROVE FALSE
            OBVIOUS
        <3>1. r.req = Current(t)
            BY DEF ResponsesAwaited
        <3> QED
            BY <3>1
    <2>2. resps \subseteq Response
        BY DEF TypeOK
    <2> QED
        BY <1>2, <2>1, <2>2, ResponsesStay
<1>8. AnswerIsOwn'
    BY <1>1, <1>2, AnswersStay
<1> QED
    BY <1>3, <1>4, <1>5, <1>6, <1>7, <1>8

\* The first failure of send() sends the request again, the second one ends the
\* call.
LEMMA SendFailsKeeps == ASSUME IInv, NEW t \in Task, SendFails(t) PROVE IInv'
<1> USE DEF IInv
<1> DEFINE n == Len(results[t])
<1>1. /\ Sending(t) /\ executed' = executed /\ databases' = databases
      /\ resps' \subseteq resps /\ \A r \in resps' : r.req # Current(t)
    BY DEF SendFails
<1>2. CASE pc[t] = "send2"
    <2>1. Return(t, "transport") /\ reqs' = reqs
        BY <1>2 DEF SendFails
    <2>2. "transport" \notin Answer /\ "transport" \in Answer \union {"transport"}
        BY DEF Answer
    <2> QED
        BY <1>1, <2>1, <2>2, ReturnKeeps
<1>3. CASE pc[t] = "send1"
    <2>1. PICK again \in Request :
                /\ again = [task |-> t, call |-> Call(t), attempt |-> 2]
                /\ again = [Current(t) EXCEPT !.attempt = 2]
        BY CurrentIsRequest
    <2>2. /\ pc' = [pc EXCEPT ![t] = "send2"] /\ results' = results
          /\ reqs' = reqs \union {again}
        BY <1>3, <2>1 DEF SendFails
    <2>3. pc \in [Task -> Pc] /\ TypeOK'
        BY <1>1, <2>2, <2>1 DEF TypeOK, Pc
    <2>4. pc'[t] = "send2" /\ \A u \in Task \ {t} : results'[u] = results[u] /\ pc'[u] = pc[u]
        BY <2>2, <2>3
    <2>5. n \in Nat /\ Call(t) = n + 1 /\ Attempt(t) = 1
        BY <1>3, CallNumber
    <2>6. Call(t)' = n + 1 /\ Attempt(t)' = 2
        BY <2>2, <2>4 DEF Call, Attempt
    <2>7. WithinScript'
        BY <2>4, <2>5, <2>6, ScriptStays DEF WithinScript
    <2>8. OnlySent'
        <3>1. \A q \in Request : Sent(q) => Sent(q)'
            BY <1>3, <2>2, <2>4, SentStays
        <3>2. LastAttempt(t, n + 1)' = 2
            BY <2>2, <2>5, <2>6 DEF LastAttempt
        <3>3. Sent(again)'
            <4>1. again = [task |-> t, call |-> n + 1, attempt |-> 2]
                BY <2>1, <2>5
            <4>2. (Len(results[t]) + 1 \in 1 .. Call(t))' /\ (2 <= LastAttempt(t, n + 1))'
                BY <2>2, <2>5, <2>6, <3>2
            <4> QED
                BY <2>2, <4>1, <4>2, SentNext
        <3> QED
            BY <1>1, <2>2, <3>1, <3>3 DEF OnlySent, TypeOK, Response
    <2>9. ExecutedOnce'
        <3>1. LastAttempt(t, n + 1) = 1
            BY <2>5 DEF LastAttempt
        <3>2. ~ Sent(again)
            BY <2>1, <2>5, <3>1 DEF Sent
        <3> QED
            BY <1>1, <2>2, <3>2 DEF OnlySent, ExecutedOnce
    <2>10. ResponsesAwaited'
        BY <1>1, <2>4, ResponsesStay DEF TypeOK, ResponsesAwaited
    <2>11. AnswerIsOwn'
        BY <1>1, <2>2 DEF AnswerIsOwn
    <2> QED
        BY <2>3, <2>7, <2>8, <2>9, <2>10, <2>11
<1> QED
    BY <1>1, <1>2, <1>3 DEF Sending

\* The head of the response arrives.
LEMMA HeadArrivesKeeps == ASSUME IInv, NEW t \in Task, HeadArrives(t) PROVE IInv'
<1> USE DEF IInv
<1>1. /\ pc' = [pc EXCEPT ![t] = IF Attempt(t) = 1 THEN "body1" ELSE "body2"]
      /\ results' = results /\ reqs' = reqs /\ resps' = resps
      /\ databases' = databases /\ executed' = executed
      /\ pc[t] \in {"send1", "send2"}
    BY DEF HeadArrives, Sending
<1>2. pc \in [Task -> Pc] /\ TypeOK'
    BY <1>1 DEF TypeOK, Pc
<1>3. /\ pc'[t] = IF pc[t] = "send1" THEN "body1" ELSE "body2"
      /\ \A u \in Task \ {t} : results'[u] = results[u] /\ pc'[u] = pc[u]
    BY <1>1, <1>2 DEF Attempt
<1>4. \A u \in Task : Call(u)' = Call(u) /\ Attempt(u)' = Attempt(u)
    <2> SUFFICES ASSUME NEW u \in Task
                 PROVE  Call(u)' = Call(u) /\ Attempt(u)' = Attempt(u)
        OBVIOUS
    <2>1. results'[u] = results[u] /\ (pc'[u] = "idle" <=> pc[u] = "idle")
        BY <1>1, <1>3
    <2>2. pc'[u] \in {"send1", "body1"} <=> pc[u] \in {"send1", "body1"}
        BY <1>1, <1>3
    <2> QED
        BY <2>1, <2>2 DEF Call, Attempt
<1>5. WithinScript'
    BY <1>4 DEF WithinScript
<1>6. OnlySent'
    <2>1. \A q \in Request : Sent(q) => Sent(q)'
        BY <1>1, <1>3, SentStays
    <2> QED
        BY <1>1, <2>1 DEF OnlySent, TypeOK, Response
<1>7. ExecutedOnce'
    BY <1>1 DEF ExecutedOnce
<1>8. ResponsesAwaited'
    <2>1. \A u \in Task : Current(u)' = Current(u)
        BY <1>4 DEF Current
    <2>2. \A u \in Task : Sending(u) \/ ReadingBody(u) =>
                            Sending(u)' \/ ReadingBody(u)'
        BY <1>3 DEF Sending, ReadingBody
    <2> QED
        BY <1>1, <2>1, <2>2 DEF ResponsesAwaited, TypeOK, Response, Request
<1>9. AnswerIsOwn'
    BY <1>1 DEF AnswerIsOwn
<1> QED
    BY <1>2, <1>5, <1>6, <1>7, <1>8, <1>9

\* The body arrives: the call returns the answer of the response it waits for.
LEMMA BodyArrivesKeeps == ASSUME IInv, NEW t \in Task, BodyArrives(t) PROVE IInv'
<1> USE DEF IInv
<1>1. PICK r \in resps : /\ r.req = Current(t) /\ Return(t, r.answer)
                         /\ resps' = resps \ {r}
    BY DEF BodyArrives
<1>2. /\ r \in executed /\ r.answer \in Answer
      /\ r = [req |-> Current(t), answer |-> r.answer]
    BY <1>1 DEF ResponsesAwaited, TypeOK, Response
<1>3. \A e \in resps' : e.req # Current(t)
    BY <1>1, <1>2 DEF ResponsesAwaited, ExecutedOnce
<1> QED
    BY <1>1, <1>2, <1>3, ReturnKeeps DEF BodyArrives

\* The body does not arrive.
LEMMA BodyFailsKeeps == ASSUME IInv, NEW t \in Task, BodyFails(t) PROVE IInv'
<1>1. "transport" \notin Answer
    BY DEF Answer
<1> QED
    BY <1>1, ReturnKeeps DEF BodyFails

\* The server executes a request, whoever still waits for it.
LEMMA ExecuteKeeps == ASSUME IInv, NEW q \in reqs, Execute(q) PROVE IInv'
<1> USE DEF IInv
<1>1. /\ q \in Request /\ q.task \in Task /\ Sent(q)
      /\ q.call \in 1 .. Len(Script[q.task])
    <2>1. q \in Request /\ q.task \in Task /\ q.call \in Nat /\ Sent(q)
        BY DEF TypeOK, Request, OnlySent
    <2>2. /\ Call(q.task) \in Nat /\ Len(Script[q.task]) \in Nat
          /\ Call(q.task) <= Len(Script[q.task])
        BY <2>1, CallNumber, ScriptAssumption, LenProperties DEF WithinScript
    <2>3. q.call \in 1 .. Call(q.task)
        BY <2>1 DEF Sent
    <2> QED
        BY <2>1, <2>2, <2>3
<1>2. Script[q.task][q.call].db \in Database
    <2>1. Script[q.task] \in Seq(Statement)
        BY <1>1, ScriptAssumption
    <2>2. Script[q.task][q.call] \in Statement
        BY <1>1, <2>1, ElementOfSeq
    <2> QED
        BY <2>2 DEF Statement
<1>3. PICK response \in Response :
            /\ response.req = q
            /\ executed' = executed \union {response}
            /\ resps' = IF Sending(q.task) /\ Current(q.task) = q
                        THEN resps \union {response}
                        ELSE resps
    <2> DEFINE statement == Script[q.task][q.call]
               refused == statement.op = "create" /\ statement.db \in databases
               response == [req |-> q, answer |-> IF refused THEN "error" ELSE "data"]
    <2>1. response \in Response /\ response.req = q
        BY <1>1 DEF Response, Answer
    <2>2. /\ executed' = executed \union {response}
          /\ resps' = IF Sending(q.task) /\ Current(q.task) = q
                      THEN resps \union {response}
                      ELSE resps
        BY DEF Execute
    <2> QED
        BY <2>1, <2>2
<1>4. /\ reqs' = reqs \ {q} /\ pc' = pc /\ results' = results
      /\ databases' \subseteq Database
    BY <1>2 DEF Execute, TypeOK
<1>5. TypeOK'
    BY <1>3, <1>4 DEF TypeOK
<1>6. \A p : Sent(p)' <=> Sent(p)
    BY <1>4 DEF Sent, Call, LastAttempt, Attempt
<1>7. OnlySent'
    BY <1>1, <1>3, <1>4, <1>6 DEF OnlySent
<1>8. ExecutedOnce'
    BY <1>3, <1>4 DEF ExecutedOnce
<1>9. ResponsesAwaited'
    <2>1. \A u : /\ Current(u)' = Current(u) /\ Sending(u)' = Sending(u)
                 /\ ReadingBody(u)' = ReadingBody(u)
        BY <1>4 DEF Current, Call, Attempt, Sending, ReadingBody
    <2> QED
        BY <1>3, <2>1 DEF ResponsesAwaited
<1>10. AnswerIsOwn'
    BY <1>3, <1>4 DEF AnswerIsOwn
<1>11. WithinScript'
    BY <1>4 DEF WithinScript, Call
<1> QED
    BY <1>5, <1>7, <1>8, <1>9, <1>10, <1>11

\* A request is lost.
LEMMA LoseKeeps == ASSUME IInv, NEW q \in reqs, Lose(q) PROVE IInv'
BY DEF IInv, Lose, TypeOK, WithinScript, OnlySent, Sent, LastAttempt, ExecutedOnce,
    ResponsesAwaited, AnswerIsOwn, Call, Attempt, Sending, ReadingBody, Current

\* The invariant holds for good.
THEOREM Invariance == Spec => []IInv
<1>1. Init => IInv
    BY Initially
<1>2. IInv /\ [Next]_vars => IInv'
    <2> SUFFICES ASSUME IInv, [Next]_vars PROVE IInv'
        OBVIOUS
    <2>1. ASSUME NEW t \in Task, Send(t) \/ SendTooLong(t) \/ Waiting(t) PROVE IInv'
        BY <2>1, SendKeeps, SendTooLongKeeps, SendFailsKeeps, HeadArrivesKeeps,
           BodyArrivesKeeps, BodyFailsKeeps DEF Waiting
    <2>2. ASSUME NEW q \in reqs, Execute(q) \/ Lose(q) PROVE IInv'
        BY <2>2, ExecuteKeeps, LoseKeeps
    <2>3. CASE UNCHANGED vars
        BY <2>3 DEF vars, IInv, TypeOK, WithinScript, OnlySent, Sent, LastAttempt,
            ExecutedOnce, ResponsesAwaited, AnswerIsOwn, Call, Attempt, Sending,
            ReadingBody, Current
    <2> QED
        BY <2>1, <2>2, <2>3 DEF Next
<1> QED
    BY <1>1, <1>2, PTL DEF Spec

-----------------------------------------------------------------------------
(* What follows from it *)

\* Every variable keeps its type.
THEOREM TypeCorrect == Spec => []TypeOK
<1>1. IInv => TypeOK
    BY DEF IInv
<1> QED
    BY <1>1, Invariance, PTL

\* raw_query, exec, query: the answer a call returns is the one the server gave
\* to the request that the call was waiting for.
THEOREM OwnAnswers == Spec => []AnswerIsOwn
<1>1. IInv => AnswerIsOwn
    BY DEF IInv
<1> QED
    BY <1>1, Invariance, PTL

\* raw_query: a call answered at its first attempt was executed once, for good.
THEOREM ExecutedForGood == Spec => []FirstAttemptOnce
<1>1. IInv => FirstAttemptOnce
    <2> SUFFICES ASSUME IInv, NEW t \in Task, NEW i \in DOMAIN results[t],
                        results[t][i].answer \in Answer, results[t][i].attempt = 1
                 PROVE  Cardinality(Executions(t, i)) = 1 /\ InFlight(t, i) = {}
        BY DEF FirstAttemptOnce
    <2> DEFINE req == [task |-> t, call |-> i, attempt |-> 1]
               e == [req |-> req, answer |-> results[t][i].answer]
    <2>1. e \in executed /\ e.req = req
        BY DEF IInv, AnswerIsOwn
    <2>2. Len(results[t]) \in Nat /\ i \in 1 .. Len(results[t])
        BY LenProperties DEF IInv, TypeOK
    <2>3. LastAttempt(t, i) = 1
        BY <2>2 DEF LastAttempt
    <2>4. ASSUME NEW q \in Request, Sent(q), q.task = t, q.call = i
          PROVE  q = req
        <3>1. q.attempt = 1
            BY <2>3, <2>4 DEF Sent, Request
        <3> QED
            BY <2>4, <3>1 DEF Request
    <2>5. Executions(t, i) = {e}
        <3>1. \A f \in executed : f.req \in Request /\ Sent(f.req)
            BY DEF IInv, TypeOK, Response, OnlySent
        <3>2. \A f \in Executions(t, i) : f = e
            BY <2>1, <2>4, <3>1 DEF Executions, IInv, ExecutedOnce
        <3> QED
            BY <2>1, <3>2 DEF Executions
    <2>6. InFlight(t, i) = {}
        BY <2>1, <2>4 DEF InFlight, IInv, TypeOK, OnlySent, ExecutedOnce
    <2> QED
        BY <2>5, <2>6, FS_Singleton
<1> QED
    BY <1>1, Invariance, PTL

-----------------------------------------------------------------------------
(* The server's state.  These invariants need private databases: they speak of *)
(* one task and its statements on one database.                               *)

\* A call is made after the earlier ones were all Ok.
GoesOnAfterOk ==
    \A t \in Task : \A k \in DOMAIN results[t] :
        k < Call(t) => results[t][k].answer = "data"

\* Once a database has been dropped it exists again only if its new create was
\* done, and a create that was refused was done by its other attempt.
RecreatedOnce ==
    \A t \in Task : \A i \in DOMAIN Script[t] :
        Recreates(t, i) =>
            /\ Executions(t, i - 1) # {} /\ Script[t][i].db \in databases =>
                    \E f \in Executions(t, i) : f.answer = "data"
            /\ \A e \in Executions(t, i) : e.answer = "error" =>
                    \E f \in Executions(t, i) : f.answer = "data"

\* No call of task t on d has come to a second attempt or to an error.
Clean(t, d) ==
    \A i \in 1 .. Call(t) : Script[t][i].db = d =>
        /\ LastAttempt(t, i) = 1
        /\ i \in DOMAIN results[t] => results[t][i].answer = "data"

\* The calls of task t on d that were executed.
ExecutedOn(t, d) ==
    {i \in DOMAIN Script[t] : Script[t][i].db = d /\ Executions(t, i) # {}}

\* As long as that is so, a private database is as the last statement that was
\* executed on it says.
StateOfLast ==
    \A t \in Task, d \in Database : Private(t, d) /\ Clean(t, d) =>
        \A i \in ExecutedOn(t, d) : (\A j \in ExecutedOn(t, d) : j <= i) =>
            (d \in databases <=> Script[t][i].op = "create")

SInv == GoesOnAfterOk /\ RecreatedOnce /\ StateOfLast

\* What a step of a task does to the calls: its own goes on, or it ends.
LEMMA ClientStep ==
    ASSUME IInv, NEW t \in Task, Send(t) \/ SendTooLong(t) \/ Waiting(t)
    PROVE  /\ executed' = executed /\ databases' = databases
           /\ \A u \in Task \ {t} : results'[u] = results[u] /\ pc'[u] = pc[u]
           /\ \/ /\ results'[t] = results[t]
                 /\ pc[t] # "idle" => pc'[t] # "idle"
                 /\ pc[t] \notin {"idle", "send1", "body1"} =>
                       pc'[t] \notin {"send1", "body1"}
              \/ /\ Len(results'[t]) = Len(results[t]) + 1
                 /\ results'[t][Len(results[t]) + 1].attempt = Attempt(t)
                 /\ \A i \in 1 .. Len(results[t]) : results'[t][i] = results[t][i]
                 /\ pc[t] # "idle" /\ pc'[t] = "idle"
           /\ pc[t] = "idle" => MayCall(t)
<1>1. TypeOK /\ pc \in [Task -> Pc]
    BY DEF IInv, TypeOK, Pc
<1>2. ASSUME NEW answer \in Answer \union {"transport"}, Return(t, answer), pc[t] # "idle"
      PROVE  /\ \A u \in Task \ {t} : results'[u] = results[u] /\ pc'[u] = pc[u]
             /\ Len(results'[t]) = Len(results[t]) + 1
             /\ results'[t][Len(results[t]) + 1].attempt = Attempt(t)
             /\ \A i \in 1 .. Len(results[t]) : results'[t][i] = results[t][i]
             /\ pc'[t] = "idle"
    <2>1. results'[t][Len(results[t]) + 1] = [answer |-> answer, attempt |-> Attempt(t)]
        BY <1>1, <1>2, ReturnAppends
    <2>2. results'[t][Len(results[t]) + 1].attempt = Attempt(t)
        BY <2>1
    <2> QED
        BY <1>1, <1>2, <2>2, ReturnAppends
<1>3. CASE Send(t)
    BY <1>1, <1>3 DEF Send, MayCall, Pc
<1>4. CASE SendTooLong(t)
    BY <1>1, <1>4 DEF SendTooLong, MayCall, Pc
<1>5. CASE SendFails(t)
    <2>1. CASE pc[t] = "send1"
        <3>1. pc' = [pc EXCEPT ![t] = "send2"] /\ results' = results
            BY <1>5, <2>1 DEF SendFails
        <3> QED
            BY <1>1, <1>5, <2>1, <3>1 DEF SendFails, Pc
    <2>2. CASE pc[t] = "send2"
        <3>1. Return(t, "transport")
            BY <1>5, <2>2 DEF SendFails
        <3> QED
            BY <1>2, <1>5, <2>2, <3>1 DEF SendFails
    <2> QED
        BY <1>5, <2>1, <2>2 DEF SendFails, Sending
<1>6. CASE HeadArrives(t)
    BY <1>1, <1>6 DEF HeadArrives, Sending, Attempt, Pc
<1>7. CASE BodyArrives(t)
    <2>1. PICK answer \in Answer : Return(t, answer)
        BY <1>1, <1>7 DEF BodyArrives, TypeOK, Response
    <2> QED
        BY <1>2, <1>7, <2>1 DEF BodyArrives, ReadingBody
<1>8. CASE BodyFails(t)
    BY <1>2, <1>8 DEF BodyFails, ReadingBody
<1> QED
    BY <1>3, <1>4, <1>5, <1>6, <1>7, <1>8 DEF Waiting

\* The calls of task t so far, and its finished ones.
LEMMA CallsOf ==
    ASSUME IInv, NEW t \in Task
    PROVE  /\ Len(results[t]) \in Nat /\ Call(t) \in Nat
           /\ DOMAIN results[t] = 1 .. Len(results[t])
           /\ Call(t) \in {Len(results[t]), Len(results[t]) + 1}
           /\ DOMAIN Script[t] = 1 .. Len(Script[t]) /\ Len(Script[t]) \in Nat
           /\ Call(t) <= Len(Script[t])
           /\ \A i \in 1 .. Call(t) : LastAttempt(t, i) \in {1, 2}
<1>1. /\ Len(results[t]) \in Nat /\ Call(t) \in Nat
      /\ DOMAIN results[t] = 1 .. Len(results[t])
      /\ Call(t) \in {Len(results[t]), Len(results[t]) + 1}
    BY CallNumber, LenProperties DEF IInv, TypeOK
<1>2. DOMAIN Script[t] = 1 .. Len(Script[t]) /\ Len(Script[t]) \in Nat
    BY ScriptAssumption, LenProperties
<1>3. ASSUME NEW i \in 1 .. Call(t)
      PROVE  LastAttempt(t, i) \in {1, 2}
    <2>1. CASE i <= Len(results[t])
        <3>1. results[t] \in Seq(Result) /\ i \in 1 .. Len(results[t])
            BY <1>1, <2>1 DEF IInv, TypeOK
        <3>2. results[t][i] \in Result
            BY <3>1, ElementOfSeq
        <3> QED
            BY <2>1, <3>2 DEF LastAttempt, Result
    <2>2. CASE ~(i <= Len(results[t]))
        BY <2>2, CallNumber DEF LastAttempt, IInv
    <2> QED
        BY <2>1, <2>2
<1> QED
    BY <1>1, <1>2, <1>3 DEF IInv, WithinScript

\* A step of a task keeps what is said of the server's state.
LEMMA ClientKeepsState ==
    ASSUME IInv, IInv', SInv, NEW t \in Task, Send(t) \/ SendTooLong(t) \/ Waiting(t)
    PROVE  SInv'
<1> DEFINE n == Len(results[t])
<1>1. /\ executed' = executed /\ databases' = databases
      /\ \A u \in Task \ {t} : results'[u] = results[u] /\ pc'[u] = pc[u]
      /\ pc[t] = "idle" => MayCall(t)
    BY ClientStep
<1>2. \A u \in Task : /\ Len(results[u]) \in Nat /\ DOMAIN results[u] = 1 .. Len(results[u])
                      /\ Len(results'[u]) \in Nat
                      /\ DOMAIN results'[u] = 1 .. Len(results'[u])
    BY CallsOf, LenProperties DEF IInv, TypeOK
<1>3. \A u \in Task : /\ Len(results[u]) <= Len(results'[u])
                      /\ \A i \in DOMAIN results[u] : results'[u][i] = results[u][i]
    BY <1>1, <1>2, ClientStep
<1>4. GoesOnAfterOk'
    <2> SUFFICES ASSUME NEW u \in Task, NEW k \in DOMAIN results'[u], k < Call(u)'
                 PROVE  results'[u][k].answer = "data"
        BY DEF GoesOnAfterOk
    <2>1. CASE u # t
        BY <1>1, <2>1 DEF SInv, GoesOnAfterOk, Call
    <2>2. CASE u = t /\ results'[t] = results[t]
        <3>1. CASE pc[t] = "idle"
            BY <1>1, <2>2, <3>1 DEF MayCall
        <3>2. CASE pc[t] # "idle"
            <4>1. Call(t) = n + 1
                BY <3>2, CallNumber DEF IInv
            <4>2. k \in DOMAIN results[t] /\ k < Call(t)
                BY <1>2, <2>2, <4>1
            <4> QED
                BY <2>2, <4>2 DEF SInv, GoesOnAfterOk
        <3> QED
            BY <3>1, <3>2
    <2>3. CASE u = t /\ results'[t] # results[t]
        <3>1. Len(results'[t]) = n + 1 /\ pc[t] # "idle" /\ pc'[t] = "idle"
            BY <2>3, ClientStep
        <3>2. Call(t)' = n + 1 + 0 /\ Call(t) = n + 1
            BY <3>1, CallNumber DEF Call, IInv
        <3>3. k \in DOMAIN results[t] /\ k < Call(t)
            BY <1>2, <2>3, <3>2
        <3> QED
            BY <1>3, <2>3, <3>3 DEF SInv, GoesOnAfterOk
    <2> QED
        BY <2>1, <2>2, <2>3
<1>5. RecreatedOnce'
    BY <1>1 DEF SInv, RecreatedOnce, Executions
<1>6. \A q \in Request : Sent(q) => Sent(q)'
    BY SentStays, ClientStep DEF IInv
<1>7. ASSUME NEW u \in Task, NEW d \in Database, Clean(u, d)'
      PROVE  Clean(u, d)
    <2> SUFFICES ASSUME NEW i \in 1 .. Call(u), Script[u][i].db = d
                 PROVE  /\ LastAttempt(u, i) = 1
                        /\ i \in DOMAIN results[u] => results[u][i].answer = "data"
        BY DEF Clean
    <2> DEFINE q == [task |-> u, call |-> i, attempt |-> LastAttempt(u, i)]
    <2>1. LastAttempt(u, i) \in {1, 2} /\ i \in Nat
        BY CallsOf
    <2>2. q \in Request /\ Sent(q)
        BY <2>1 DEF Request, Sent
    <2>3. i \in (1 .. Call(u))' /\ LastAttempt(u, i) <= LastAttempt(u, i)'
        BY <1>6, <2>2 DEF Sent
    <2>4. LastAttempt(u, i)' = 1 /\ (i \in DOMAIN results'[u] => results'[u][i].answer = "data")
        BY <1>7, <2>3 DEF Clean
    <2> QED
        BY <1>2, <1>3, <2>1, <2>3, <2>4
<1>8. StateOfLast'
    BY <1>1, <1>7 DEF SInv, StateOfLast, ExecutedOn, Executions
<1> QED
    BY <1>4, <1>5, <1>8 DEF SInv

\* An answer that was returned is that of an execution of its call.
LEMMA AnswerExecuted ==
    ASSUME IInv, NEW t \in Task, NEW i \in DOMAIN results[t], results[t][i].answer \in Answer
    PROVE  \E f \in Executions(t, i) :
                /\ f.answer = results[t][i].answer
                /\ f.req = [task |-> t, call |-> i, attempt |-> results[t][i].attempt]
<1> DEFINE req == [task |-> t, call |-> i, attempt |-> results[t][i].attempt]
           f   == [req |-> req, answer |-> results[t][i].answer]
<1>1. f \in executed
    BY DEF IInv, AnswerIsOwn
<1>2. f.req.task = t /\ f.req.call = i /\ f.answer = results[t][i].answer /\ f.req = req
    OBVIOUS
<1> HIDE DEF f
<1>3. f \in Executions(t, i)
    BY <1>1, <1>2 DEF Executions
<1> QED
    BY <1>2, <1>3

\* The calls before the current one have been executed with success.
LEMMA EarlierDone ==
    ASSUME IInv, SInv, NEW t \in Task, NEW i \in Nat, 1 <= i, i < Call(t)
    PROVE  \E f \in Executions(t, i) : f.answer = "data"
<1>1. i \in DOMAIN results[t] /\ results[t][i].answer = "data"
    BY CallsOf DEF SInv, GoesOnAfterOk
<1>2. results[t][i].answer \in Answer
    BY <1>1 DEF Answer
<1>3. PICK f \in Executions(t, i) : f.answer = results[t][i].answer
    BY <1>1, <1>2, AnswerExecuted
<1> QED
    BY <1>1, <1>3

\* The server executes a request, and keeps what is said of its state.
LEMMA ExecuteKeepsState ==
    ASSUME IInv, IInv', SInv, NEW q \in reqs, Execute(q)
    PROVE  SInv'
<1> DEFINE t == q.task
           c == q.call
           s == Script[t][c]
<1>1. /\ q \in Request /\ t \in Task /\ Sent(q) /\ c \in 1 .. Call(t)
      /\ c \in DOMAIN Script[t] /\ q.attempt \in {1, 2} /\ c \in Nat
    <2>1. q \in Request /\ t \in Task /\ Sent(q) /\ c \in 1 .. Call(t)
          /\ q.attempt \in {1, 2} /\ c \in Nat
        BY DEF IInv, OnlySent, Sent, TypeOK, Request
    <2> QED
        BY <2>1, CallsOf
<1>2. PICK response : /\ response.req = q
                      /\ response.answer = IF s.op = "create" /\ s.db \in databases
                                           THEN "error" ELSE "data"
                      /\ executed' = executed \union {response}
    <2> DEFINE response == [req |-> q, answer |-> IF s.op = "create" /\ s.db \in databases
                                                  THEN "error" ELSE "data"]
    <2>1. executed' = executed \union {response}
        BY DEF Execute
    <2>2. /\ response.req = q
          /\ response.answer = IF s.op = "create" /\ s.db \in databases
                               THEN "error" ELSE "data"
        OBVIOUS
    <2> HIDE DEF response
    <2> QED
        BY <2>1, <2>2
<1>3. /\ pc' = pc /\ results' = results
      /\ databases' = IF s.op = "create" THEN databases \union {s.db}
                                         ELSE databases \ {s.db}
    BY DEF Execute
<1> HIDE DEF t, c, s
<1>4. GoesOnAfterOk'
    BY <1>3 DEF SInv, GoesOnAfterOk, Call
<1>5. ASSUME NEW u \in Task, NEW i, u # t \/ i # c
      PROVE  Executions(u, i)' = Executions(u, i)
    BY <1>2, <1>5 DEF Executions, t, c
<1>6. Executions(t, c)' = Executions(t, c) \union {response}
    BY <1>2 DEF Executions, t, c
<1>7. ASSUME NEW u \in Task, NEW d, Private(u, d), u # t
      PROVE  d \in databases' <=> d \in databases
    <2>1. s.db # d
        BY <1>1, <1>7 DEF Private, s
    <2> QED
        BY <1>3, <2>1
<1>8. RecreatedOnce'
    <2> SUFFICES ASSUME NEW u \in Task, NEW i \in DOMAIN Script[u], Recreates(u, i)
                 PROVE  /\ Executions(u, i - 1)' # {} /\ Script[u][i].db \in databases' =>
                                \E f \in Executions(u, i)' : f.answer = "data"
                        /\ \A e \in Executions(u, i)' : e.answer = "error" =>
                                \E f \in Executions(u, i)' : f.answer = "data"
        BY DEF RecreatedOnce
    <2> DEFINE d == Script[u][i].db
               Done == \E f \in Executions(u, i) : f.answer = "data"
    <2>1. i \in Nat /\ i > 1 /\ Private(u, d) /\ i # i - 1
        BY CallsOf DEF Recreates
    <2>2. /\ Executions(u, i - 1) # {} /\ d \in databases => Done
          /\ \A e \in Executions(u, i) : e.answer = "error" => Done
        BY DEF SInv, RecreatedOnce
    <2>3. Executions(u, i) \subseteq Executions(u, i)'
        BY <1>2 DEF Executions
    <2>4. CASE u # t
        BY <1>5, <1>7, <2>1, <2>2, <2>4
    <2>5. CASE u = t /\ c = i
        <3>1. Script[u][i] = s /\ s.db = d /\ s.op = "create" /\ i - 1 # c
            BY <2>1, <2>5 DEF s, Recreates
        <3>2. response \in Executions(u, i)'
            BY <1>6, <2>5
        <3>3. CASE response.answer = "data"
            BY <3>2, <3>3
        <3>4. CASE response.answer # "data"
            <4>1. d \in databases
                BY <1>2, <3>1, <3>4
            <4>2. i - 1 \in Nat /\ 1 <= i - 1 /\ i - 1 < Call(u)
                BY <1>1, <2>1, <2>5, CallsOf
            <4>3. Executions(u, i - 1) # {}
                BY <4>2, EarlierDone
            <4> QED
                BY <2>2, <2>3, <4>1, <4>3
        <3> QED
            BY <3>3, <3>4
    <2>6. CASE u = t /\ c > i
        <3>1. i < Call(u) /\ 1 <= i
            BY <1>1, <2>1, <2>6, CallsOf
        <3> QED
            BY <2>1, <2>3, <3>1, EarlierDone
    <2>7. CASE u = t /\ c < i
        <3>1. Executions(u, i)' = Executions(u, i)
            BY <1>1, <1>5, <2>1, <2>7
        <3>2. s.db = d => s.op # "create"
            <4>1. c \in 1 .. i - 1
                BY <1>1, <2>1, <2>7
            <4> QED
                BY <2>7, <4>1 DEF Recreates, s
        <3>3. d \in databases' => d \in databases /\ s.db # d
            BY <1>3, <3>2
        <3>4. c = i - 1 => s.db = d
            BY <2>7 DEF Recreates, s
        <3>5. d \in databases' => Executions(u, i - 1)' = Executions(u, i - 1)
            BY <1>5, <2>7, <3>3, <3>4
        <3> QED
            BY <2>2, <3>1, <3>3, <3>5
    <2> QED
        BY <1>1, <2>1, <2>4, <2>5, <2>6, <2>7
<1>9. StateOfLast'
    <2> SUFFICES ASSUME NEW u \in Task, NEW d \in Database, Private(u, d), Clean(u, d)',
                        NEW i \in ExecutedOn(u, d)',
                        \A j \in ExecutedOn(u, d)' : j <= i
                 PROVE  d \in databases' <=> Script[u][i].op = "create"
        BY DEF StateOfLast
    <2>1. Clean(u, d)
        BY <1>3 DEF Clean, Call, LastAttempt, Attempt
    <2>2. CASE u # t \/ s.db # d
        <3>1. d \in databases' <=> d \in databases
            BY <1>3, <1>7, <2>2
        <3>2. \A j : Script[u][j].db = d => Executions(u, j)' = Executions(u, j)
            BY <1>5, <2>2 DEF s
        <3>3. ExecutedOn(u, d)' = ExecutedOn(u, d)
            BY <3>2 DEF ExecutedOn
        <3> QED
            BY <2>1, <3>1, <3>3 DEF SInv, StateOfLast
    <2>3. CASE u = t /\ s.db = d
        <3>1. c \in ExecutedOn(u, d)'
            BY <1>1, <1>6, <2>3 DEF ExecutedOn, s
        <3>2. LastAttempt(u, c) = 1 /\ (c \in DOMAIN results[u] => results[u][c].answer = "data")
            BY <1>1, <2>1, <2>3 DEF Clean, s
        <3>3. c \notin DOMAIN results[u]
            <4> SUFFICES ASSUME c \in DOMAIN results[u]
                         PROVE  FALSE
                OBVIOUS
            <4>1. c <= Len(results[u])
                BY CallsOf
            <4>2. results[u][c].answer = "data" /\ results[u][c].attempt = 1
                BY <3>2, <4>1 DEF LastAttempt
            <4>3. [req |-> [task |-> u, call |-> c, attempt |-> 1], answer |-> "data"]
                        \in executed
                BY <4>2 DEF IInv, AnswerIsOwn, Answer
            <4>4. q.attempt = 1
                <5>1. q.attempt <= LastAttempt(u, c)
                    BY <1>1, <2>3 DEF Sent, t, c
                <5> QED
                    BY <1>1, <3>2, <5>1
            <4>5. q = [task |-> u, call |-> c, attempt |-> 1]
                BY <1>1, <2>3, <4>4 DEF Request, t, c
            <4> QED
                BY <4>3, <4>5 DEF IInv, ExecutedOnce
        <3>4. c = Call(u)
            BY <1>1, <2>3, <3>3, CallsOf
        <3>5. i <= c
            <4>1. PICK e \in executed' : e.req.task = u /\ e.req.call = i
                BY DEF ExecutedOn, Executions
            <4>2. Sent(e.req)'
                BY DEF IInv, OnlySent
            <4>3. i \in 1 .. Call(u)'
                BY <4>1, <4>2 DEF Sent
            <4>4. Call(u)' = Call(u)
                BY <1>3 DEF Call
            <4> QED
                BY <3>4, <4>3, <4>4, CallsOf
        <3>6. i = c
            <4>1. c <= i /\ i \in DOMAIN Script[u]
                BY <3>1 DEF ExecutedOn
            <4> QED
                BY <1>1, <3>5, <4>1, CallsOf
        <3> QED
            BY <1>3, <2>3, <3>6 DEF s
    <2> QED
        BY <2>2, <2>3
<1> QED
    BY <1>4, <1>8, <1>9 DEF SInv

\* What is said of the server's state holds for good.
THEOREM StateInvariance == Spec => [](IInv /\ SInv)
<1>1. Init => SInv
    <2> SUFFICES ASSUME Init PROVE SInv
        OBVIOUS
    <2>1. \A t \in Task : results[t] = <<>>
        BY DEF Init
    <2>2. \A t \in Task : \A i : Executions(t, i) = {}
        BY DEF Init, Executions
    <2> QED
        BY <2>1, <2>2 DEF SInv, GoesOnAfterOk, RecreatedOnce, StateOfLast, ExecutedOn
<1>2. IInv /\ IInv' /\ SInv /\ [Next]_vars => SInv'
    <2> SUFFICES ASSUME IInv, IInv', SInv, [Next]_vars PROVE SInv'
        OBVIOUS
    <2>1. ASSUME NEW t \in Task, Send(t) \/ SendTooLong(t) \/ Waiting(t) PROVE SInv'
        BY <2>1, ClientKeepsState
    <2>2. ASSUME NEW q \in reqs, Execute(q) PROVE SInv'
        BY <2>2, ExecuteKeepsState
    <2>3. ASSUME pc' = pc, results' = results, databases' = databases,
                 executed' = executed
          PROVE  SInv'
        <3>1. GoesOnAfterOk'
            BY <2>3 DEF SInv, GoesOnAfterOk, Call
        <3>2. \A t, i : Executions(t, i)' = Executions(t, i)
            BY <2>3 DEF Executions
        <3>3. RecreatedOnce'
            BY <2>3, <3>2 DEF SInv, RecreatedOnce
        <3>4. \A t, d : Clean(t, d)' <=> Clean(t, d)
            BY <2>3 DEF Clean, Call, LastAttempt, Attempt
        <3>5. \A t, d : ExecutedOn(t, d)' = ExecutedOn(t, d)
            BY <3>2 DEF ExecutedOn
        <3>6. StateOfLast'
            BY <2>3, <3>4, <3>5 DEF SInv, StateOfLast
        <3> QED
            BY <3>1, <3>3, <3>6 DEF SInv
    <2>4. ASSUME NEW q \in reqs, Lose(q) PROVE SInv'
        BY <2>3, <2>4 DEF Lose
    <2>5. CASE UNCHANGED vars
        BY <2>3, <2>5 DEF vars
    <2> QED
        BY <2>1, <2>2, <2>4, <2>5 DEF Next
<1> QED
    BY <1>1, <1>2, Invariance, PTL DEF Spec

\* raw_query: a create after a drop that was Ok is refused only if it was done.
THEOREM RefusedIsDone == Spec => []RefusedMeansDone
<1>1. IInv /\ SInv => RefusedMeansDone
    <2> SUFFICES ASSUME IInv, SInv, NEW t \in Task, NEW i \in DOMAIN results[t],
                        Recreates(t, i), results[t][i].answer = "error"
                 PROVE  \E e \in Executions(t, i) :
                            e.answer = "data" /\ e.req.attempt # results[t][i].attempt
        BY DEF RefusedMeansDone
    <2> DEFINE req == [task |-> t, call |-> i, attempt |-> results[t][i].attempt]
    <2>1. PICK e \in Executions(t, i) : e.answer = "error" /\ e.req = req
        BY AnswerExecuted DEF Answer
    <2>2. i \in DOMAIN Script[t]
        BY CallsOf
    <2>3. PICK f \in Executions(t, i) : f.answer = "data"
        BY <2>1, <2>2 DEF SInv, RecreatedOnce
    <2>4. f.req # req
        BY <2>1, <2>3 DEF IInv, ExecutedOnce, Executions
    <2>5. f.req \in Request /\ f.req.task = t /\ f.req.call = i
        BY <2>3 DEF Executions, IInv, TypeOK, Response
    <2>6. f.req.attempt # results[t][i].attempt
        BY <2>4, <2>5 DEF Request
    <2> QED
        BY <2>3, <2>6
<1> QED
    BY <1>1, StateInvariance, PTL

\* raw_query: after calls answered at the first attempt, a private database is as
\* the last of them says.
THEOREM StateIsAsAnswered == Spec => []StateAsAnswered
<1>1. IInv /\ SInv => StateAsAnswered
    <2> SUFFICES ASSUME IInv, SInv, NEW t \in Task, NEW d \in Database,
                        pc[t] = "idle", Private(t, d)
                 PROVE  LET On == {i \in DOMAIN results[t] : Script[t][i].db = d}
                        IN  (\A i \in On : results[t][i] = [answer |-> "data", attempt |-> 1])
                            => \A last \in On : (\A i \in On : i <= last) =>
                                    (d \in databases <=> Script[t][last].op = "create")
        BY DEF StateAsAnswered
    <2> DEFINE On == {i \in DOMAIN results[t] : Script[t][i].db = d}
    <2> SUFFICES ASSUME \A i \in On : results[t][i] = [answer |-> "data", attempt |-> 1],
                        NEW last \in On, \A i \in On : i <= last
                 PROVE  d \in databases <=> Script[t][last].op = "create"
        OBVIOUS
    <2>1. /\ DOMAIN results[t] = 1 .. Len(results[t]) /\ Call(t) = Len(results[t])
          /\ Len(results[t]) \in Nat
        BY CallsOf, CallNumber DEF IInv
    <2>2. Clean(t, d)
        <3> SUFFICES ASSUME NEW i \in 1 .. Call(t), Script[t][i].db = d
                     PROVE  LastAttempt(t, i) = 1 /\ results[t][i].answer = "data"
            BY DEF Clean
        <3>1. i \in On /\ i <= Len(results[t])
            BY <2>1
        <3> QED
            BY <3>1 DEF LastAttempt
    <2>3. On \subseteq ExecutedOn(t, d)
        <3> SUFFICES ASSUME NEW i \in On PROVE i \in ExecutedOn(t, d)
            OBVIOUS
        <3>1. i \in DOMAIN Script[t]
            BY CallsOf
        <3>2. results[t][i].answer \in Answer
            BY DEF Answer
        <3>3. Executions(t, i) # {}
            BY <3>2, AnswerExecuted
        <3> QED
            BY <3>1, <3>3 DEF ExecutedOn
    <2>4. ExecutedOn(t, d) \subseteq On
        <3> SUFFICES ASSUME NEW i \in ExecutedOn(t, d) PROVE i \in On
            OBVIOUS
        <3>1. PICK e \in executed : e.req.task = t /\ e.req.call = i
            BY DEF ExecutedOn, Executions
        <3>2. i \in 1 .. Call(t)
            BY <3>1 DEF IInv, OnlySent, Sent
        <3> QED
            BY <2>1, <3>2 DEF ExecutedOn
    <2> QED
        BY <2>2, <2>3, <2>4 DEF SInv, StateOfLast
<1> QED
    BY <1>1, StateInvariance, PTL

-----------------------------------------------------------------------------
(* The refinement of StatementService *)

InCall == {"send1", "send2", "body1", "body2"}

\* A task that has panicked has sent nothing for the call it panicked in.
PanickedUnsent ==
    \A q \in reqs : pc[q.task] = "panicked" => q.call <= Len(results[q.task])

\* What the tasks do to the abstract `calling'.
LEMMA CallingMoves ==
    ASSUME TypeOK
    PROVE  /\ \A t \in Task : Calling[t] <=> pc[t] \in InCall
           /\ pc' = pc => Calling' = Calling
           /\ \A t \in Task, to \in Pc :
                pc' = [pc EXCEPT ![t] = to]
                    => Calling' = [Calling EXCEPT ![t] = to \in InCall]
<1>1. \A t \in Task : Sending(t) \/ ReadingBody(t) <=> pc[t] \in InCall
    BY DEF Sending, ReadingBody, InCall
<1>2. pc' = pc => Calling' = Calling
    BY DEF Calling, Sending, ReadingBody
<1>3. ASSUME NEW t \in Task, NEW to \in Pc, pc' = [pc EXCEPT ![t] = to]
      PROVE  Calling' = [Calling EXCEPT ![t] = to \in InCall]
    <2>1. pc'[t] = to /\ \A u \in Task \ {t} : pc'[u] = pc[u]
        BY <1>3 DEF TypeOK
    <2>2. ((Sending(t) \/ ReadingBody(t))') = (to \in InCall)
        BY <2>1 DEF Sending, ReadingBody, InCall
    <2>3. \A u \in Task \ {t} :
            ((Sending(u) \/ ReadingBody(u))') = (Sending(u) \/ ReadingBody(u))
        BY <2>1 DEF Sending, ReadingBody
    <2>4. Calling' = [u \in Task |-> IF u = t THEN to \in InCall ELSE Calling[u]]
        <3>1. \A u \in Task : ((Sending(u) \/ ReadingBody(u))')
                    = IF u = t THEN to \in InCall ELSE Calling[u]
            BY <2>2, <2>3 DEF Calling
        <3> QED
            BY <3>1 DEF Calling
    <2> QED
        BY <2>4 DEF Calling
<1> QED
    BY <1>1, <1>2, <1>3 DEF Calling

\* The step in which a task stays in its call, or panics before it sends.
LEMMA StayInCall ==
    ASSUME TypeOK, NEW t \in Task, NEW to \in Pc, pc' = [pc EXCEPT ![t] = to],
           to \in InCall <=> pc[t] \in InCall
    PROVE  Calling' = Calling
<1>1. Calling' = [Calling EXCEPT ![t] = to \in InCall]
    BY CallingMoves
<1>2. \A u \in Task : Calling'[u] = Calling[u]
    <2> SUFFICES ASSUME NEW u \in Task PROVE Calling'[u] = Calling[u]
        OBVIOUS
    <2>1. CASE u = t
        BY <2>1, CallingMoves DEF Calling, Sending, ReadingBody, InCall, TypeOK
    <2>2. CASE u # t
        BY <1>1, <2>2 DEF Calling
    <2> QED
        BY <2>1, <2>2
<1> QED
    BY <1>2 DEF Calling

\* Nobody sends for a task that has panicked.
LEMMA PanickedUnsentStep ==
    ASSUME IInv, PanickedUnsent, [Next]_vars
    PROVE  PanickedUnsent'
<1> USE DEF IInv
<1>0. /\ \A q \in reqs : q \in Request /\ q.task \in Task /\ q.call \in Nat
      /\ pc \in [Task -> Pc]
    BY DEF TypeOK, Request, Pc
<1>1. ASSUME NEW t \in Task, Send(t) PROVE PanickedUnsent'
    <2>1. pc' = [pc EXCEPT ![t] = "send1"] /\ results' = results
        BY <1>1 DEF Send
    <2>2. \A q \in reqs' : q \in reqs \/ q.task = t
        BY <1>1 DEF Send
    <2>3. pc'[t] # "panicked" /\ \A u \in Task \ {t} : pc'[u] = pc[u]
        BY <1>0, <2>1
    <2> QED
        BY <1>0, <2>1, <2>2, <2>3 DEF PanickedUnsent
<1>2. ASSUME NEW t \in Task, SendTooLong(t) PROVE PanickedUnsent'
    <2>1. /\ pc' = [pc EXCEPT ![t] = "panicked"] /\ results' = results /\ reqs' = reqs
          /\ pc[t] = "idle"
        BY <1>2 DEF SendTooLong, MayCall
    <2>2. \A u \in Task \ {t} : pc'[u] = pc[u]
        BY <1>0, <2>1
    <2>3. \A q \in reqs : q.task = t => q.call <= Len(results[t])
        BY <1>0, <2>1, CallNumber DEF OnlySent, Sent
    <2> QED
        BY <1>0, <2>1, <2>2, <2>3 DEF PanickedUnsent
<1>3. ASSUME NEW t \in Task, Waiting(t) PROVE PanickedUnsent'
    <2>1. /\ pc[t] \in InCall /\ pc'[t] \in InCall \union {"idle"}
          /\ \A u \in Task \ {t} : pc'[u] = pc[u] /\ results'[u] = results[u]
        BY <1>0, <1>3 DEF Waiting, SendFails, HeadArrives, BodyArrives, BodyFails,
                          Return, Sending, ReadingBody, InCall, TypeOK
    <2>2. \A q \in reqs' : q \in reqs \/ q.task = t
        BY <1>3 DEF Waiting, SendFails, HeadArrives, BodyArrives, BodyFails, Current
    <2> QED
        BY <1>0, <2>1, <2>2 DEF PanickedUnsent, InCall
<1>4. ASSUME NEW q \in reqs, Execute(q) \/ Lose(q) PROVE PanickedUnsent'
    BY <1>4 DEF Execute, Lose, PanickedUnsent
<1>5. CASE UNCHANGED vars
    BY <1>5 DEF vars, PanickedUnsent
<1> QED
    BY <1>1, <1>2, <1>3, <1>4, <1>5 DEF Next

\* A call that begins.
LEMMA SendBegins ==
    ASSUME IInv, NEW t \in Task, Send(t)
    PROVE  Service!Begin(t)
<1> USE DEF IInv
<1>1. ~Calling[t]
    BY CallingMoves DEF Send, MayCall, InCall
<1>2. Calling' = [Calling EXCEPT ![t] = TRUE]
    <2>1. Calling' = [Calling EXCEPT ![t] = "send1" \in InCall]
        BY CallingMoves DEF Send, Pc
    <2>2. ("send1" \in InCall) = TRUE
        BY DEF InCall
    <2> QED
        BY <2>1, <2>2
<1> QED
    BY <1>1, <1>2 DEF Send, MayCall, Service!Begin

\* A call that returns, with the answer of an execution of its own or without.
LEMMA ReturnReturns ==
    ASSUME IInv, NEW t \in Task, pc[t] \in InCall,
           NEW answer \in Answer \union {"transport"}, Return(t, answer),
           answer \in Answer =>
                [req |-> Current(t), answer |-> answer] \in executed,
           UNCHANGED <<databases, executed>>
    PROVE  Service!Return(t, answer, Attempt(t))
<1> USE DEF IInv
<1>1. Calling[t] /\ Calling' = [Calling EXCEPT ![t] = FALSE]
    <2>1. Calling' = [Calling EXCEPT ![t] = "idle" \in InCall]
        BY CallingMoves DEF Return, Pc
    <2>2. ("idle" \in InCall) = FALSE
        BY DEF InCall
    <2> QED
        BY <2>1, <2>2, CallingMoves
<1>2. /\ Len(results[t]) \in Nat /\ Call(t) = Len(results[t]) + 1
      /\ Attempt(t) \in {1, 2}
    BY CallNumber DEF InCall
<1>3. Current(t) = [task |-> t, call |-> Len(results[t]) + 1, attempt |-> Attempt(t)]
    BY <1>2 DEF Current
<1>4. ASSUME NEW e \in executed, e.req.task = t, e.req.call = Len(results[t]) + 1
      PROVE  e.req.attempt <= Attempt(t)
    <2>1. e.req.attempt <= LastAttempt(t, Len(results[t]) + 1)
        BY <1>4 DEF OnlySent, Sent
    <2>2. LastAttempt(t, Len(results[t]) + 1) = Attempt(t)
        BY <1>2 DEF LastAttempt
    <2> QED
        BY <2>1, <2>2
<1>5. \/ answer = "transport"
      \/ [req |-> [task |-> t, call |-> Len(results[t]) + 1, attempt |-> Attempt(t)],
          answer |-> answer] \in executed
    BY <1>3
<1>6. results' = [results EXCEPT
            ![t] = Append(@, [answer |-> answer, attempt |-> Attempt(t)])]
    BY DEF Return
<1> QED
    BY <1>1, <1>4, <1>5, <1>6 DEF Service!Return

\* A request that is executed, before its call has returned or after.
LEMMA ExecuteExecutes ==
    ASSUME IInv, PanickedUnsent, NEW q \in reqs, Execute(q)
    PROVE  \E t \in Task : \E i \in DOMAIN Script[t], attempt \in {1, 2} :
                Service!Execute(t, i, attempt)
<1> USE DEF IInv
<1> DEFINE t == q.task
           i == q.call
           attempt == q.attempt
<1>1. /\ q \in Request /\ t \in Task /\ i \in Nat /\ attempt \in {1, 2}
      /\ q = [task |-> t, call |-> i, attempt |-> attempt]
    BY DEF TypeOK, Request
<1>2. i \in 1 .. Call(t) /\ attempt <= LastAttempt(t, i)
    BY DEF OnlySent, Sent
<1>3. /\ Len(results[t]) \in Nat /\ Call(t) \in Nat
      /\ DOMAIN results[t] = 1 .. Len(results[t])
    BY <1>1, CallNumber, LenProperties DEF TypeOK
<1>4. i \in DOMAIN Script[t]
    <2>1. Len(Script[t]) \in Nat /\ DOMAIN Script[t] = 1 .. Len(Script[t])
        BY <1>1, ScriptAssumption, LenProperties
    <2>2. Call(t) <= Len(Script[t])
        BY <1>1 DEF WithinScript
    <2> QED
        BY <1>2, <1>3, <2>1, <2>2
<1>5. \/ i = Len(results[t]) + 1 /\ Calling[t]
      \/ i \in DOMAIN results[t] /\ attempt <= results[t][i].attempt
    <2>1. CASE i <= Len(results[t])
        BY <1>2, <1>3, <2>1 DEF LastAttempt
    <2>2. CASE ~(i <= Len(results[t]))
        <3>1. pc[t] # "idle" /\ i = Len(results[t]) + 1
            BY <1>1, <1>2, <1>3, <2>2, CallNumber
        <3>2. pc[t] # "panicked"
            BY <2>2 DEF PanickedUnsent
        <3>3. pc[t] \in InCall
            BY <1>1, <3>1, <3>2 DEF TypeOK, InCall
        <3> QED
            BY <1>1, <3>1, <3>3, CallingMoves
    <2> QED
        BY <2>1, <2>2
<1>6. \A e \in executed : e.req # q
    BY DEF ExecutedOnce
<1>7. Calling' = Calling /\ results' = results
    BY CallingMoves DEF Execute
<1> DEFINE statement == Script[t][i]
           refused == statement.op = "create" /\ statement.db \in databases
<1>8. /\ databases' = IF statement.op = "create"
                      THEN databases \union {statement.db}
                      ELSE databases \ {statement.db}
      /\ executed' = executed \union
                {[req |-> q, answer |-> IF refused THEN "error" ELSE "data"]}
    BY DEF Execute
<1>9. Service!Execute(t, i, attempt)
    BY <1>1, <1>5, <1>6, <1>7, <1>8 DEF Service!Execute
<1> QED
    BY <1>1, <1>4, <1>9

\* raw_query, exec and query over HTTP implement the abstract service, whatever
\* is lost, late or sent twice.
THEOREM ImplementsService == Spec => ServiceKept
<1>1. Init => Service!Init /\ PanickedUnsent
    <2> SUFFICES ASSUME Init PROVE Service!Init /\ PanickedUnsent
        OBVIOUS
    <2>1. Calling = [t \in Task |-> FALSE]
        BY DEF Init, Calling, Sending, ReadingBody
    <2> QED
        BY <2>1 DEF Init, Service!Init, PanickedUnsent
<1>2. IInv /\ PanickedUnsent /\ [Next]_vars => [Service!Next]_(Service!vars)
    <2> SUFFICES ASSUME IInv, PanickedUnsent, [Next]_vars
                 PROVE  Service!Next
                        \/ UNCHANGED <<Calling, results, databases, executed>>
        BY DEF Service!vars
    <2>0. TypeOK
        BY DEF IInv
    <2>1. ASSUME NEW t \in Task, Send(t)
          PROVE  Service!Next
        BY <2>1, SendBegins DEF Service!Next
    <2>2. ASSUME NEW t \in Task, SendTooLong(t)
          PROVE  UNCHANGED <<Calling, results, databases, executed>>
        <3>1. /\ pc' = [pc EXCEPT ![t] = "panicked"] /\ pc[t] = "idle"
              /\ UNCHANGED <<results, databases, executed>>
            BY <2>2 DEF SendTooLong, MayCall
        <3>2. Calling' = Calling
            BY <2>0, <3>1, StayInCall DEF Pc, InCall
        <3> QED
            BY <3>1, <3>2
    <2>3. ASSUME NEW t \in Task, HeadArrives(t)
          PROVE  UNCHANGED <<Calling, results, databases, executed>>
        <3>1. /\ pc[t] \in InCall /\ UNCHANGED <<results, databases, executed>>
              /\ \E to \in {"body1", "body2"} : pc' = [pc EXCEPT ![t] = to]
            BY <2>3 DEF HeadArrives, Sending, InCall
        <3>2. Calling' = Calling
            BY <2>0, <3>1, StayInCall DEF Pc, InCall
        <3> QED
            BY <3>1, <3>2
    <2>4. ASSUME NEW t \in Task, SendFails(t), pc[t] = "send1"
          PROVE  UNCHANGED <<Calling, results, databases, executed>>
        <3>1. /\ pc' = [pc EXCEPT ![t] = "send2"]
              /\ UNCHANGED <<results, databases, executed>>
            BY <2>4 DEF SendFails
        <3>2. Calling' = Calling
            BY <2>0, <2>4, <3>1, StayInCall DEF Pc, InCall
        <3> QED
            BY <3>1, <3>2
    <2>5. ASSUME NEW t \in Task, NEW answer \in Answer \union {"transport"},
                 Service!Return(t, answer, Attempt(t))
          PROVE  Service!Next
        <3>1. answer \in {"data", "error", "transport"} /\ Attempt(t) \in {1, 2}
            BY <2>0, CallNumber DEF Answer
        <3> QED
            BY <2>5, <3>1 DEF Service!Next
    <2>6. ASSUME NEW t \in Task,
                 (SendFails(t) /\ pc[t] # "send1") \/ BodyFails(t)
          PROVE  Service!Next
        <3>1. /\ pc[t] \in InCall /\ Return(t, "transport")
              /\ UNCHANGED <<databases, executed>>
            BY <2>6 DEF SendFails, BodyFails, Sending, ReadingBody, InCall
        <3>2. "transport" \in Answer \union {"transport"} /\ "transport" \notin Answer
            BY DEF Answer
        <3> QED
            BY <2>5, <3>1, <3>2, ReturnReturns
    <2>7. ASSUME NEW t \in Task, BodyArrives(t)
          PROVE  Service!Next
        <3>1. PICK r \in resps : r.req = Current(t) /\ Return(t, r.answer)
            BY <2>7 DEF BodyArrives
        <3>2. /\ r.answer \in Answer
              /\ [req |-> Current(t), answer |-> r.answer] \in executed
            <4>1. r \in Response /\ r \in executed
                BY DEF IInv, TypeOK, ResponsesAwaited
            <4>2. r = [req |-> r.req, answer |-> r.answer] /\ r.answer \in Answer
                BY <4>1 DEF Response
            <4> QED
                BY <3>1, <4>1, <4>2
        <3>3. pc[t] \in InCall /\ UNCHANGED <<databases, executed>>
            BY <2>7 DEF BodyArrives, ReadingBody, InCall
        <3> QED
            BY <2>5, <3>1, <3>2, <3>3, ReturnReturns
    <2>8. ASSUME NEW q \in reqs, Execute(q)
          PROVE  Service!Next
        BY <2>8, ExecuteExecutes DEF Service!Next
    <2>9. ASSUME NEW q \in reqs, Lose(q)
          PROVE  UNCHANGED <<Calling, results, databases, executed>>
        BY <2>0, <2>9, CallingMoves DEF Lose
    <2>10. CASE UNCHANGED vars
        BY <2>0, <2>10, CallingMoves DEF vars
    <2> QED
        BY <2>1, <2>2, <2>3, <2>4, <2>6, <2>7, <2>8, <2>9, <2>10
           DEF Next, Waiting
<1>3. IInv /\ PanickedUnsent /\ [Next]_vars => PanickedUnsent'
    BY PanickedUnsentStep
<1> QED
    BY <1>1, <1>2, <1>3, Invariance, PTL DEF Spec, ServiceKept, Service!Spec

-----------------------------------------------------------------------------
(* The safety part of CallsReturn *)

\* How many steps a call has left, at most, until it returns.
StepsLeft(p) ==
    IF p = "send1" THEN 3
    ELSE IF p = "send2" THEN 2
    ELSE IF p \in {"body1", "body2"} THEN 1 ELSE 0

\* A call that waits takes no step but one towards its end.
GetsNearer ==
    \A t \in Task : pc[t] \in InCall /\ pc'[t] # pc[t] =>
        StepsLeft(pc'[t]) < StepsLeft(pc[t])

\* raw_query, exec and query end after three steps at most, whatever the network
\* and the server do: a failure is retried once, and a body is read once.
THEOREM StepsRunOut == Spec => [][GetsNearer]_vars
<1>1. TypeOK /\ [Next]_vars => [GetsNearer]_vars
    <2> SUFFICES ASSUME TypeOK, Next,
                        NEW t \in Task, pc[t] \in InCall, pc'[t] # pc[t]
                 PROVE  StepsLeft(pc'[t]) < StepsLeft(pc[t])
        BY DEF GetsNearer
    <2>1. PICK u \in Task : Send(u) \/ SendTooLong(u) \/ Waiting(u)
        BY DEF Next, Execute, Lose
    <2>2. u = t /\ Waiting(t)
        BY <2>1 DEF Send, SendTooLong, MayCall, Waiting, SendFails, HeadArrives,
                    BodyArrives, BodyFails, Return, TypeOK, InCall
    <2>3. CASE SendFails(t)
        BY <2>3 DEF SendFails, Return, Sending, TypeOK, StepsLeft
    <2>4. CASE HeadArrives(t)
        <3>1. pc[t] \in {"send1", "send2"} /\ pc'[t] \in {"body1", "body2"}
            BY <2>4 DEF HeadArrives, Sending, TypeOK
        <3> QED
            BY <3>1 DEF StepsLeft
    <2>5. CASE BodyArrives(t) \/ BodyFails(t)
        <3>1. pc[t] \in {"body1", "body2"} /\ pc'[t] = "idle"
            BY <2>5 DEF BodyArrives, BodyFails, Return, ReadingBody, TypeOK
        <3> QED
            BY <3>1 DEF StepsLeft
    <2> QED
        BY <2>2, <2>3, <2>4, <2>5 DEF Waiting
<1> QED
    BY <1>1, TypeCorrect, PTL DEF Spec

=============================================================================
