------------------------- MODULE TestCatalogProofs -------------------------
(***************************************************************************)
(* Proofs about TestCatalog, for any set of tests and any number of edits  *)
(* and runs: types, verdicts, times, descriptions and rows, and that a run *)
(* goes on until its tests have ended, however the threads of a run are    *)
(* interleaved and whichever statements of SQLite fail.                    *)
(***************************************************************************)
EXTENDS TestCatalog, TLAPS

-----------------------------------------------------------------------------
(* The parts of the inductive invariant *)

\* The mutex is held by the one thread that is in the update.
Locked == \A t \in Test : pc[t] = "postUpdate" <=> lock = t

\* One thread initialises; whoever has passed pre finds the initialisation
\* complete, and then there is a cataloger.
Initialised ==
    /\ once = "complete" => cataloger
    /\ \A t \in Test : pc[t] \in {"body", "postLock", "postUpdate"} => once = "complete"
    /\ \A t \in Test : pc[t] = "initialising" => once = "running"
    /\ \A t, u \in Test : pc[t] = "initialising" /\ pc[u] = "initialising" => t = u

\* Only a failure of the database poisons anything.
PoisonedByFailure == failures = 0 => ~poisoned /\ once # "poisoned"

\* The body of a test has not ended before post, and has ended with a value in it.
BodyOfPlace ==
    \A t \in Test :
        /\ pc[t] \in {"pre", "initialising", "body"} => body[t].how = "none"
        /\ pc[t] \in {"postLock", "postUpdate"} => body[t].how = "value"

\* No row is ahead of the sources, or of the runs: a test whose body has not ended
\* with a value in this run shows the time of an earlier one.
RowsOfThePast ==
    \A t \in Catalogued :
        /\ rows[t].description <= source[t]
        /\ rows[t].elapsed.run <= run
        /\ pc[t] # "built" /\ body[t].how # "value" => rows[t].elapsed.run < run

IInv ==
    /\ TypeOK
    /\ Locked
    /\ Initialised
    /\ PoisonedByFailure
    /\ BodyOfPlace
    /\ RowsOfThePast
    /\ OwnVerdict
    /\ TimesAreOwn
    /\ DescriptionCurrent

-----------------------------------------------------------------------------
(* Lemmas *)

\* The table is a function on the tests that are catalogued.
LEMMA RowsType ==
    ASSUME TypeOK
    PROVE  rows \in [Catalogued -> Row] /\ Catalogued \subseteq Test
BY DEF TypeOK, Catalogued

\* A thread changes its own place, body and verdict and at most its own row's
\* time; the sources, and what is catalogued, stay as they were built.
LEMMA ThreadOwn ==
    ASSUME TypeOK, NEW t \in Test, Thread(t)
    PROVE  /\ UNCHANGED <<source, dirty, unblamed, run>> /\ Catalogued' = Catalogued
           /\ \A u \in Test \ {t} :
                pc'[u] = pc[u] /\ body'[u] = body[u] /\ verdict'[u] = verdict[u]
           /\ pc[t] # "built"
           /\ \A u \in Catalogued :
                rows'[u].description = rows[u].description
           /\ \A u \in Catalogued \ {t} : rows'[u] = rows[u]
           /\ failures' \in Nat
           /\ failures' = 0 => failures = 0
<1>1. UNCHANGED <<source, dirty, unblamed, run>>
    BY DEF Thread, Pre, PrePanics, InitBegin, InitDone, InitFails, BodyReturns,
           BodyLeaves, BodyPanics, PostLock, PostLockPanics, PostUpdate, PostFails,
           build
<1>2. /\ \A u \in Test \ {t} :
            pc'[u] = pc[u] /\ body'[u] = body[u] /\ verdict'[u] = verdict[u]
      /\ pc[t] # "built"
    BY DEF TypeOK, Thread, Pre, PrePanics, InitBegin, InitDone, InitFails, BodyReturns,
           BodyLeaves, BodyPanics, PostLock, PostLockPanics, PostUpdate, PostFails,
           Goto, Finish, EndBody
<1>3. CASE UNCHANGED rows
    <2>1. failures' \in Nat /\ (failures' = 0 => failures = 0)
        BY DEF TypeOK, Thread, Pre, PrePanics, InitBegin, InitDone, InitFails,
               BodyReturns, BodyLeaves, BodyPanics, PostLock, PostLockPanics,
               PostUpdate, PostFails
    <2> QED
        BY <1>1, <1>2, <1>3, <2>1 DEF Catalogued
<1>4. CASE PostUpdate(t)
    <2>1. rows' = IF t \in Catalogued
                  THEN [rows EXCEPT ![t].elapsed = [test |-> t, run |-> run]]
                  ELSE rows
        BY <1>4 DEF PostUpdate
    <2>2. Catalogued' = Catalogued /\ \A u \in Catalogued \ {t} : rows'[u] = rows[u]
        BY <2>1, RowsType DEF Catalogued
    <2>3. \A u \in Catalogued : rows'[u].description = rows[u].description
        BY <2>1, RowsType DEF Row, Catalogued
    <2>4. failures' = failures /\ failures \in Nat
        BY <1>4 DEF PostUpdate, TypeOK
    <2> QED
        BY <1>1, <1>2, <2>2, <2>3, <2>4
<1> QED
    BY <1>3, <1>4
       DEF Thread, Pre, PrePanics, InitBegin, InitDone, InitFails, BodyReturns,
           BodyLeaves, BodyPanics, PostLock, PostLockPanics, PostFails

-----------------------------------------------------------------------------
(* The steps of a thread *)

\* Every step of a thread keeps the types.
LEMMA ThreadTypes ==
    ASSUME TypeOK, NEW t \in Test, Thread(t)
    PROVE  TypeOK'
<1>1. /\ source' \in [Test -> Edits] /\ dirty' \subseteq Test /\ unblamed' \subseteq Test
      /\ run' \in 0 .. MaxRuns /\ failures' \in Nat
    BY ThreadOwn DEF TypeOK
<1>2. /\ once' \in {"new", "running", "complete", "poisoned"}
      /\ cataloger' \in BOOLEAN
      /\ lock' \in Test \union {NoTest}
      /\ poisoned' \in BOOLEAN
    BY DEF TypeOK, process, Thread, Pre, PrePanics, InitBegin, InitDone, InitFails, BodyReturns,
           BodyLeaves, BodyPanics, PostLock, PostLockPanics, PostUpdate, PostFails
<1>3. /\ pc' \in [Test -> Pc]
      /\ body' \in [Test -> Ending]
      /\ verdict' \in [Test -> {"none", "ok", "FAILED"}]
  <2>1. pc' \in [Test -> Pc]
    BY DEF TypeOK, Pc, Goto, Finish, EndBody, Thread, Pre, PrePanics, InitBegin, InitDone, InitFails, BodyReturns,
             BodyLeaves, BodyPanics, PostLock, PostLockPanics, PostUpdate, PostFails
  <2>2. body' \in [Test -> Ending]
    BY DEF TypeOK, Ending, Finish, EndBody, Thread, Pre, PrePanics, InitBegin, InitDone, InitFails, BodyReturns,
             BodyLeaves, BodyPanics, PostLock, PostLockPanics, PostUpdate, PostFails
  <2>3. verdict' \in [Test -> {"none", "ok", "FAILED"}]
    <3>1. ASSUME NEW how, NEW own \in {"ok", "FAILED"}, NEW to, EndBody(t, how, own, to)
          PROVE  verdict' \in [Test -> {"none", "ok", "FAILED"}]
      BY <3>1 DEF TypeOK, EndBody
    <3>2. CASE BodyReturns(t) \/ BodyLeaves(t) \/ BodyPanics(t)
      BY <3>1, <3>2 DEF BodyReturns, BodyLeaves, BodyPanics
    <3>3. CASE PostUpdate(t)
      BY <3>3 DEF TypeOK, Ending, PostUpdate, Finish
    <3>4. CASE UNCHANGED verdict
      BY <3>4 DEF TypeOK
    <3>5. ASSUME NEW from, Finish(t, from, "FAILED")
          PROVE  verdict' \in [Test -> {"none", "ok", "FAILED"}]
      BY <3>5 DEF TypeOK, Finish
    <3> QED
      BY <3>2, <3>3, <3>4, <3>5 DEF Thread, Pre, PrePanics, InitBegin, InitDone,
             InitFails, PostLock, PostLockPanics, PostFails
  <2> QED
    BY <2>1, <2>2, <2>3
<1>4. \E T \in SUBSET Test : rows' \in [T -> Row]
  <2>1. CASE UNCHANGED rows
    BY <2>1 DEF TypeOK
  <2>2. CASE PostUpdate(t)
    <3>1. [test |-> t, run |-> run] \in [test : Test \union {NoTest}, run : 0 .. MaxRuns]
      BY DEF TypeOK
    <3>2. rows' \in [Catalogued -> Row]
      BY <2>2, <3>1, RowsType DEF PostUpdate, Row
    <3> QED
      BY <3>2, RowsType
  <2> QED
    BY <2>1, <2>2 DEF Thread, Pre, PrePanics, InitBegin, InitDone, InitFails, BodyReturns,
           BodyLeaves, BodyPanics, PostLock, PostLockPanics, PostUpdate, PostFails
<1> QED
    BY <1>1, <1>2, <1>3, <1>4 DEF TypeOK

\* A thread takes the mutex when it enters the update and gives it back when it
\* leaves it, in whatever way.
LEMMA ThreadLocked ==
    ASSUME IInv, NEW t \in Test, Thread(t)
    PROVE  Locked'
<1>1. /\ \A u \in Test \ {t} : pc'[u] = pc[u]
      /\ NoTest \notin Test /\ (\A u \in Test : pc[u] = "postUpdate" <=> lock = u)
    BY ThreadOwn, CatalogAssumption DEF IInv, Locked
<1>2. CASE PostLock(t)
    BY <1>1, <1>2 DEF PostLock, Goto, Locked, IInv, TypeOK
<1>3. CASE PostUpdate(t) \/ PostFails(t)
    BY <1>1, <1>3 DEF PostUpdate, PostFails, Finish, Goto, Locked, IInv, TypeOK
<1>4. CASE lock' = lock /\ pc[t] # "postUpdate" /\ pc'[t] # "postUpdate"
    BY <1>1, <1>4 DEF Locked
<1> QED
    BY <1>2, <1>3, <1>4
       DEF process, IInv, TypeOK, Goto, Finish, EndBody,
           Thread, Pre, PrePanics, InitBegin, InitDone, InitFails, BodyReturns,
           BodyLeaves, BodyPanics, PostLock, PostLockPanics, PostUpdate, PostFails

\* The Once lets nobody past before the cataloger is there.
LEMMA ThreadInitialised ==
    ASSUME IInv, NEW t \in Test, Thread(t)
    PROVE  Initialised'
<1>1. /\ \A u \in Test \ {t} : pc'[u] = pc[u]
      /\ Initialised /\ TypeOK
    BY ThreadOwn DEF IInv
<1>2. CASE InitBegin(t)
    BY <1>1, <1>2 DEF InitBegin, Goto, Initialised, TypeOK
<1>3. CASE InitDone(t)
    BY <1>1, <1>3 DEF InitDone, Goto, Initialised, TypeOK
<1>4. CASE InitFails(t)
    BY <1>1, <1>4 DEF InitFails, Finish, Goto, Initialised, TypeOK
<1>5. CASE Pre(t)
    BY <1>1, <1>5 DEF Pre, process, Goto, Initialised, TypeOK
<1>6. CASE /\ once' = once /\ cataloger' = cataloger /\ pc'[t] # "initialising"
           /\ pc'[t] \in {"body", "postLock", "postUpdate"} =>
                pc[t] \in {"body", "postLock", "postUpdate"}
    BY <1>1, <1>6 DEF Initialised
<1> QED
    BY <1>1, <1>2, <1>3, <1>4, <1>5, <1>6
       DEF process, TypeOK, Goto, Finish, EndBody,
           Thread, Pre, PrePanics, InitBegin, InitDone, InitFails, BodyReturns,
           BodyLeaves, BodyPanics, PostLock, PostLockPanics, PostUpdate, PostFails

\* What poisons the Once or the mutex is a failure: the cataloger is there.
LEMMA ThreadPoisons ==
    ASSUME IInv, NEW t \in Test, Thread(t)
    PROVE  PoisonedByFailure'
<1>1. failures \in Nat /\ (failures' = 0 => failures = 0)
    BY ThreadOwn DEF IInv, TypeOK
<1>2. CASE InitFails(t)
    BY <1>1, <1>2 DEF InitFails, PoisonedByFailure
<1>3. CASE PostFails(t)
  <2>1. cataloger
    BY <1>3 DEF PostFails, Finish, Goto, IInv, Initialised
  <2> QED
    BY <1>1, <1>3, <2>1 DEF PostFails, PoisonedByFailure
<1>4. CASE poisoned' = poisoned /\ (once' = once \/ once' # "poisoned")
    BY <1>1, <1>4 DEF PoisonedByFailure, IInv
<1> QED
    BY <1>2, <1>3, <1>4
       DEF process, Thread, Pre, PrePanics, InitBegin, InitDone, InitFails, BodyReturns,
           BodyLeaves, BodyPanics, PostLock, PostLockPanics, PostUpdate, PostFails

\* A thread that panics outside of its body does so after a failure.
LEMMA FailedThread ==
    ASSUME IInv, NEW t \in Test,
           PrePanics(t) \/ InitFails(t) \/ PostLockPanics(t) \/ PostFails(t)
    PROVE  failures' # 0
<1>1. failures \in Nat
    BY DEF IInv, TypeOK
<1>2. CASE PrePanics(t) \/ PostLockPanics(t)
    BY <1>2 DEF PrePanics, PostLockPanics, IInv, PoisonedByFailure
<1>3. CASE InitFails(t)
    BY <1>3, <1>1 DEF InitFails
<1>4. CASE PostFails(t)
  <2>1. cataloger
    BY <1>4 DEF PostFails, Finish, Goto, IInv, Initialised
  <2> QED
    BY <1>4, <2>1, <1>1 DEF PostFails
<1> QED
    BY <1>2, <1>3, <1>4

\* A thread that ends reports its own body, unless something failed.
LEMMA ThreadVerdict ==
    ASSUME IInv, NEW t \in Test, Thread(t)
    PROVE  OwnVerdict'
<1>1. /\ \A u \in Test \ {t} :
            pc'[u] = pc[u] /\ body'[u] = body[u] /\ verdict'[u] = verdict[u]
      /\ failures \in Nat /\ (failures' = 0 => failures = 0)
    BY ThreadOwn DEF IInv, TypeOK
<1>2. CASE pc'[t] # "done"
    BY <1>1, <1>2 DEF OwnVerdict, IInv
<1>3. CASE BodyReturns(t) \/ BodyLeaves(t) \/ BodyPanics(t)
    BY <1>1, <1>3 DEF BodyReturns, BodyLeaves, BodyPanics, EndBody, Goto, OwnVerdict,
                      IInv, TypeOK
<1>4. CASE PostUpdate(t)
    BY <1>1, <1>4 DEF PostUpdate, Finish, Goto, OwnVerdict, IInv, TypeOK
<1>5. CASE failures' # 0
    BY <1>5 DEF OwnVerdict
<1>6. CASE PrePanics(t) \/ InitFails(t) \/ PostLockPanics(t) \/ PostFails(t)
    BY <1>5, <1>6, FailedThread
<1> QED
    BY <1>2, <1>3, <1>4, <1>5, <1>6
       DEF IInv, TypeOK, Goto, Thread, Pre, InitBegin, InitDone, PostLock

\* A thread comes to post only by a body that ends with a value.
LEMMA ThreadBody ==
    ASSUME IInv, NEW t \in Test, Thread(t)
    PROVE  BodyOfPlace'
<1>1. \A u \in Test \ {t} : pc'[u] = pc[u] /\ body'[u] = body[u]
    BY ThreadOwn DEF IInv
<1>2. /\ pc'[t] \in {"pre", "initialising", "body"} => body'[t].how = "none"
      /\ pc'[t] \in {"postLock", "postUpdate"} => body'[t].how = "value"
  <2>1. CASE BodyReturns(t) \/ BodyLeaves(t) \/ BodyPanics(t)
    BY <2>1 DEF BodyReturns, BodyLeaves, BodyPanics, EndBody, Goto, IInv, TypeOK
  <2>2. CASE Pre(t) \/ InitBegin(t) \/ InitDone(t) \/ PostLock(t)
    BY <2>2 DEF Pre, InitBegin, InitDone, PostLock, Goto, IInv, TypeOK, BodyOfPlace
  <2>3. CASE PrePanics(t) \/ InitFails(t) \/ PostLockPanics(t) \/ PostUpdate(t) \/ PostFails(t)
    BY <2>3 DEF PrePanics, InitFails, PostLockPanics, PostUpdate, PostFails, Finish, Goto,
                IInv, TypeOK
  <2> QED
    BY <2>1, <2>2, <2>3 DEF Thread
<1> QED
    BY <1>1, <1>2 DEF BodyOfPlace, IInv

\* A thread writes the time of its own row only, and a thread whose body has
\* ended with a value does not end without writing it, unless something failed.
LEMMA ThreadTimes ==
    ASSUME IInv, NEW t \in Test, Thread(t)
    PROVE  TimesAreOwn' /\ RowsOfThePast'
<1>1. /\ \A u \in Test \ {t} : pc'[u] = pc[u] /\ body'[u] = body[u]
      /\ Catalogued' = Catalogued /\ Catalogued \subseteq Test
      /\ run' = run /\ source' = source /\ run \in Nat
      /\ \A u \in Catalogued \ {t} : rows'[u] = rows[u]
      /\ \A u \in Catalogued : rows'[u].description = rows[u].description
      /\ failures \in Nat /\ (failures' = 0 => failures = 0)
      /\ pc[t] # "built"
    BY ThreadOwn, RowsType, CatalogAssumption DEF IInv, TypeOK
<1>2. ASSUME NEW u \in Catalogued, u # t
      PROVE  /\ rows'[u].elapsed.test \in {u, NoTest}
             /\ pc'[u] = "done" /\ body'[u].how = "value" /\ failures' = 0
                  => rows'[u].elapsed = [test |-> u, run |-> run']
    BY <1>1, <1>2 DEF IInv, TimesAreOwn
<1>3. ASSUME t \in Catalogued
      PROVE  /\ rows'[t].elapsed.test \in {t, NoTest}
             /\ pc'[t] = "done" /\ body'[t].how = "value" /\ failures' = 0
                  => rows'[t].elapsed = [test |-> t, run |-> run']
             /\ rows'[t].elapsed.run <= run'
             /\ body'[t].how # "value" => rows'[t].elapsed.run < run'
  <2>1. CASE PostUpdate(t)
    <3>1. rows' = [rows EXCEPT ![t].elapsed = [test |-> t, run |-> run]]
      BY <2>1, <1>3 DEF PostUpdate
    <3>2. rows'[t].elapsed = [test |-> t, run |-> run]
      BY <3>1, <1>3, RowsType DEF IInv, Row
    <3>3. body'[t].how = "value"
      BY <2>1, <1>1 DEF PostUpdate, Finish, Goto, IInv, BodyOfPlace
    <3> QED
      BY <3>2, <3>3, <1>1
  <2>2. CASE UNCHANGED rows /\ (body'[t].how # "value" => body[t].how # "value")
    <3>1. /\ rows'[t].elapsed.run <= run'
          /\ body'[t].how # "value" => rows'[t].elapsed.run < run'
      BY <2>2, <1>1, <1>3 DEF IInv, RowsOfThePast
    <3>2. rows'[t].elapsed.test \in {t, NoTest}
      BY <2>2, <1>3 DEF IInv, TimesAreOwn
    <3>3. CASE pc'[t] # "done" \/ body'[t].how # "value" \/ failures' # 0
      BY <3>1, <3>2, <3>3
    <3>4. CASE PrePanics(t) \/ InitFails(t) \/ PostLockPanics(t) \/ PostFails(t)
      BY <3>3, <3>4, FailedThread
    <3>5. CASE BodyReturns(t) \/ BodyLeaves(t) \/ BodyPanics(t)
      BY <3>3, <3>5 DEF BodyReturns, BodyLeaves, BodyPanics, EndBody, Goto, IInv, TypeOK
    <3>6. CASE Pre(t) \/ InitBegin(t) \/ InitDone(t) \/ PostLock(t)
      BY <3>3, <3>6 DEF Pre, InitBegin, InitDone, PostLock, Goto, IInv, TypeOK
    <3> QED
      BY <2>1, <3>4, <3>5, <3>6 DEF Thread
  <2>3. CASE BodyReturns(t) \/ BodyLeaves(t) \/ BodyPanics(t)
    <3>1. pc[t] = "body" /\ UNCHANGED rows
      BY <2>3 DEF BodyReturns, BodyLeaves, BodyPanics, EndBody, Goto
    <3>2. body[t].how = "none"
      BY <3>1 DEF IInv, BodyOfPlace
    <3> QED
      BY <2>2, <3>1, <3>2
  <2>4. CASE \/ Pre(t) \/ PrePanics(t) \/ InitBegin(t) \/ InitDone(t) \/ InitFails(t)
             \/ PostLock(t) \/ PostLockPanics(t) \/ PostFails(t)
    BY <2>2, <2>4 DEF Pre, PrePanics, InitBegin, InitDone, InitFails, PostLock,
                      PostLockPanics, PostFails, Finish
  <2> QED
    BY <2>1, <2>3, <2>4 DEF Thread
<1>4. RowsOfThePast'
  BY <1>1, <1>3 DEF RowsOfThePast, IInv
<1>5. TimesAreOwn'
  BY <1>1, <1>2, <1>3, <1>4 DEF TimesAreOwn, RowsOfThePast
<1> QED
  BY <1>4, <1>5

\* Every step of a thread keeps the invariant.
LEMMA ThreadStep ==
    ASSUME IInv, NEW t \in Test, Thread(t)
    PROVE  IInv'
<1>1. TypeOK'
    BY ThreadTypes DEF IInv
<1>2. Locked' /\ Initialised' /\ PoisonedByFailure' /\ OwnVerdict' /\ TimesAreOwn'
    BY ThreadLocked, ThreadInitialised, ThreadPoisons, ThreadVerdict, ThreadTimes
<1>3. BodyOfPlace' /\ RowsOfThePast' /\ DescriptionCurrent'
    BY ThreadOwn, ThreadBody, ThreadTimes DEF IInv, DescriptionCurrent
<1> QED
    BY <1>1, <1>2, <1>3 DEF IInv

-----------------------------------------------------------------------------
(* The steps of a build *)

\* An edit makes the test one that the next build expands.
LEMMA EditStep ==
    ASSUME IInv, NEW t \in Test, Edit(t)
    PROVE  IInv'
<1>1. TypeOK'
  <2>1. source[t] + 1 \in Edits /\ source' = [source EXCEPT ![t] = source[t] + 1]
    BY CatalogAssumption DEF IInv, TypeOK, Edit, Edits
  <2>2. source' \in [Test -> Edits] /\ dirty' \subseteq Test
    BY <2>1 DEF IInv, TypeOK, Edit
  <2> QED
    BY <2>2 DEF IInv, TypeOK, Edit, process, threads
<1>2. RowsOfThePast' /\ DescriptionCurrent'
  <2>1. /\ \A u \in Test : /\ source[u] \in Nat /\ source'[u] \in Int
                           /\ source'[u] >= source[u]
        /\ \A u \in Test \ {t} : source'[u] = source[u]
        /\ dirty' = dirty \union {t}
        /\ UNCHANGED <<unblamed, rows, run, pc, body>>
    BY CatalogAssumption DEF IInv, TypeOK, Edit, Edits, threads
  <2>2. rows \in [Catalogued -> Row] /\ Catalogued \subseteq Test /\ Catalogued' = Catalogued
    BY <2>1, RowsType DEF IInv, Catalogued
  <2>3. \A u \in Catalogued : rows[u].description \in Nat
    BY <2>2, CatalogAssumption DEF Row, Edits
  <2>4. RowsOfThePast'
    <3>1. \A u \in Catalogued : rows[u].description <= source'[u]
      <4> SUFFICES ASSUME NEW u \in Catalogued
                   PROVE  rows[u].description <= source'[u]
        OBVIOUS
      <4>1. rows[u].description <= source[u] /\ rows[u].description \in Nat
        BY <2>3 DEF IInv, RowsOfThePast
      <4>2. source[u] \in Nat /\ source'[u] \in Int /\ source'[u] >= source[u]
        BY <2>1, <2>2
      <4> QED
        BY <4>1, <4>2
    <3> QED
      BY <2>1, <2>2, <3>1 DEF IInv, RowsOfThePast
  <2>5. DescriptionCurrent'
    BY <2>1, <2>2, <2>3 DEF IInv, DescriptionCurrent
  <2> QED
    BY <2>4, <2>5
<1>3. /\ Locked' /\ Initialised' /\ PoisonedByFailure' /\ BodyOfPlace'
      /\ OwnVerdict' /\ TimesAreOwn'
    BY DEF IInv, Edit, process, threads, Locked, Initialised, PoisonedByFailure,
           BodyOfPlace, OwnVerdict, TimesAreOwn, Catalogued
<1> QED
    BY <1>1, <1>2, <1>3 DEF IInv

\* A new process has its types, and nothing in it is locked, initialised, poisoned,
\* or has ended.
LEMMA NewProcessStep ==
    ASSUME NEW place \in {"built", "pre"}, NewProcess(place)
    PROVE  /\ once' = "new" /\ cataloger' = FALSE /\ lock' = NoTest
           /\ poisoned' = FALSE /\ failures' = 0
           /\ pc' \in [Test -> Pc] /\ \A t \in Test : pc'[t] = place
           /\ body' \in [Test -> Ending]
           /\ verdict' \in [Test -> {"none", "ok", "FAILED"}]
           /\ Locked' /\ Initialised' /\ PoisonedByFailure' /\ BodyOfPlace' /\ OwnVerdict'
<1>1. /\ once' = "new" /\ cataloger' = FALSE /\ lock' = NoTest
      /\ poisoned' = FALSE /\ failures' = 0
      /\ pc' \in [Test -> Pc] /\ \A t \in Test : pc'[t] = place
      /\ body' \in [Test -> Ending] /\ \A t \in Test : body'[t].how = "none"
      /\ verdict' \in [Test -> {"none", "ok", "FAILED"}]
    BY DEF NewProcess, Pc, Ending, NotEnded
<1>2. Locked' /\ Initialised' /\ PoisonedByFailure' /\ BodyOfPlace' /\ OwnVerdict'
    BY <1>1, CatalogAssumption
       DEF Locked, Initialised, PoisonedByFailure, BodyOfPlace, OwnVerdict
<1> QED
    BY <1>1, <1>2

\* What is written for a test is its own row: its description is that of the source,
\* and its time stays, or is none.
LEMMA UpsertRow ==
    ASSUME IInv, NEW t \in Test
    PROVE  /\ Upsert(t) \in [Catalogued \union {t} -> Row]
           /\ Upsert(t)[t].description = source[t]
           /\ \A u \in Catalogued \ {t} : Upsert(t)[u] = rows[u]
           /\ t \in Catalogued => /\ Upsert(t)[t].elapsed = rows[t].elapsed
                                 /\ Upsert(t)[t].compatible = rows[t].compatible
           /\ t \notin Catalogued => Upsert(t)[t].elapsed = Never
<1>1. rows \in [Catalogued -> Row] /\ Catalogued \subseteq Test /\ source[t] \in Edits
    BY RowsType DEF IInv, TypeOK
<1>2. CASE t \in Catalogued
  <2>1. rows[t] \in Row
    BY <1>1, <1>2
  <2>2. Upsert(t) = [rows EXCEPT ![t] = [rows[t] EXCEPT !.description = source[t]]]
    BY <1>2 DEF Upsert
  <2>3. /\ [rows[t] EXCEPT !.description = source[t]] \in Row
        /\ [rows[t] EXCEPT !.description = source[t]].description = source[t]
        /\ [rows[t] EXCEPT !.description = source[t]].elapsed = rows[t].elapsed
        /\ [rows[t] EXCEPT !.description = source[t]].compatible = rows[t].compatible
    BY <1>1, <2>1 DEF Row
  <2> QED
    BY <1>1, <1>2, <2>2, <2>3 DEF Catalogued
<1>3. CASE t \notin Catalogued
  <2> DEFINE new == [description |-> source[t], compatible |-> source[t],
                     elapsed |-> Never]
  <2>1. Upsert(t) = [u \in Catalogued \union {t} |-> IF u = t THEN new ELSE rows[u]]
    BY <1>3 DEF Upsert
  <2>2. new \in Row
    BY <1>1, CatalogAssumption DEF Row, Never
  <2>3. new.description = source[t] /\ new.elapsed = Never
    OBVIOUS
  <2> HIDE DEF new
  <2> QED
    BY <1>1, <1>3, <2>1, <2>2, <2>3 DEF Catalogued
<1> QED
    BY <1>2, <1>3

\* An expansion that writes leaves the description of the source in the row of one
\* test, and all times alone.
LEMMA ExpandStep ==
    ASSUME IInv, NEW t \in Test, Expand(t)
    PROVE  IInv'
<1>1. /\ rows' = Upsert(t) /\ dirty' = dirty \ {t} /\ unblamed' = unblamed \ {t}
      /\ NewProcess("built") /\ UNCHANGED <<source, run>>
    BY DEF Expand, ExpandAttribute
<1>2. /\ Catalogued' = Catalogued \union {t} /\ Catalogued \subseteq Test
      /\ rows' \in [Catalogued \union {t} -> Row]
    BY <1>1, UpsertRow, RowsType DEF IInv, Catalogued
<1>3. TypeOK'
    BY <1>1, <1>2, NewProcessStep DEF IInv, TypeOK
<1>4. DescriptionCurrent'
  <2>1. ASSUME NEW u \in Test \ dirty', u # t
        PROVE  \/ u \in Catalogued' /\ rows'[u].description = source'[u]
               \/ u \in unblamed' /\ (u \in Catalogued' => rows'[u].description <= source'[u])
    <3>1. u \in Test \ dirty /\ (u \in Catalogued' <=> u \in Catalogued)
      BY <1>1, <1>2, <2>1
    <3>2. u \in Catalogued => rows'[u] = rows[u]
      BY <1>1, <2>1, UpsertRow
    <3> QED
      BY <1>1, <2>1, <3>1, <3>2 DEF IInv, DescriptionCurrent
  <2>2. t \in Catalogued' /\ rows'[t].description = source'[t]
    BY <1>1, <1>2, UpsertRow
  <2> QED
    BY <2>1, <2>2 DEF DescriptionCurrent
<1>5. RowsOfThePast'
  <2>1. Never.run = 0 /\ run \in Nat /\ source[t] \in Nat
    BY CatalogAssumption DEF Never, IInv, TypeOK, Edits
  <2>2. \A u \in Catalogued' : pc'[u] = "built"
    BY <1>1, <1>2, NewProcessStep
  <2>3. /\ rows'[t].description = source[t]
        /\ \A u \in Catalogued \ {t} : rows'[u] = rows[u]
        /\ IF t \in Catalogued THEN rows'[t].elapsed = rows[t].elapsed
                              ELSE rows'[t].elapsed = Never
    BY <1>1, UpsertRow
  <2> QED
    BY <1>1, <1>2, <2>1, <2>2, <2>3 DEF IInv, RowsOfThePast
<1>6. TimesAreOwn'
  <2>1. Never.test = NoTest
    BY DEF Never
  <2>2. \A u \in Catalogued' : pc'[u] = "built"
    BY <1>1, <1>2, NewProcessStep
  <2> QED
    BY <1>1, <1>2, <2>1, <2>2, UpsertRow DEF IInv, TimesAreOwn
<1> QED
    BY <1>1, <1>3, <1>4, <1>5, <1>6, NewProcessStep DEF IInv

\* An expansion that finds no blame leaves every row as it is.
LEMMA ExpandUnblamedStep ==
    ASSUME IInv, NEW t \in Test, ExpandUnblamed(t)
    PROVE  IInv'
<1>1. /\ dirty' = dirty \ {t} /\ unblamed' = unblamed \union {t}
      /\ NewProcess("built") /\ UNCHANGED <<source, run, rows>>
    BY DEF ExpandUnblamed, ExpandAttribute
<1>2. Catalogued' = Catalogued /\ Catalogued \subseteq Test
    BY <1>1, RowsType DEF IInv, Catalogued
<1>3. TypeOK'
    BY <1>1, NewProcessStep DEF IInv, TypeOK
<1>4. DescriptionCurrent'
    BY <1>1, <1>2 DEF IInv, DescriptionCurrent, RowsOfThePast
<1>5. \A u \in Catalogued' : pc'[u] = "built"
    BY <1>1, <1>2, NewProcessStep
<1>6. RowsOfThePast' /\ TimesAreOwn'
    BY <1>1, <1>2, <1>5 DEF IInv, RowsOfThePast, TimesAreOwn
<1> QED
    BY <1>1, <1>3, <1>4, <1>6, NewProcessStep DEF IInv

\* A run starts when every test is built, with a new process.
LEMMA StartRunStep ==
    ASSUME IInv, StartRun
    PROVE  IInv'
<1>1. /\ NewProcess("pre") /\ run' = run + 1 /\ run' \in 0 .. MaxRuns /\ run \in Nat
      /\ UNCHANGED <<source, dirty, unblamed, rows>>
    BY CatalogAssumption DEF IInv, TypeOK, StartRun, build
<1>2. /\ Catalogued' = Catalogued /\ Catalogued \subseteq Test
      /\ \A u \in Catalogued : rows[u].elapsed.run \in Nat
    BY <1>1, RowsType, CatalogAssumption DEF IInv, Catalogued, Row
<1>3. TypeOK'
    BY <1>1, NewProcessStep DEF IInv, TypeOK
<1>4. DescriptionCurrent'
    BY <1>1, <1>2 DEF IInv, DescriptionCurrent
<1>5. RowsOfThePast'
    BY <1>1, <1>2 DEF IInv, RowsOfThePast
<1>6. \A u \in Catalogued' : pc'[u] = "pre"
    BY <1>1, <1>2, NewProcessStep
<1>7. TimesAreOwn'
    BY <1>1, <1>2, <1>6 DEF IInv, TimesAreOwn
<1> QED
    BY <1>1, <1>3, <1>4, <1>5, <1>7, NewProcessStep DEF IInv

-----------------------------------------------------------------------------
(* Theorems *)

\* The inductive invariant holds in every reachable state.
THEOREM Invariance == Spec => []IInv
<1>1. Init => IInv
  <2> SUFFICES ASSUME Init
               PROVE  IInv
    OBVIOUS
  <2>1. TypeOK
    <3>1. rows \in [{} -> Row] /\ {} \in SUBSET Test
      BY DEF Init
    <3>2. source \in [Test -> Edits] /\ run \in 0 .. MaxRuns
      BY CatalogAssumption DEF Init, Edits
    <3> QED
      BY <3>1, <3>2 DEF Init, TypeOK, Pc, Ending, NotEnded
  <2>2. DescriptionCurrent /\ TimesAreOwn /\ RowsOfThePast
    BY DEF Init, DescriptionCurrent, TimesAreOwn, RowsOfThePast, Catalogued
  <2>3. Locked /\ Initialised /\ PoisonedByFailure /\ BodyOfPlace /\ OwnVerdict
    BY CatalogAssumption
       DEF Init, Locked, Initialised, PoisonedByFailure, BodyOfPlace, OwnVerdict
  <2> QED
    BY <2>1, <2>2, <2>3 DEF IInv
<1>2. IInv /\ [Next]_vars => IInv'
  <2> SUFFICES ASSUME IInv, [Next]_vars
               PROVE  IInv'
    OBVIOUS
  <2>1. CASE UNCHANGED vars
    BY <2>1 DEF vars, IInv, TypeOK, Locked, Initialised, PoisonedByFailure,
                BodyOfPlace, RowsOfThePast, OwnVerdict, TimesAreOwn, DescriptionCurrent,
                Catalogued
  <2> QED
    BY <2>1, ThreadStep, EditStep, ExpandStep, ExpandUnblamedStep, StartRunStep DEF Next
<1> QED
    BY <1>1, <1>2, PTL DEF Spec

\* The types of the component.
THEOREM TypeCorrect == Spec => []TypeOK
<1>1. IInv => TypeOK
    BY DEF IInv
<1> QED
    BY <1>1, Invariance, PTL

\* Without a failure of the database, every test that has ended is reported by
\* what its own body did.
THEOREM VerdictsOwn == Spec => []OwnVerdict
<1>1. IInv => OwnVerdict
    BY DEF IInv
<1> QED
    BY <1>1, Invariance, PTL

\* The time in a row is of the row's own test; it is of this run if the body of the
\* test ended with a value in it, and of an earlier one if it left early or panicked.
THEOREM TimesOwn == Spec => []TimesAreOwn
<1>1. IInv => TimesAreOwn
    BY DEF IInv
<1> QED
    BY <1>1, Invariance, PTL

\* A test that is built is catalogued with the description in its source, but for one
\* whose lines git blame did not know: that one has no row, or its earlier one.
THEOREM DescriptionsOfSource == Spec => []DescriptionCurrent
<1>1. IInv => DescriptionCurrent
    BY DEF IInv
<1> QED
    BY <1>1, Invariance, PTL

-----------------------------------------------------------------------------
(* The safety part of RunsEnd: a thread of a run has only so many steps left, *)
(* and there is always one that can take its next step without a failure.     *)

Running(t) == pc[t] \notin {"built", "done"}

\* A mark of the Once has its reason: it is running while a thread initialises,
\* and there is no cataloger, and nothing to poison, before it is complete.
OnceHasReason ==
    /\ once = "running" => \E t \in Test : pc[t] = "initialising"
    /\ cataloger \/ poisoned => once = "complete"

\* What the next step of a thread needs, for it to do its work: a Once that is
\* not running, the mutex, and a cataloger behind it.
CanGoOn(t) ==
    /\ pc[t] = "pre" => once # "running"
    /\ pc[t] = "initialising" => lock = NoTest /\ ~poisoned
    /\ pc[t] = "postLock" => lock = NoTest
    /\ pc[t] = "postUpdate" => cataloger

SomebodyGoesOn ==
    (\E t \in Test : Running(t)) => \E t \in Test : Running(t) /\ CanGoOn(t)

\* The closure of the Once finds a mutex that is free and not poisoned, and no
\* cataloger behind it: lock().unwrap() in it neither waits nor panics, and the
\* cataloger it stores is the first.
FirstOfItsKind ==
    \A t \in Test : pc[t] = "initialising" =>
        lock = NoTest /\ ~poisoned /\ ~cataloger

\* How many steps a thread has left, at most, until its test has ended.
StepsLeft(p) ==
    CASE p = "pre"              -> 5
      [] p = "initialising"     -> 4
      [] p = "body"             -> 3
      [] p = "postLock"         -> 2
      [] p = "postUpdate"       -> 1
      [] p \in {"built", "done"} -> 0

\* A thread of a run never moves but towards its end.
GetsNearer ==
    \A t \in Test : Running(t) /\ pc'[t] # pc[t] =>
        StepsLeft(pc'[t]) < StepsLeft(pc[t])

\* A thread that is not initialising finds, and leaves, the Once alone, unless it
\* is the first one to come.
LEMMA OnceHasReasonStep ==
    ASSUME IInv, OnceHasReason, [Next]_vars
    PROVE  OnceHasReason'
<1> USE DEF IInv
<1>1. ASSUME NEW t \in Test, InitBegin(t)
      PROVE  OnceHasReason'
    <2>1. pc'[t] = "initialising" /\ UNCHANGED <<cataloger, poisoned>>
        BY <1>1 DEF InitBegin, Goto, TypeOK
    <2>2. ~cataloger /\ ~poisoned
        BY <1>1 DEF InitBegin, OnceHasReason
    <2> QED
        BY <2>1, <2>2 DEF OnceHasReason
<1>2. ASSUME NEW t \in Test, InitDone(t)
      PROVE  OnceHasReason'
    BY <1>2 DEF InitDone, OnceHasReason
<1>3. ASSUME NEW t \in Test, InitFails(t)
      PROVE  OnceHasReason'
    <2>1. once = "running"
        BY <1>3 DEF InitFails, Finish, Goto, Initialised
    <2> QED
        BY <1>3, <2>1 DEF InitFails, OnceHasReason
<1>4. ASSUME NEW t \in Test, PostFails(t)
      PROVE  OnceHasReason'
    <2>1. once = "complete" /\ once' = once
        BY <1>4 DEF PostFails, Finish, Goto, Initialised
    <2> QED
        BY <2>1 DEF OnceHasReason
<1>5. ASSUME NEW t \in Test,
             \/ Pre(t) \/ PrePanics(t) \/ BodyReturns(t) \/ BodyLeaves(t)
             \/ BodyPanics(t) \/ PostLock(t) \/ PostLockPanics(t) \/ PostUpdate(t)
      PROVE  OnceHasReason'
    <2>1. UNCHANGED <<once, cataloger, poisoned>>
        BY <1>5 DEF Pre, PrePanics, BodyReturns, BodyLeaves, BodyPanics, PostLock,
                    PostLockPanics, PostUpdate, process
    <2>2. pc[t] # "initialising" /\ \A u \in Test \ {t} : pc'[u] = pc[u]
        BY <1>5 DEF Pre, PrePanics, BodyReturns, BodyLeaves, BodyPanics, PostLock,
                    PostLockPanics, PostUpdate, EndBody, Finish, Goto, TypeOK
    <2> QED
        BY <2>1, <2>2 DEF OnceHasReason
<1>6. ASSUME NEW t \in Test, Edit(t)
      PROVE  OnceHasReason'
    BY <1>6 DEF Edit, process, threads, OnceHasReason
<1>7. ASSUME NEW place, NewProcess(place)
      PROVE  OnceHasReason'
    BY <1>7 DEF NewProcess, OnceHasReason
<1>8. CASE UNCHANGED vars
    BY <1>8 DEF vars, OnceHasReason
<1> QED
    BY <1>1, <1>2, <1>3, <1>4, <1>5, <1>6, <1>7, <1>8
       DEF Next, Thread, StartRun, Expand, ExpandUnblamed, ExpandAttribute

\* The marks of the Once have their reason in every reachable state.
LEMMA OnceInvariance == Spec => [](IInv /\ OnceHasReason)
<1>1. Init => OnceHasReason
    BY DEF Init, OnceHasReason
<1> QED
    BY <1>1, OnceHasReasonStep, Invariance, PTL DEF Spec

\* INIT.call_once: its closure never waits for the mutex, never panics at
\* lock().unwrap() and never replaces a cataloger.
THEOREM ClosureFindsNothing == Spec => []FirstOfItsKind
<1>1. IInv /\ OnceHasReason => FirstOfItsKind
    <2> SUFFICES ASSUME IInv, OnceHasReason,
                        NEW t \in Test, pc[t] = "initialising"
                 PROVE  lock = NoTest /\ ~poisoned /\ ~cataloger
        BY DEF FirstOfItsKind
    <2>1. once = "running"
        BY DEF IInv, Initialised
    <2>2. lock \notin Test
        BY <2>1 DEF IInv, Initialised, Locked
    <2> QED
        BY <2>1, <2>2 DEF IInv, TypeOK, OnceHasReason
<1> QED
    BY <1>1, OnceInvariance, PTL

\* The threads of a run never all wait for one another, for the Once or for the
\* mutex: one that has not ended can do its next piece of work.
THEOREM NobodyStuck == Spec => []SomebodyGoesOn
<1>1. IInv /\ OnceHasReason /\ FirstOfItsKind => SomebodyGoesOn
    <2> SUFFICES ASSUME IInv, OnceHasReason, FirstOfItsKind,
                        NEW t \in Test, Running(t)
                 PROVE  \E u \in Test : Running(u) /\ CanGoOn(u)
        BY DEF SomebodyGoesOn
    <2>1. CASE lock # NoTest
        <3>1. lock \in Test /\ pc[lock] = "postUpdate"
            BY <2>1 DEF IInv, TypeOK, Locked
        <3>2. cataloger
            BY <3>1 DEF IInv, Initialised
        <3> QED
            BY <3>1, <3>2 DEF Running, CanGoOn
    <2>2. CASE lock = NoTest /\ once = "running"
        <3>1. PICK u \in Test : pc[u] = "initialising"
            BY <2>2 DEF OnceHasReason
        <3> QED
            BY <2>2, <3>1 DEF FirstOfItsKind, Running, CanGoOn
    <2>3. CASE lock = NoTest /\ once # "running"
        <3>1. pc[t] # "initialising" /\ pc[t] # "postUpdate"
            BY <2>3, CatalogAssumption DEF IInv, Initialised, Locked
        <3> QED
            BY <2>3, <3>1 DEF Running, CanGoOn
    <2> QED
        BY <2>1, <2>2, <2>3
<1> QED
    BY <1>1, OnceInvariance, ClosureFindsNothing, PTL

\* A test of a run ends after at most five steps of its thread.
THEOREM StepsRunOut == Spec => [][GetsNearer]_vars
<1>1. TypeOK /\ [Next]_vars => [GetsNearer]_vars
    <2> SUFFICES ASSUME TypeOK, Next,
                        NEW t \in Test, Running(t), pc'[t] # pc[t]
                 PROVE  StepsLeft(pc'[t]) < StepsLeft(pc[t])
        BY DEF GetsNearer
    <2>1. ~StartRun
        BY DEF StartRun, Building, Running
    <2>2. Thread(t)
        <3>1. PICK u \in Test : Edit(u) \/ Expand(u) \/ ExpandUnblamed(u) \/ Thread(u)
            BY <2>1 DEF Next
        <3>2. Thread(u)
            BY <3>1 DEF Edit, Expand, ExpandUnblamed, ExpandAttribute, Building, Running
        <3>3. u = t
            BY <3>2, ThreadOwn
        <3> QED
            BY <3>2, <3>3
    <2>3. CASE Pre(t) \/ PrePanics(t) \/ InitBegin(t) \/ InitDone(t) \/ InitFails(t)
        BY <2>3 DEF Pre, PrePanics, InitBegin, InitDone, InitFails, Finish, Goto,
                    TypeOK, StepsLeft
    <2>4. CASE BodyReturns(t) \/ BodyLeaves(t) \/ BodyPanics(t)
        BY <2>4 DEF BodyReturns, BodyLeaves, BodyPanics, EndBody, Goto, TypeOK,
                    StepsLeft
    <2>5. CASE PostLock(t) \/ PostLockPanics(t) \/ PostUpdate(t) \/ PostFails(t)
        BY <2>5 DEF PostLock, PostLockPanics, PostUpdate, PostFails, Finish, Goto,
                    TypeOK, StepsLeft
    <2> QED
        BY <2>2, <2>3, <2>4, <2>5 DEF Thread
<1> QED
    BY <1>1, TypeCorrect, PTL DEF Spec

-----------------------------------------------------------------------------
(* What survives builds and runs *)

\* A row is never removed, its compatible version stays that of the first build,
\* and its time changes only when the test's own thread leaves post.
RowSurvives ==
    \A t \in Catalogued :
        /\ t \in Catalogued'
        /\ rows'[t].compatible = rows[t].compatible
        /\ rows'[t].elapsed # rows[t].elapsed =>
            pc[t] = "postUpdate" /\ pc'[t] = "done"

\* The upsert of a build and the updates of the runs together never lose a row,
\* a compatible version or another test's time.
THEOREM RowsSurvive == Spec => [][RowSurvives]_vars
<1>1. IInv /\ [Next]_vars => [RowSurvives]_vars
    <2> SUFFICES ASSUME IInv, Next, NEW t \in Catalogued
                 PROVE  /\ t \in Catalogued'
                        /\ rows'[t].compatible = rows[t].compatible
                        /\ rows'[t].elapsed # rows[t].elapsed =>
                            pc[t] = "postUpdate" /\ pc'[t] = "done"
        BY DEF RowSurvives
    <2>1. rows \in [Catalogued -> Row] /\ Catalogued \subseteq Test /\ rows[t] \in Row
        BY RowsType DEF IInv
    <2>2. CASE UNCHANGED rows
        BY <2>2 DEF Catalogued
    <2>3. ASSUME NEW u \in Test, Expand(u)
          PROVE  /\ t \in Catalogued'
                 /\ rows'[t].compatible = rows[t].compatible
                 /\ rows'[t].elapsed = rows[t].elapsed
        <3>1. rows' = Upsert(u)
            BY <2>3 DEF Expand
        <3>2. Catalogued' = Catalogued \union {u}
            BY <3>1, UpsertRow DEF Catalogued
        <3> QED
            BY <3>1, <3>2, UpsertRow
    <2>4. ASSUME NEW u \in Test, PostUpdate(u)
          PROVE  /\ t \in Catalogued'
                 /\ rows'[t].compatible = rows[t].compatible
                 /\ rows'[t].elapsed # rows[t].elapsed =>
                     pc[t] = "postUpdate" /\ pc'[t] = "done"
        <3>1. pc[u] = "postUpdate" /\ pc'[u] = "done"
            BY <2>4 DEF PostUpdate, Finish, Goto, IInv, TypeOK
        <3>2. Catalogued' = Catalogued /\ \A v \in Catalogued \ {u} : rows'[v] = rows[v]
            BY <2>1, <2>4 DEF PostUpdate, Catalogued
        <3>3. u = t => rows'[t].compatible = rows[t].compatible
            BY <2>1, <2>4 DEF PostUpdate, Row
        <3> QED
            BY <3>1, <3>2, <3>3
    <2> QED
        BY <2>2, <2>3, <2>4
           DEF Next, Edit, ExpandUnblamed, StartRun, Thread, Pre, PrePanics, InitBegin, InitDone,
               InitFails, BodyReturns, BodyLeaves, BodyPanics, PostLock,
               PostLockPanics, PostFails
<1> QED
    BY <1>1, Invariance, PTL DEF Spec

============================================================================
