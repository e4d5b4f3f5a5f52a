---------------------------- MODULE TestCatalog ----------------------------
(***************************************************************************)
(* The catalog of the connector's own tests (test-catalog/src/lib.rs and   *)
(* the attribute of proc-test-catalog/src/lib.rs).  Every build expands    *)
(* the attribute of the tests that changed, which writes the row of a test *)
(* if git blame yields anything for its lines, and else writes nothing;    *)
(* every run starts the tests in parallel threads of a new process, where  *)
(* the rewritten test calls pre, its own body, and post, which stores the  *)
(* time the body took.  The threads share a Once and a mutex around        *)
(* Option<Cataloger>; std's rules of poisoning apply to both.  The table   *)
(* is in a SQLite file that outlives the processes; a statement on it may  *)
(* fail (locked or unwritable file), and then nothing is written.          *)
(***************************************************************************)
EXTENDS Integers, FiniteSets

CONSTANTS
    Test,           \* the test functions: distinct (file, name) pairs
    NoTest,         \* holder of an unlocked mutex
    MaxEdits,       \* bound: how often the source of a test is edited
    MaxEdited,      \* bound: how many tests are edited
    MaxRuns,        \* bound: how often the tests are run
    MaxUnblamed     \* bound: how many tests git blame knows nothing of

ASSUME CatalogAssumption ==
    /\ IsFiniteSet(Test) /\ Test # {}
    /\ NoTest \notin Test
    /\ MaxEdits \in Nat
    /\ MaxRuns \in Nat
    /\ MaxEdited \in Nat /\ MaxUnblamed \in Nat

VARIABLES
    source,         \* source[t]: how often the attributes of t were edited
    dirty,          \* the tests whose attribute the next build expands
    unblamed,       \* history: the tests whose last expansion wrote nothing
    rows,           \* the table: the row of every catalogued test
    run,            \* the number of the current or the last run
    once,           \* INIT of the test process
    cataloger,      \* CATALOGER holds Some(cataloger)
    lock,           \* holder of the CATALOGER mutex
    poisoned,       \* the CATALOGER mutex is poisoned
    pc,             \* where the thread of each test is
    body,           \* history: how each body ended in this run, and its result
    verdict,        \* what the test harness reports in this run
    failures        \* history: SQLite failures in this run

build   == <<source, dirty, unblamed>>
process == <<once, cataloger, lock, poisoned>>
threads == <<pc, body, verdict>>
vars    == <<source, dirty, unblamed, rows, run, once, cataloger, lock, poisoned,
             pc, body, verdict, failures>>

Edits == 0 .. MaxEdits
Never == [test |-> NoTest, run |-> 0]    \* elapsed is NULL

\* A row: the attributes as of some edit, and whose time of which run it shows.
Row == [description : Edits, compatible : Edits,
        elapsed : [test : Test \union {NoTest}, run : 0 .. MaxRuns]]

Pc == {"built", "pre", "initialising", "body", "postLock", "postUpdate", "done"}

\* How a body ends: with a value (post follows), early, or in a panic; and what
\* the test would report if the catalog did not exist.
Ending == [how : {"none", "value", "early", "panic"},
           own : {"none", "ok", "FAILED"}]
NotEnded == [how |-> "none", own |-> "none"]

\* The type of every variable of the component.
TypeOK ==
    /\ source \in [Test -> Edits]
    /\ dirty \subseteq Test
    /\ unblamed \subseteq Test
    /\ \E T \in SUBSET Test : rows \in [T -> Row]
    /\ run \in 0 .. MaxRuns
    /\ once \in {"new", "running", "complete", "poisoned"}
    /\ cataloger \in BOOLEAN
    /\ lock \in Test \union {NoTest}
    /\ poisoned \in BOOLEAN
    /\ pc \in [Test -> Pc]
    /\ body \in [Test -> Ending]
    /\ verdict \in [Test -> {"none", "ok", "FAILED"}]
    /\ failures \in Nat

Init ==
    /\ source = [t \in Test |-> 0]
    /\ dirty = Test
    /\ unblamed = {}
    /\ rows = [t \in {} |-> 0]
    /\ run = 0
    /\ once = "new"
    /\ cataloger = FALSE
    /\ lock = NoTest
    /\ poisoned = FALSE
    /\ failures = 0
    /\ pc = [t \in Test |-> "built"]
    /\ body = [t \in Test |-> NotEnded]
    /\ verdict = [t \in Test |-> "none"]

\* A new test process whose threads are all at `place'; what the threads of the last
\* one have done is over.
NewProcess(place) ==
    /\ pc' = [t \in Test |-> place]
    /\ body' = [t \in Test |-> NotEnded]
    /\ verdict' = [t \in Test |-> "none"]
    /\ once' = "new"
    /\ cataloger' = FALSE
    /\ lock' = NoTest
    /\ poisoned' = FALSE
    /\ failures' = 0

Building == \A t \in Test : pc[t] \in {"built", "done"}
Catalogued == DOMAIN rows

-----------------------------------------------------------------------------
(* Building: the attribute test_catalogue *)

Edit(t) ==
    /\ Building
    /\ source[t] < MaxEdits
    /\ Cardinality({u \in Test : source[u] > 0} \union {t}) <= MaxEdited
    /\ source' = [source EXCEPT ![t] = @ + 1]
    /\ dirty' = dirty \union {t}
    /\ UNCHANGED <<unblamed, rows, run, process, threads, failures>>

\* Wrong on purpose: a conflict replaces the row by the columns of the insert.
UpsertReplaces(t) ==
    [u \in Catalogued \union {t} |->
        IF u = t THEN [description |-> source[t], compatible |-> source[t]]
                 ELSE rows[u]]

\* What catalogue() writes: a new row, or on a conflict of the key an update of
\* the columns it lists, which are all but compatible_version and elapsed.
Upsert(t) ==
    IF t \in Catalogued
    THEN [rows EXCEPT ![t].description = source[t]]
    ELSE [u \in Catalogued \union {t} |->
            IF u = t THEN [description |-> source[t], compatible |-> source[t],
                           elapsed |-> Never]
                     ELSE rows[u]]

\* A build expands the attribute of a changed test into a new test program.
ExpandAttribute(t) ==
    /\ Building
    /\ t \in dirty
    /\ dirty' = dirty \ {t}
    /\ NewProcess("built")
    /\ UNCHANGED <<source, run>>

\* Wrong on purpose: a conflict leaves the row as it is (DO NOTHING).
ExpandDoNothing(t) ==
    /\ ExpandAttribute(t)
    /\ rows' = IF t \in Catalogued THEN rows ELSE Upsert(t)
    /\ unblamed' = unblamed \ {t}

\* The fold over the chunks of git blame yields both times: the row is written.
\* If a step of catalogue() fails, unwrap() or expect() panics, the build fails,
\* and t is expanded next time: for all the variables that is no step at all.
Expand(t) ==
    /\ ExpandAttribute(t)
    /\ rows' = Upsert(t)
    /\ unblamed' = unblamed \ {t}

\* git blame yields no chunk, and `if let' does not match: nothing is written,
\* and nothing is said.
ExpandUnblamed(t) ==
    /\ ExpandAttribute(t)
    /\ Cardinality(unblamed \union {t}) <= MaxUnblamed
    /\ unblamed' = unblamed \union {t}
    /\ UNCHANGED rows

\* The build has succeeded: a new process starts a thread for every test.
StartRun ==
    /\ Building
    /\ dirty = {}
    /\ run < MaxRuns
    /\ run' = run + 1
    /\ NewProcess("pre")
    /\ UNCHANGED <<build, rows>>

-----------------------------------------------------------------------------
(* Running: pre, the body and post of a test *)

Goto(t, from, to) ==
    /\ pc[t] = from
    /\ pc' = [pc EXCEPT ![t] = to]

\* The thread of t panics outside of its body, or ends with its own result.
Finish(t, from, result) ==
    /\ Goto(t, from, "done")
    /\ verdict' = [verdict EXCEPT ![t] = result]
    /\ UNCHANGED body

\* Wrong on purpose: a flag instead of a Once, so that a thread goes on while
\* another one is still initialising.
PreSkipsRunning(t) ==
    /\ once \in {"complete", "running"}
    /\ Goto(t, "pre", "body")
    /\ UNCHANGED <<build, rows, run, process, body, verdict, failures>>

\* INIT.call_once returns: the initialisation is complete.
Pre(t) ==
    /\ once = "complete"
    /\ Goto(t, "pre", "body")
    /\ UNCHANGED <<build, rows, run, process, body, verdict, failures>>

\* INIT.call_once panics: the initialisation of another thread has panicked.
PrePanics(t) ==
    /\ once = "poisoned"
    /\ Finish(t, "pre", "FAILED")
    /\ UNCHANGED <<build, rows, run, process, failures>>

\* The first thread runs the closure; the others wait.
InitBegin(t) ==
    /\ once = "new"
    /\ Goto(t, "pre", "initialising")
    /\ once' = "running"
    /\ UNCHANGED <<build, rows, run, cataloger, lock, poisoned, body, verdict,
                   failures>>

InitDone(t) ==
    /\ Goto(t, "initialising", "body")
    /\ lock = NoTest
    /\ cataloger' = TRUE
    /\ once' = "complete"
    /\ UNCHANGED <<build, rows, run, lock, poisoned, body, verdict, failures>>

\* create_dir_all, open or assert_schema fails: the closure panics.
InitFails(t) ==
    /\ Finish(t, "initialising", "FAILED")
    /\ once' = "poisoned"
    /\ failures' = failures + 1
    /\ UNCHANGED <<build, rows, run, cataloger, lock, poisoned>>

\* The body of t ends in the given way and goes on at `to'.
EndBody(t, how, own, to) ==
    /\ Goto(t, "body", to)
    /\ body' = [body EXCEPT ![t] = [how |-> how, own |-> own]]
    /\ verdict' = IF to = "done" THEN [verdict EXCEPT ![t] = own] ELSE verdict

\* The body ends with a value, which becomes the test's result after post.
BodyReturns(t) ==
    /\ \E own \in {"ok", "FAILED"} : EndBody(t, "value", own, "postLock")
    /\ UNCHANGED <<build, rows, run, process, failures>>

\* The body leaves the rewritten function (`return' or `?' of a test that is
\* not async), with or without an error: post does not run.
BodyLeaves(t) ==
    /\ \E own \in {"ok", "FAILED"} : EndBody(t, "early", own, "done")
    /\ UNCHANGED <<build, rows, run, process, failures>>

\* The body panics: the thread unwinds, post does not run.
BodyPanics(t) ==
    /\ EndBody(t, "panic", "FAILED", "done")
    /\ UNCHANGED <<build, rows, run, process, failures>>

\* CATALOGER.lock().unwrap() in post.
PostLock(t) ==
    /\ lock = NoTest
    /\ ~poisoned
    /\ Goto(t, "postLock", "postUpdate")
    /\ lock' = t
    /\ UNCHANGED <<build, rows, run, once, cataloger, poisoned, body, verdict,
                   failures>>

PostLockPanics(t) ==
    /\ lock = NoTest
    /\ poisoned
    /\ Finish(t, "postLock", "FAILED")
    /\ UNCHANGED <<build, rows, run, process, failures>>

\* Wrong on purpose: the update lacks `and name = ?'.
PostUpdateWholeFile(t) ==
    /\ Finish(t, "postUpdate", body[t].own)
    /\ cataloger
    /\ rows' = [u \in Catalogued |->
                   [rows[u] EXCEPT !.elapsed = [test |-> t, run |-> run]]]
    /\ lock' = NoTest
    /\ UNCHANGED <<build, run, once, cataloger, poisoned, failures>>

\* guard.as_ref().unwrap(), the update of the test's own row, and the result.
PostUpdate(t) ==
    /\ Finish(t, "postUpdate", body[t].own)
    /\ cataloger
    /\ rows' = IF t \in Catalogued
               THEN [rows EXCEPT ![t].elapsed = [test |-> t, run |-> run]]
               ELSE rows
    /\ lock' = NoTest
    /\ UNCHANGED <<build, run, once, cataloger, poisoned, failures>>

\* Wrong on purpose: the panic does not release the mutex.
PostFailsLocked(t) ==
    /\ Finish(t, "postUpdate", "FAILED")
    /\ poisoned' = TRUE
    /\ failures' = IF cataloger THEN failures + 1 ELSE failures
    /\ UNCHANGED <<build, rows, run, once, cataloger, lock>>

\* as_ref() is None, or the statement fails: unwrap() panics under the guard,
\* which poisons the mutex for the rest of the process.
PostFails(t) ==
    /\ Finish(t, "postUpdate", "FAILED")
    /\ poisoned' = TRUE
    /\ lock' = NoTest
    /\ failures' = IF cataloger THEN failures + 1 ELSE failures
    /\ UNCHANGED <<build, rows, run, once, cataloger>>

-----------------------------------------------------------------------------

Thread(t) ==
    \/ Pre(t) \/ PrePanics(t) \/ InitBegin(t) \/ InitDone(t) \/ InitFails(t)
    \/ BodyReturns(t) \/ BodyLeaves(t) \/ BodyPanics(t)
    \/ PostLock(t) \/ PostLockPanics(t) \/ PostUpdate(t) \/ PostFails(t)

Next ==
    \/ \E t \in Test : Edit(t) \/ Expand(t) \/ ExpandUnblamed(t) \/ Thread(t)
    \/ StartRun

Spec == Init /\ [][Next]_vars

\* The threads of a run go on; nobody has to build or to start a run.
FairSpec == Spec /\ \A t \in Test : WF_vars(Thread(t))

-----------------------------------------------------------------------------
(* Properties *)

\* If the database never fails, the harness reports of every test what its own
\* body did: a test that panics does not spoil the ones that share the mutex.
OwnVerdict ==
    \A t \in Test :
        pc[t] = "done" /\ failures = 0 => verdict[t] = body[t].own

\* The time in a row is the time of the row's own test, and, if its body ended
\* with a value in this run and the database has not failed, of this run; a test
\* that left its body early or panicked still shows the time of an earlier run.
TimesAreOwn ==
    \A t \in Catalogued :
        /\ rows[t].elapsed.test \in {t, NoTest}
        /\ pc[t] = "done" /\ body[t].how = "value" /\ failures = 0
            => rows[t].elapsed = [test |-> t, run |-> run]
        /\ pc[t] = "done" /\ body[t].how # "value" => rows[t].elapsed.run < run

\* A test is catalogued, with the description it has in the source, as soon as
\* it is built, however the catalog found it, unless git blame knew nothing of its
\* lines: then it is not catalogued, or its row is that of an earlier source.
DescriptionCurrent ==
    \A t \in Test \ dirty :
        \/ t \in Catalogued /\ rows[t].description = source[t]
        \/ t \in unblamed /\ (t \in Catalogued => rows[t].description <= source[t])

\* No test waits for ever for the Once or the mutex, poisoned or not.
RunsEnd == \A t \in Test : pc[t] = "pre" ~> pc[t] = "done"

=============================================================================
