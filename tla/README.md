# A TLA+ model of libtaos-rs

`libtaos` is a Rust connector for the TDengine time-series database. It wraps
the C client library (`libtaos`) in safe types, offers the same query interface
over TDengine's HTTP endpoint (feature `rest`), and ships two auxiliary crates,
`test-catalog` and `proc-test-catalog`, that record every test of the connector
in a SQLite file together with its git history. This directory holds TLA+
modules translated from that code, the TLC configurations that check them, and
the TLAPS proofs about them.

## 1. Inventory

Paths are relative to the repository; `src/client.rs` and so on are the crate's
own sources.

| component | state it keeps | operations | what is hard |
|---|---|---|---|
| Native connection (`src/client.rs` 10-166) | `TAOS_INIT_LOCK` (a mutex around the number of connections), the library's global state, one raw handle per `Taos` | `Taos::new`, calls through `&Taos`, `Drop` | `Taos` is `Send + Sync`; connect and close run outside the mutex; connect may fail after the count was raised |
| Result sets (`src/client.rs` 168-296) | a C result and the library's cursor in it | `CTaosResult::new`, `fetch_fields`, `Drop` | NULL means the end or an error; raw pointers into the library's row buffer; a panic between two rows; frees on every path |
| Prepared statements (`src/stmt.rs`) | the C statement: a staged row, a batch | `prepare`, `set_tbname`, `set_tbname_tags`, `bind`, `bind_inplace`, `execute`, `Drop` | partial failures between `bind_param`, `add_batch` and `execute`; a retry by recursion; an error that is turned into success |
| Bound parameters (`src/stmt/bind.rs`) | a C array of `TAOS_BIND`, each owning its buffers | the `IntoBindParam` conversions, `Drop` | every buffer freed once, by the allocator that made it |
| REST connection (`src/rest.rs`) | an HTTP client, nothing per session | `Taos::query`/`exec`, JSON decoding | time-outs, one retry of a request that may have been executed |
| Connection configuration and pool (`src/lib.rs`) | host, port, user, database | `TaosCfg::connect`, `port + 11` for REST, `r2d2::ManageConnection` | dead connections handed out, `u16` overflow |
| Fields, time stamps (`src/field.rs`, `src/timestamp.rs`) | none | accessors, `FromStr`, `Timestamp` conversions | precisions, both sides of the epoch |
| Table descriptions (`src/field.rs` 12-101, `src/client.rs` 211-229) | none | `TaosDescribe::from`, the column metadata of a query | columns and tags told apart; types without a name, or without a number |
| Schemaless insert (`src/schemaless.rs`) | none | `schemaless_insert` | one C call; its result is freed on both paths; the C strings outlive the call |
| Error codes (`src/error.rs`, `TaosError` in `src/lib.rs`) | the errors that the program keeps | `FromPrimitive`, `success`, predicates; the ways of an error number | four ways decode a number, each by itself; where the text of an error lives |
| C bindings (`src/bindings*.rs`, `build.rs`) | none | declarations | generated |
| Test catalog (`test-catalog/src/lib.rs`) | a `Once`, a mutex around `Option<Cataloger>`, a SQLite table | `Cataloger::new`, `pre`, `post`, the module functions of the same names | test threads share one guard; a panic under it poisons it; `post` without its `pre` |
| Git history of a test (`test-catalog/src/lib.rs` 247-283) | the fold over `git blame` chunks | `post` | which commit is the last one |
| Catalog attribute (`proc-test-catalog/src/lib.rs`) | none | rewrites a test function into `pre; body; post` | early returns and panics skip `post` |
| Catalog command (`test-catalog/src/main.rs`) | none | prints the table | - |

How they interact. A program holds `Taos` values, native or REST. A native
value is used through `&Taos` by any number of threads at once and produces
`CTaosResult` and `Stmt` values that keep raw pointers into the C library; the
connections of the process meet in `TAOS_INIT_LOCK`. A REST value sends every
statement as one HTTP request to a server that keeps executing it whether or not
the client still listens. The pool hands `Taos` values to threads. The tests of
the connector run in parallel threads of one process and share one `Cataloger`.

What makes each part correct:

* *Native connection*: the library is up whenever a connection is opened, used
  or closed, is initialised once per life and torn down by the last drop only.
* *Result sets*: every row the server sent is delivered once, the result is
  freed once and never used afterwards.
* *Prepared statements*: a row is in the table only if it was bound, a row is
  in one batch at most, and `Ok` from `execute` means that the batch is stored.
* *REST connection*: the answer belongs to the statement it was asked for, a
  statement is executed at most as often as it is sent, a call always returns.
* *Errors and descriptions*: a failure is reported as one and under the code of
  its number on whichever way it comes, an error keeps its own text, and what
  is said of a table is complete and true.
* *Test catalog*: a test that was built is in the table with the description in its
  source, and one that ends normally with the time it took, unless `git blame` knew
  nothing of its lines; one failing test does not spoil the others.
* *Git history*: `created_at`, the authors and the last commit are those of the
  lines of the test.

## 2. Modules

Every module states the code it models in its header; `PROJECT.json` maps every
definition to its lines. `MC*` modules only give constants their values for TLC,
`*Proofs` modules hold the theorems. An operator that is introduced by "Wrong on
purpose" is not part of any specification: it is a definition with a plausible
bug, kept next to the right one to show that a property notices the difference.

| module | what it is | proofs |
|---|---|---|
| `LibraryLifetime` | abstract: init, open, close and clean-up of the C library | |
| `TaosConnection` | `Taos::new`, calls through `&Taos`, `Drop for Taos`, `TAOS_INIT_LOCK`; implements `LibraryLifetime` | `TaosConnectionProofs` |
| `CTaosResult` | results: ownership and `Drop`, `raw_query`, `exec`, `query`, `fetch_fields`, `schemaless_insert`, the probe of `execute` | `CTaosResultProofs` |
| `BatchInsert` | abstract: add to a batch, flush it or fail | |
| `TaosStmt` | one prepared statement; implements `BatchInsert` | `TaosStmtProofs` |
| `StatementService` | abstract: begin a call, execute its statement for one of two attempts, return | |
| `TaosRest` | `raw_query`, `exec` and `query` over HTTP, the network and the server; implements `StatementService` | `TaosRestProofs` |
| `TaosCode` | operators: the table of error codes and its default | |
| `TaosDescribe` | operators: the types' names and numbers, descriptions, column metadata | |
| `TaosCalls` | what every call of the API returns: errors with their codes and texts, schemas; composes `TaosCode` and `TaosDescribe` | `TaosCallsProofs` |
| `TestCatalog` | the attribute, the test threads, `Once`, mutex and table | `TestCatalogProofs` |
| `Blame` | the fold over the chunks of `git blame` | `BlameProofs` |
| `FieldValues` | one value: bound, copied, freed, and read back over both transports | `FieldValuesProofs` |

The components meet in few places, and the modules are cut there. A connection
and its results and statements share nothing in the connector's memory but the
C handle, so `CTaosResult` and `TaosStmt` take the connection as open, and
`TaosConnection` takes a call as one borrow of the `Taos` value. `Stmt::execute`
runs a query of its own: its effect on the statement is `TaosStmt!Probe`, its
effect on the results `CTaosResult!Probe`. The three abstract specifications are
instantiated inside the modules that implement them, checked as properties and proved.

### TaosConnection (`src/client.rs` 10-166, feature `cleanup`)

| state | code |
|---|---|
| `lock`, `n` | `TAOS_INIT_LOCK: Mutex<u32>`: its holder and the count |
| `libUp` | between `taos_init` and `taos_cleanup` |
| `open`, `taos` | handles between `taos_connect` and `taos_close`; handles owned by a live `Taos` |
| `pc`, `arg` | where a thread is and the handle it works on |
| `failed` | history: `taos_connect` calls that returned NULL |

The wait for the mutex, the body under it, and `taos_connect` and `taos_close`,
which are called outside of it, are actions of their own. The borrow checker is
part of the model: a value is dropped only when no thread is in a call on it.
The properties are that the library is up in every call that needs it, that the
count is exact in every interleaving and never decremented at 0, that the last
drop tears the library down, and that all of it implements `LibraryLifetime`.

### CTaosResult (`src/client.rs` 109-147 and 168-296, `src/schemaless.rs`, `src/stmt.rs` 56)

`answer`, `live` and `cursor` are the library's: what a statement was answered,
the results that are not freed yet, how many rows of each were handed out. `pc`,
`method`, `res`, `rows` are a task's: `res` is the pointer in its `CTaosResult`,
`rows` what the loop of `fetch_fields` has collected. A row stands for its
cells. A result may contain a value of a type that is not known (`odd`), at which
the conversion is `unreachable!()` and the task unwinds. A result that
`raw_query` returned may be fetched more than once. `FetchEnd` keeps both
meanings of a NULL from `taos_fetch_row`: the end, or an error nobody asks for.

### TaosStmt (`src/stmt.rs` 15-169)

`table`, `staged`, `batch` are the C statement: the table named last, the row
between `bind_param` and `add_batch`, and the rows that the next execute sends.
`stored` is the server. Every call into the library is an action and may fail,
`MaxErrors` times in a run. A failed `taos_stmt_execute` may have stored any
part of the batch and may keep or lose the batch; a failed `bind_param` or
`add_batch` may keep or lose the staged row. `bind_inplace` goes back to
`inplaceParam` when `add_batch` fails, as the recursive call does, and `execute`
goes through `probe` when the error is `RpcFqdnError`. `acked`, `everAcked`,
`sent`, `confirmed`, `vouched` are histories of what the caller was told: an
execute is *confirmed* by `taos_stmt_execute` and *vouched* for by the probe.

### TaosRest (`src/rest.rs` 12-17 and 181-258)

A call is one request with an identity (task, number of the call, attempt). `reqs`
and `resps` are sets, so requests and responses overtake each other; a request may be
executed at any time, also after its sender has given up, or be lost. `pc`
holds the attempt and whether the head or the body is awaited: only a failure of
`send()` is retried. A response whose sender does not wait for it disappears.
`databases` is the server's state under `create database` and `drop database if
exists`, the statements at the start of `examples/demo.rs`. `executed` is a
history. `SendTooLong` is the assertion on the length of a statement.

`StatementService` is what is left when requests, responses, heads, bodies and time-outs are
taken away: `calling` is `pc` not idle (`Calling`), and `results`, `databases` and
`executed` are the same. It allows a statement to be executed after its call has
returned, and twice, once for each attempt, but no execution for an attempt later than the one the
call returned from, and no answer but that of an execution of this call for the attempt it returned from.

### TaosCode, TaosDescribe and TaosCalls (`src/error.rs`, `src/field.rs`, `src/lib.rs` 43-58, `src/client.rs`, `src/stmt.rs`, `src/rest.rs`)

| state | code |
|---|---|
| `stmt`, `buffer` | the life of a statement; the call whose text its error buffer holds |
| `errors` | the `TaosError`s that the program keeps: the call, the code, and where the text is |
| `answers` | history: way, error number and what the call returned for it |
| `schema` | what a description or a query last said of a table |
| `calls` | the number of calls, which also names the text of a failed one |

`TaosCode` holds the 351 numbers of the enum, family by family; a number that
is missing becomes `Unknown`, by the derived default. There are four ways on which an error
number becomes a `TaosError`, and each decodes it by itself: `CTaosResult::new`
and `load_table_info` mask the low half and compare the code with success;
`Stmt::err_or` tests all 32 bits and masks afterwards (and `execute` in between,
`Vouched`, forgets `RpcFqdnError`); over HTTP the server has masked it. The text
is a `String` of its own, or a literal, on all of them but `err_or`, whose `to_owned` of a
`Cow` leaves a text that is UTF-8 in the buffer of the C statement. The next
failure on that statement overwrites the buffer, and closing it frees it, which
`Taos::stmt` does before its caller sees the error.

`TaosDescribe` translates the partition of the rows of `describe` at the note
`TAG` (`Side`, one row after the other), the arms of `from_str` with its panic on a name it does not know (`ToLowercase`,
`HasName`, `FromStr`), and the two ways on which the
column metadata of a query is read: the native one makes a number it does not
know `Unknown`, the JSON one refuses the whole response. A table is a sequence
of columns as the server has them, with types that this version of the connector does not know.
What the server and the library say is a table of its own: `LibraryNumber` are the constants of the C library's header
(`bindings/taos.rs` 97-111), `TextOf` the words of SQL, in capitals. The connector's tables, the
discriminants of `TaosDataType` (`Types`) and the arms of `from_str` (`IntegerArms` and the others),
are compared with them, so two numbers or two words that are swapped in the connector show (`TypesSwapped`, `IntegerArmsSwapped`).

### TestCatalog (`test-catalog/src/lib.rs`, `proc-test-catalog/src/lib.rs`)

`source`, `dirty` are the attributes in the source files and the tests that the
next build expands; `rows` is the SQLite table, which outlives runs. In a run
every test is a thread: `pre` through the `Once` with its waiting threads and
its poisoning, the body, which ends with a value, early, or in a panic, and
`post` under the mutex with its poisoning. SQLite may fail in the
initialisation and in `post`. Expanding an attribute has two outcomes: `Expand`
writes the row, `ExpandUnblamed` writes none, because `git blame` yielded no chunk
for the lines of the test and the `if let` of `catalogue()` does not match
(`test-catalog/src/lib.rs` 247-284; `Matches` in `Blame` is that condition).
Nothing is reported in that case: a new test stays out of the catalog, and a test that was catalogued
keeps the row of its earlier source, also while later runs add their times to it. `unblamed` is the history of
it, and `DescriptionCurrent` says that it is the only way to a missing or an outdated description.
`TimesAreOwn` says as much of the times: a test that left its body early or panicked
shows the time of an earlier run. `Upsert` keeps apart the two columns that matter:
`description`, which the `ON CONFLICT` clause lists, and `compatible`, which it
does not: after an edit of `compatible_version` the row of a test that was
catalogued before keeps the old one (`test-catalog/src/lib.rs` 292). That is plain in the
statement, so it is modelled and no run is spent on it.

### Blame (`test-catalog/src/lib.rs` 247-283)

The closure of the fold is one action per chunk, with one operator per field of the
accumulator. `Matches` is the `if let` around what `catalogue()` writes: both times were found. `chunks` is chosen at the beginning, so TLC and the proofs see all lists.

### FieldValues (`src/stmt/bind.rs`, `src/client.rs` 237-279, `src/rest.rs` 53-135, `src/timestamp.rs`)

The life of one value is a short sequence: `IntoBindParam` (or its panic),
`CopyParam`, which is the library, `DropParam`, and then the two reads in either
order. `param` is what the library is given: a type, the content of the buffer and the
length it is told; `blocks` are the heap blocks that `free()` has to find. Numbers
are kept as images in two's complement, so that a read with the wrong width or
sign shows; `Half` gives each width its size, and TLC uses widths of 4 to 32
numbers. A text is a sequence of bytes, with one that is not UTF-8, one NUL and the
three bytes of U+FFFD told apart. Instants are ticks from the epoch, negative
before it. `InType` says which numbers, texts and instants the Rust types admit; it is what the
values of `Bound` are taken from, so that a text is one `String` can hold, and part of the type invariant of what is read. `format` is the endpoint the program named in `Taos::new`: one that
writes times as text, as `TaosCfg` uses, or one that writes them as numbers,
which `value_to_field` takes for milliseconds (`src/rest.rs` 97-101). On a database of micro- or nanoseconds that is another
instant: one second of a microsecond database is read natively as one second and over such an endpoint as a thousand. `TransportsAgree` says so
exactly: the two reads are equal, but for JSON, for bytes that are not UTF-8 and for the times of the finer precisions,
of which a text gives the millisecond they lie in and a number the count of ticks as if it were one of milliseconds.

## 3. Runs

| run | instance | states | what it shows |
|---|---|---|---|
| `taos` | 3 threads, 3 handles, 1 failed connect | 7.9 thousand | the library is up where it is used, the count is exact, the refinement of `LibraryLifetime`, and `TornDownEventually` |
| `taos_last_closed` | 2 threads, 2 handles | violation | after one failed `taos_connect` the library is never cleaned up |
| `result` | 2 tasks, 3 results of up to 2 rows, symmetry | 528 thousand | ownership, leaks and rows on every way through a method |
| `stmt` | 3 rows, 2 tables, 2 failing calls | 226 thousand | rows are batched once, kept until execute, stored when confirmed; every method returns |
| `stmt_ok` | the same with fewer rows | violation | an execute that is `Ok` and has not stored its rows |
| `rest` | 2 tasks, 5 statements, a private and a shared database | 66 thousand | the refinement of `StatementService`: whose answers, how many executions; the state of the server; every call returns |
| `calls` | 4 calls, 2 statements, 5 error numbers, 4 tables, symmetry | 987 thousand | failures reported and by their code, texts of kept errors, schemas |
| `errors_text` | the same with 2 calls | violation | an error of `Taos::stmt` whose text is in a closed statement |
| `catalog` | 3 tests, one of them edited once, 2 unknown to `git blame`, 2 runs | 415 thousand | verdicts, times and descriptions, every thread ends |
| `blame_fold` | all lists of up to 4 chunks of 3 commits, 2 authors | 7.5 thousand | creation time, authors, one last commit |
| `blame_latest` | lists of up to 3 chunks | violation | the last commit is not the latest |
| `values` | all integers and time stamps of small widths, texts of up to 3 bytes | 12 thousand | a bound value is read back, over both transports, alike or as `TransportsAgree` says; times; buffers |

Why the bounds are enough. `taos`: with three threads one can be in `Taos::new`,
one before and one after the decrement in `Drop`, which is every combination the
count has to cover; `HandleLeft` keeps `taos_connect` supplied with handles and
`MaxFailed` bounds a history. `result`: the second task and the third result are
there for a freed result to be mistaken for another one; two rows tell the first,
a middle and the end of a fetch apart. `stmt`: three rows make a batch that is
stored in part, two tables a row bound for a table that was replaced, two
failures a retry that fails again and a failed execute with a failed probe.
`rest`: two tasks so that answers could be mixed up; each call can send both of its
requests, and all orders of their executions are in the state space. `calls`: four
calls are a failure on one statement, another on each of the two, and any other
call; the numbers are a code with and without the sign bit, one that no variant has, the one that `execute`
asks the server about, and success, so that every pair of ways meets on every kind of
number; the tables have every type as a column and as a tag, no tags, JSON, and a type
that the connector does not know. `catalog`:
three threads are an initialiser, a thread that waits, and one that comes late;
two runs and an edit are needed for a row to be older than its source or its
test. One edited test (`MaxEdited`) is enough for that, as no step of a build touches the row of another test,
and `MaxUnblamed` of 2 lets it and a test that was never catalogued be unknown to `git blame` at once, next to a third one that is not. `blame_fold`: four chunks of three commits contain every order of a
repeated commit. `values`: the least and the greatest number of every width, both sides of
the epoch, times that are no multiple of a millisecond, and texts in which a byte that is
replaced comes first, last and in between. Deadlock is not checked where a program may simply
end: a statement that was closed, a finished script, a finished run, a folded
list, results that are all used up, calls that were all made, a value that was read. `taos` has no such end and checks it.

The violations are disagreements between the code and what its documentation,
comments or tests say; `PROJECT.json` quotes the lines:

1. `src/client.rs` 61: a failed connect leaves the count raised, so "clean_up
   after the last connection closed" does not happen.
2. `src/stmt.rs` 59: an execute that failed with `RpcFqdnError` becomes `Ok`
   when an unrelated query is answered; the tests count the rows after `Ok`.
3. `src/stmt.rs` 33: the text of an error borrows the statement, which is closed
   when `Taos::stmt` fails; `TaosError` declares it `'static`.
4. `test-catalog/src/lib.rs` 276: the fold compares with the creation time
   where it means the last commit time.

Two more are in the models without a run of their own, because the properties of a
passing run already say what happens. The retry of `src/rest.rs` 229 repeats
a statement that may have been executed, so a `create database` that was done
can be reported as refused: `RefusedMeansDone` states that after a drop that was
`Ok` this is the only way to a refusal. And the upsert leaves out `compatible_version` (see `TestCatalog`).

## 4. Fairness

* `TaosConnection`: weak fairness of `Inside(t)`, that is, a thread inside the connector
  keeps running. Nobody has to enter it. The mutex of std is not fair and is
  not assumed to be: `TornDownEventually` is therefore about programs that stop
  connecting, in which only finitely many acquisitions compete.
* `TaosStmt`: weak fairness of `Inside`: the thread in a method goes on. That
  `bind_inplace` returns follows from the bound on failures only; without it the
  code recurses as long as `add_batch` fails.
* `TaosRest`: weak fairness of `Waiting(t)`: if nothing else happens the time-out of
  the HTTP client, ten seconds, ends the wait. The server and the network owe nothing.
* `TestCatalog`: weak fairness of every test thread. Nobody has to build or run.

`CTaosResult`, `TaosCalls`, `Blame` and `FieldValues` are checked for safety only.

## 5. Proofs

The theorems are for all values of the constants; each run above shows the same
properties on one instance. The assumptions are the named `ASSUME`s of the
modules: distinct "none" values, finite threads and handles, bounds that are
naturals, scripts that are sequences of statements, error numbers whose low half is 0
for success only (`ErrnoAssumption`), tables whose tags follow their columns
(`TableAssumption`), widths of which 64 is the largest (`WidthAssumption`) and
bound values that the Rust types admit (`BoundAssumption`).

* **TaosConnectionProofs.** `CountExact` is not inductive: that `n` is the number
  of handles says nothing about who may change it. `IInv` adds `MutexHeld` (the
  critical section has one thread), `UpIsCounted` (the library is up iff the count
  is positive, but for the two points inside the critical section), `CleanupAtZero`, and
  `HandlesOwned` (a borrowed handle has its owner, a handle being dropped has one
  dropper). The counting argument is about cardinalities of the sets of threads
  at `newConnect` and between close and decrement (`FiniteSetTheorems`). From it:
  `TypeCorrect`, `CountCorrect`, `LibraryUp`, `CountNeverUnderflows`,
  `LastDropTearsDown`, and `ImplementsLifetime`, one step per action. The count
  includes the failed connects, so one of them is enough for `FailedConnectKeepsUp`:
  the violation of `taos_last_closed` is not an accident of one behaviour.
* **CTaosResultProofs.** `IInv` adds to the safety properties that a task owns a
  result exactly while it is inside a method or holds it (`OwnerByPc`), that a result that
  was just handed out has not been read (`FreshUnread`), and that rows are collected
  inside `fetch_fields` only (`CollectedInFetch`). `RowsExact` is kept because one
  more row at the end of a prefix is a prefix (`PrefixAppend`). `ProbesLeakForGood` is the
  equation behind the two inclusions that TLC checks: unfreed is what is owned, and the
  probes, and nothing is both.
* **TaosStmtProofs.** The invariant behind `NoPhantomRow` is that the row of the
  bind in progress has never been accepted (`RowIsFresh`) and is the staged row
  between the two calls (`StagedIsRow`), so that a successful `add_batch` adds it
  for the first time, however often `bind_inplace` went round. `ExecuteOnSent`
  gives `ImplementsBatchInsert`: what is confirmed is what was in the batch.
  `ConfirmedIsStored` uses nothing but that refinement: it is an invariant of `BatchInsert`.
* **TaosRestProofs.** Only what was sent, for an attempt the call has come to, is
  under way or executed (`OnlySent`), each request is executed at most once
  (`ExecutedOnce`), and a response travels only while its request is the current
  one of its task (`ResponsesAwaited`). So an answer is the call's own (`OwnAnswers`), and a call
  answered at its first attempt has no second request anywhere (`ExecutedForGood`).
  `ImplementsService` puts these together, one step per action: sending, giving up, losing
  a message and answering are stutters, the server's step is `Execute`, and each way to
  the end of a call is `Return`.
  `SInv` is about the server's state: a call was made after `Ok`s only
  (`GoesOnAfterOk`), a database that was dropped is there again only if its
  create was done (`RecreatedOnce`), and as long as no call on it came to a second
  attempt it is as the last executed statement says (`StateOfLast`). The last two
  need that one task uses the database and, for a refusal, that it was not created
  before it was dropped; otherwise a late request of the earlier create
  could be what the new one is refused for.
* **BlameProofs.** `FoldInvariant`, by the three fields of the accumulator. It
  leaves open which commit is the last; `LastIsLastInFile` says it: the one of the last chunk in the
  file, but for chunks at its end that are no newer than any change before them, and `LatestInOrder` gives the
  condition, chunks in the order of their last changes, under which that is what the documentation
  promises and `blame_latest` refutes without it. `WrittenWhenBlamed` is what
  `TestCatalog` takes from this component: when the list is folded, a row is written if and only if it had a chunk.
* **TaosCallsProofs.** What the four ways have in common is that an answer is the
  number decoded, whichever way it came (`AnswersDecoded`); so no two of them
  differ. For that `err_or`, which tests 32 bits, needs `ErrnoAssumption`; the
  others do not. A text in an open statement is of its call or of a later one
  (`TextsKept`), from which `TextsOwn` follows. `SchemaIsExact` is about tables of any
  number of columns and tags: `Sides` says that of rows whose tags follow the columns the partition returns the two
  halves, position by position, `TableParts` that the rows of a described table are of that kind, and `TypesByName` and `TypesByNumber` that
  the arms of `from_str` are those of the words of the server (`SqlNames`, `ArmsOfNames`) and the discriminants those of
  the numbers of the library. `SchemaExact` says also when there is no schema: the read of a table fails or panics exactly for the types and in the ways it
  names (`DescribeExact`, `QueryExact`, `RefusedRead`).
* **TestCatalogProofs.** `IInv` relates the control of the threads to what they
  share: who holds the mutex (`Locked`), what the `Once` says of the cataloger
  (`Initialised`), that only a failure of SQLite poisons either
  (`PoisonedByFailure`), where a body can have ended (`BodyOfPlace`), and that no row shows a time of a
  later run, nor one of this run before its test has come to the end of it (`RowsOfThePast`). `DescriptionsOfSource` follows from
  what each of the two expansions does to the row (`UpsertRow`): a test that is neither to be expanded nor unknown
  to `git blame` has the description of its source. One lemma per conjunct for the steps of a thread and one per
  remaining action. The failures are counted by the model, so
  `OwnVerdict` says what a test is reported when none has happened. `OnceHasReason`
  (a `Once` that is running has its initialiser; before it is complete there is neither a
  cataloger nor a poisoned mutex) gives `ClosureFindsNothing`: the `unwrap` and the `replace` in the closure
  never meet what they look dangerous for. `RowsSurvive` is an action property over builds and runs.
* **FieldValuesProofs.** The lemmas are arithmetic: the image of a number in two's
  complement and what a read of the same width and sign makes of it
  (`SignedImage`, `UnsignedImage`, `IntegerRead`), division of instants into
  milliseconds on both sides of the epoch (`InMilli`, `MillisInRange`), and the magnitude of a time,
  which at the least number only the wrapped sign repairs (`SameInstant`). From
  them what each read yields for each type (`NativeReads`, `RestReadsCell`). The invariant
  is that the cell is the copied parameter of the bound value and every read
  is of that cell. `RoundTrip`, `TransportsAgree`, `RestReads`, `TimesAgree`, `BuffersFreed`
  so hold for the real widths, where TLC sees widths of at most 32 numbers. `TypeCorrect`
  needs that `Lossy` makes a text of any bytes, however many of them are not UTF-8.
  `BuffersReadInside` says that the library never reads behind a buffer, though it is
  told the length of the text and not that of the buffer.

Liveness needs fairness and `ENABLED`, which the prover does not have, but the two halves of
the argument that are safety are proved for every value of the constants:

* *Somebody can go on.* `NobodyStuck` in `TaosConnectionProofs` and in
  `TestCatalogProofs`: whenever a thread is inside the connector, or a test has not ended,
  the guard of some thread's next step holds. The guards of the mutex and the `Once`
  are written out, since `ENABLED` cannot be. In the other modules a task waits for no other one.
* *Whoever goes on comes nearer to the end.* `StepsRunOut` of `TaosConnectionProofs`,
  `TaosRestProofs` and `TestCatalogProofs`, `CallsRunOut` of `TaosStmtProofs` and
  `FetchRunsOut` of `CTaosResultProofs` are action properties: a natural number falls with every step of the
  thread, and no step of another one raises it. For `bind_inplace` it contains the
  failures that can still happen, which is why `MaxErrors` is needed; for `fetch_fields` it
  contains the rows that are left.

Induction over data is done with sets: `<` on the naturals is well-founded
(`WellFoundedInduction`), so a set of positions that contains every position all of whose
predecessors it contains contains all. The lemma `Induction` states this, and
what a recursive function makes of a sequence of any length (`Side`, `Lossy`) follows from it.

Only model-checked: the four liveness properties themselves (`TornDownEventually`, `MethodsReturn`, `CallsReturn`,
`RunsEnd`). The violations are of TLC as well; for two of them theorems say when the
claim fails and when it holds (`FailedConnectKeepsUp`, `LatestInOrder`).

## 6. Not modelled, and what is assumed

* The C library and the server are external: the actions that stand for them allow
  every outcome the connector provides for, and no promise beyond their
  interface. What the library does with results and statements of a connection
  that was closed is not in this code; the models keep the connection open.
* The words of errors are left out; where their text lives is in `TaosCalls`.
* Error codes: the predicates and the names of the variants (`src/error.rs` from
  728 on), which are one comparison each and generated, and `TaosErrorOr` of
  `src/util.rs`, which nothing calls.
* Values: the accessors of `Field` (`as_int`, `as_string` and so on: one match
  each) and what `Display` writes. In `FieldValues` the floating-point numbers are whole numbers, of which
  a float holds every second one; JSON is text; the dates are those that chrono can hold,
  and the server writes them in UTC; arithmetic wraps as in a release build (in a
  debug build `abs()` of the least time stamp panics). That `free()` gives the allocator
  another layout than it was asked for is listed as a hazard and not modelled.
* The configuration and the pool: `TaosCfg::connect` passes its values on, and the
  hooks of the pool are constants (`is_valid` is always `Ok`, `has_broken` always
  false), so there is no state and no order of steps in this code that a model could get
  wrong. r2d2 itself is a library. What happens to one connection is in
  `TaosConnection` and `TaosRest`.
* Generated code (`src/bindings*.rs`, `build.rs`) and the command `test-catalog/src/main.rs`, which only
  prints the table.

## 7. Plan

Done: the modules above, in the order of the table, with a proof module for each
that has variables.

Left for the proofs: what callers may conclude from the abstract specifications alone, as
`ConfirmedIsStored` does, for `StatementService` and `LibraryLifetime`.

Left, if the code grows in that direction: a result or a statement that outlives
its connection, once the connector says what it promises then (today nothing in
the code does, see the hazards at `src/client.rs` 168 and `src/stmt.rs` 20); the pool, once
`is_valid` looks at the connection.
