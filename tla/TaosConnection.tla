--------------------------- MODULE TaosConnection ---------------------------
(***************************************************************************)
(* The life of native connections in a build with the "cleanup" feature    *)
(* (src/client.rs): Taos::new, the calls made through a connection, and    *)
(* Drop for Taos.  Any number of threads create, share (Taos is Send and   *)
(* Sync) and drop connections; the only thing they coordinate through is   *)
(* TAOS_INIT_LOCK, a mutex around the count `n' of connections.  The first *)
(* connection runs taos_init, the last one runs taos_cleanup.              *)
(*                                                                         *)
(* Every step that another thread can observe is an action of its own: the *)
(* wait for the mutex, the body under it, and the calls into the library   *)
(* that are made outside of it.                                            *)
(***************************************************************************)
EXTENDS Integers, FiniteSets

CONSTANTS
    Thread,         \* the threads of the program
    Handle,         \* the handles that taos_connect can return
    NoThread,       \* the holder of an unlocked mutex
    NoHandle,       \* the argument of a thread that works on no connection
    MaxFailed       \* bound: how many taos_connect calls may fail in a run

ASSUME ConstantsAssumption ==
    /\ IsFiniteSet(Thread)
    /\ IsFiniteSet(Handle)
    /\ NoThread \notin Thread
    /\ NoHandle \notin Handle
    /\ MaxFailed \in Nat

VARIABLES
    lock,           \* holder of TAOS_INIT_LOCK
    n,              \* the count that the mutex protects
    libUp,          \* the library stands between taos_init and taos_cleanup
    open,           \* the handles between taos_connect and taos_close
    taos,           \* the handles owned by a live Taos value
    pc,             \* where each thread is
    arg,            \* the handle a thread is calling on or dropping
    failed          \* history: how many taos_connect calls returned NULL

vars == <<lock, n, libUp, open, taos, pc, arg, failed>>

\* The steps of Taos::new, of Drop, and of a call through a connection.
NewPc      == {"newLock", "newInit", "newCount", "newConnect"}
DropPc     == {"dropClose", "dropLock", "dropCount", "dropCleanup"}
CriticalPc == {"newInit", "newCount", "dropCount", "dropCleanup"}
Pc         == {"idle", "call"} \union NewPc \union DropPc

\* The type of every variable of the component.
TypeOK ==
    /\ lock \in Thread \union {NoThread}
    /\ n \in Nat
    /\ libUp \in BOOLEAN
    /\ open \subseteq Handle
    /\ taos \subseteq open
    /\ pc \in [Thread -> Pc]
    /\ arg \in [Thread -> Handle \union {NoHandle}]
    /\ failed \in Nat

Init ==
    /\ lock = NoThread
    /\ n = 0
    /\ libUp = FALSE
    /\ open = {}
    /\ taos = {}
    /\ pc = [t \in Thread |-> "idle"]
    /\ arg = [t \in Thread |-> NoHandle]
    /\ failed = 0

Goto(t, from, to) ==
    /\ pc[t] = from
    /\ pc' = [pc EXCEPT ![t] = to]

-----------------------------------------------------------------------------
(* Taos::new *)

\* Bound: a handle is left for every thread inside Taos::new, so that a
\* successful taos_connect always has one to return.
HandleLeft ==
    Cardinality(open) + Cardinality({t \in Thread : pc[t] \in NewPc})
        < Cardinality(Handle)

\* The arguments are converted and the thread reaches TAOS_INIT_LOCK.lock().
NewBegin(t) ==
    /\ HandleLeft
    /\ Goto(t, "idle", "newLock")
    /\ UNCHANGED <<lock, n, libUp, open, taos, arg, failed>>

NewAcquire(t) ==
    /\ Goto(t, "newLock", "newInit")
    /\ lock = NoThread
    /\ lock' = t
    /\ UNCHANGED <<n, libUp, open, taos, arg, failed>>

\* Wrong on purpose: taos_init runs although the library is up already and,
\* when it is needed, does not run.
NewInitSwapped(t) ==
    /\ Goto(t, "newInit", "newCount")
    /\ libUp' = (libUp \/ n # 0)
    /\ UNCHANGED <<lock, n, open, taos, arg, failed>>

\* if *n == 0 { taos_init() }
NewInit(t) ==
    /\ Goto(t, "newInit", "newCount")
    /\ libUp' = (libUp \/ n = 0)
    /\ UNCHANGED <<lock, n, open, taos, arg, failed>>

\* Wrong on purpose: only the connection that ran taos_init is counted.
NewCountFirstOnly(t) ==
    /\ Goto(t, "newCount", "newConnect")
    /\ n' = IF n = 0 THEN 1 ELSE n
    /\ lock' = NoThread
    /\ UNCHANGED <<libUp, open, taos, arg, failed>>

\* *n += 1, and the guard goes out of scope.
NewCount(t) ==
    /\ Goto(t, "newCount", "newConnect")
    /\ n' = n + 1
    /\ lock' = NoThread
    /\ UNCHANGED <<libUp, open, taos, arg, failed>>

\* taos_connect returns a handle, which the new Taos value owns.
NewConnected(t) ==
    /\ Goto(t, "newConnect", "idle")
    /\ \E c \in Handle \ open :
        /\ open' = open \union {c}
        /\ taos' = taos \union {c}
    /\ UNCHANGED <<lock, n, libUp, arg, failed>>

\* taos_connect returns NULL: Err(ConnectionInvalid).  No Taos value exists,
\* so no Drop will run, and the count keeps the failed connection.
NewFailed(t) ==
    /\ Goto(t, "newConnect", "idle")
    /\ failed < MaxFailed
    /\ failed' = failed + 1
    /\ UNCHANGED <<lock, n, libUp, open, taos, arg>>

-----------------------------------------------------------------------------
(* Calls through a connection: raw_query, load_table_info,                 *)
(* schemaless_insert.  They borrow the Taos value, which therefore cannot  *)
(* be dropped while they run.                                              *)

CallBegin(t, c) ==
    /\ Goto(t, "idle", "call")
    /\ c \in taos
    /\ arg' = [arg EXCEPT ![t] = c]
    /\ UNCHANGED <<lock, n, libUp, open, taos, failed>>

CallEnd(t) ==
    /\ Goto(t, "call", "idle")
    /\ arg' = [arg EXCEPT ![t] = NoHandle]
    /\ UNCHANGED <<lock, n, libUp, open, taos, failed>>

-----------------------------------------------------------------------------
(* Drop for Taos *)

Borrowed(c) == \E t \in Thread : pc[t] = "call" /\ arg[t] = c

\* Wrong on purpose: the value stays usable while it is being dropped.
DropBeginKeepsOwner(t, c) ==
    /\ Goto(t, "idle", "dropClose")
    /\ c \in taos
    /\ ~Borrowed(c)
    /\ arg' = [arg EXCEPT ![t] = c]
    /\ UNCHANGED <<lock, n, libUp, open, taos, failed>>

\* Drop starts: the owner gives the value up, which nobody borrows.
DropBegin(t, c) ==
    /\ Goto(t, "idle", "dropClose")
    /\ c \in taos
    /\ ~Borrowed(c)
    /\ taos' = taos \ {c}
    /\ arg' = [arg EXCEPT ![t] = c]
    /\ UNCHANGED <<lock, n, libUp, open, failed>>

\* taos_close(self.conn), before the mutex is taken.
DropClose(t) ==
    /\ Goto(t, "dropClose", "dropLock")
    /\ open' = open \ {arg[t]}
    /\ arg' = [arg EXCEPT ![t] = NoHandle]
    /\ UNCHANGED <<lock, n, libUp, taos, failed>>

DropAcquire(t) ==
    /\ Goto(t, "dropLock", "dropCount")
    /\ lock = NoThread
    /\ lock' = t
    /\ UNCHANGED <<n, libUp, open, taos, arg, failed>>

\* Wrong on purpose: off by one, the last but one connection cleans up.
DropCountOffByOne(t) ==
    /\ n' = n - 1
    /\ \/ /\ n' <= 1
          /\ Goto(t, "dropCount", "dropCleanup")
          /\ UNCHANGED lock
       \/ /\ n' > 1
          /\ Goto(t, "dropCount", "idle")
          /\ lock' = NoThread
    /\ UNCHANGED <<libUp, open, taos, arg, failed>>

\* *n -= 1; the thread that reaches zero keeps the mutex and cleans up.
DropCount(t) ==
    /\ n' = n - 1
    /\ \/ /\ n' = 0
          /\ Goto(t, "dropCount", "dropCleanup")
          /\ UNCHANGED lock
       \/ /\ n' # 0
          /\ Goto(t, "dropCount", "idle")
          /\ lock' = NoThread
    /\ UNCHANGED <<libUp, open, taos, arg, failed>>

\* Wrong on purpose: the last drop returns without running taos_cleanup.
DropCleanupSkipped(t) ==
    /\ Goto(t, "dropCleanup", "idle")
    /\ lock' = NoThread
    /\ UNCHANGED <<n, libUp, open, taos, arg, failed>>

\* taos_cleanup(), and the guard goes out of scope.
DropCleanup(t) ==
    /\ Goto(t, "dropCleanup", "idle")
    /\ libUp' = FALSE
    /\ lock' = NoThread
    /\ UNCHANGED <<n, open, taos, arg, failed>>

-----------------------------------------------------------------------------

New(t)  == NewAcquire(t) \/ NewInit(t) \/ NewCount(t) \/ NewConnected(t)
              \/ NewFailed(t)
Drop(t) == DropClose(t) \/ DropAcquire(t) \/ DropCount(t) \/ DropCleanup(t)

\* What a thread does on its own once it has entered the connector.
Inside(t) == New(t) \/ CallEnd(t) \/ Drop(t)

Next ==
    \E t \in Thread :
        \/ NewBegin(t)
        \/ Inside(t)
        \/ \E c \in Handle : CallBegin(t, c) \/ DropBegin(t, c)

Spec == Init /\ [][Next]_vars

\* A thread inside the connector keeps running; nothing obliges the program to
\* enter it.  The mutex is not assumed to be fair: weak fairness only.
Fairness == \A t \in Thread : WF_vars(Inside(t))

FairSpec == Spec /\ Fairness

-----------------------------------------------------------------------------
(* Safety *)

Connecting == {t \in Thread : pc[t] = "newConnect"}
Uncounting == {t \in Thread : pc[t] \in {"dropLock", "dropCount"}}
AllIdle    == \A t \in Thread : pc[t] = "idle"

\* No thread is ever inside a library call that needs the library (connecting,
\* querying, closing), and no handle is ever open, while the library is down:
\* taos_close runs before the mutex is taken and taos_connect after it is
\* released, so only the count keeps another thread's taos_cleanup away.
LibraryUpWhileUsed ==
    open # {} \/ Connecting # {} => libUp

\* The count is the number of handles that are open, will be, or are closed and
\* not yet subtracted, and of the connections that failed.  It is what makes
\* the last drop, in whatever order the drops interleave, the one that sees 0.
CountExact ==
    n = Cardinality(open) + Cardinality(Connecting)
            + Cardinality(Uncounting) + failed

\* *n -= 1 never wraps the u32 (or panics, with overflow checks, under the
\* mutex, which would poison it for every later connection).
NoUnderflow ==
    \A t \in Thread : pc[t] = "dropCount" => n > 0

\* When no taos_connect has failed, a program with no connection left and
\* nothing running in the connector has had its library torn down.
TornDownAfterLast ==
    AllIdle /\ open = {} /\ failed = 0 => ~libUp

\* What the comment in Drop for Taos says, without the proviso: "reduce
\* connection count and call clean_up after the last connection closed".
CleanedUpAfterLastClosed ==
    AllIdle /\ open = {} => ~libUp

-----------------------------------------------------------------------------
(* The promise of the feature, as a refinement *)

Lifetime == INSTANCE LibraryLifetime

\* Through the lock, the count and every interleaving of the threads, what
\* happens to the library is a behaviour of LibraryLifetime: taos_init only on
\* a library that is down, taos_connect and taos_close only on one that is up,
\* and taos_cleanup only when no handle is open.
LifetimeRefined == Lifetime!Spec

-----------------------------------------------------------------------------
(* Liveness *)

\* If from some moment on no Taos value is left and nobody creates one, and no
\* taos_connect has failed, the library is down from some moment on: the
\* drops in progress all get the mutex and the last of them cleans up.
TornDownEventually ==
    <>[](taos = {} /\ failed = 0 /\ \A t \in Thread : pc[t] \notin NewPc)
        => <>[]~libUp

=============================================================================
