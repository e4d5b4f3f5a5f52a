-------------------------- MODULE LibraryLifetime --------------------------
(***************************************************************************)
(* What the "cleanup" feature of the connector promises about the global   *)
(* state of the TDengine C library: the library is initialised before any  *)
(* connection is opened on it, and it is torn down only when no connection *)
(* is open.  The abstract system has no lock, no counter and no threads.   *)
(***************************************************************************)

CONSTANT Handle     \* the connection handles that taos_connect can return

VARIABLES
    libUp,          \* the library stands between taos_init and taos_cleanup
    open            \* the handles that are connected

vars == <<libUp, open>>

TypeOK ==
    /\ libUp \in BOOLEAN
    /\ open \subseteq Handle

Init ==
    /\ libUp = FALSE
    /\ open = {}

\* taos_init: bring the library up.
Initialise ==
    /\ ~libUp
    /\ libUp' = TRUE
    /\ UNCHANGED open

\* taos_connect: a fresh handle, on an initialised library only.
Open(c) ==
    /\ libUp
    /\ c \notin open
    /\ open' = open \union {c}
    /\ UNCHANGED libUp

\* taos_close: on an initialised library only.
Close(c) ==
    /\ libUp
    /\ c \in open
    /\ open' = open \ {c}
    /\ UNCHANGED libUp

\* taos_cleanup: once every connection is closed.
CleanUp ==
    /\ libUp
    /\ open = {}
    /\ libUp' = FALSE
    /\ UNCHANGED open

Next ==
    \/ Initialise
    \/ \E c \in Handle : Open(c) \/ Close(c)
    \/ CleanUp

Spec == Init /\ [][Next]_vars

=============================================================================
