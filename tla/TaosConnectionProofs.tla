------------------------ MODULE TaosConnectionProofs ------------------------
(***************************************************************************)
(* Proofs about TaosConnection, for any finite sets of threads and handles *)
(* and any number of failed connections: the type invariant, the inductive *)
(* invariant IInv that ties the count to the handles and to the threads    *)
(* that are about to change it, the safety invariants that follow from it, *)
(* the refinement of LibraryLifetime, and that no thread ever waits for    *)
(* ever: somebody can go on, and whoever goes on comes nearer to the end.  *)
(***************************************************************************)
EXTENDS TaosConnection, FiniteSetTheorems, TLAPS

-----------------------------------------------------------------------------
(* The parts of the inductive invariant *)

\* The holder of the mutex is the thread between lock() and the end of scope.
MutexHeld == \A t \in Thread : pc[t] \in CriticalPc <=> lock = t

\* Every program point where the library has been brought up but the count does
\* not say so (any more) is inside the critical section.
UpIsCounted ==
    libUp <=> \/ n > 0
              \/ \E t \in Thread : pc[t] \in {"newCount", "dropCleanup"}

CleanupAtZero == \A t \in Thread : pc[t] = "dropCleanup" => n = 0

\* A borrowed handle has its owner; a handle being dropped has lost it, is open
\* still, and is dropped by one thread only.
HandlesOwned ==
    \A t \in Thread :
        /\ pc[t] = "call" => arg[t] \in taos
        /\ pc[t] = "dropClose" =>
            /\ arg[t] \in open \ taos
            /\ \A u \in Thread \ {t} :
                    pc[u] = "dropClose" => arg[u] # arg[t]

IInv ==
    /\ TypeOK
    /\ MutexHeld
    /\ CountExact
    /\ UpIsCounted
    /\ CleanupAtZero
    /\ HandlesOwned

-----------------------------------------------------------------------------
(* Lemmas *)

\* The three sets that CountExact counts are finite.
LEMMA CountedFinite ==
    ASSUME TypeOK
    PROVE  /\ IsFiniteSet(open) /\ Cardinality(open) \in Nat
           /\ IsFiniteSet(Connecting) /\ Cardinality(Connecting) \in Nat
           /\ IsFiniteSet(Uncounting) /\ Cardinality(Uncounting) \in Nat
<1>1. open \subseteq Handle
    BY DEF TypeOK
<1>2. Connecting \subseteq Thread /\ Uncounting \subseteq Thread
    BY DEF Connecting, Uncounting
<1>3. /\ IsFiniteSet(open) /\ IsFiniteSet(Connecting)
      /\ IsFiniteSet(Uncounting)
    BY <1>1, <1>2, FS_Subset, ConstantsAssumption
<1> QED
    BY <1>3, FS_CardinalityType

\* Moving one thread changes the two sets of threads by that thread at most.
LEMMA GotoCounted ==
    ASSUME TypeOK, NEW t \in Thread, NEW from, NEW to \in Pc,
           Goto(t, from, to)
    PROVE  /\ Connecting' = IF to = "newConnect" THEN Connecting \union {t}
                                                 ELSE Connecting \ {t}
           /\ Uncounting' = IF to \in {"dropLock", "dropCount"}
                              THEN Uncounting \union {t}
                              ELSE Uncounting \ {t}
           /\ t \in Connecting <=> from = "newConnect"
           /\ t \in Uncounting <=> from \in {"dropLock", "dropCount"}
    BY DEF TypeOK, Goto, Connecting, Uncounting

\* Every step keeps the types; the count stays a natural number because no
\* thread subtracts from 0.
LEMMA TypeStep ==
    ASSUME TypeOK, NoUnderflow, HandlesOwned, [Next]_vars
    PROVE  TypeOK'
<1> USE DEF TypeOK, Goto, Pc, NewPc, DropPc
<1>1. ASSUME NEW t \in Thread, NewBegin(t) PROVE TypeOK'
    BY <1>1 DEF NewBegin
<1>2. ASSUME NEW t \in Thread, New(t) PROVE TypeOK'
    <2>1. CASE NewAcquire(t)
        BY <2>1 DEF NewAcquire
    <2>2. CASE NewInit(t)
        BY <2>2 DEF NewInit
    <2>3. CASE NewCount(t)
        BY <2>3 DEF NewCount
    <2>4. CASE NewConnected(t)
        BY <2>4 DEF NewConnected
    <2>5. CASE NewFailed(t)
        BY <2>5 DEF NewFailed
    <2> QED
        BY <1>2, <2>1, <2>2, <2>3, <2>4, <2>5 DEF New
<1>3. ASSUME NEW t \in Thread, CallEnd(t) PROVE TypeOK'
    BY <1>3 DEF CallEnd
<1>4. ASSUME NEW t \in Thread, Drop(t) PROVE TypeOK'
    <2>1. CASE DropClose(t)
        BY <2>1 DEF DropClose, HandlesOwned
    <2>2. CASE DropAcquire(t)
        BY <2>2 DEF DropAcquire
    <2>3. CASE DropCount(t)
        BY <2>3 DEF DropCount, NoUnderflow
    <2>4. CASE DropCleanup(t)
        BY <2>4 DEF DropCleanup
    <2> QED
        BY <1>4, <2>1, <2>2, <2>3, <2>4 DEF Drop
<1>5. ASSUME NEW t \in Thread, NEW c \in Handle, CallBegin(t, c)
      PROVE  TypeOK'
    BY <1>5 DEF CallBegin
<1>6. ASSUME NEW t \in Thread, NEW c \in Handle, DropBegin(t, c)
      PROVE  TypeOK'
    BY <1>6 DEF DropBegin
<1>7. CASE UNCHANGED vars
    BY <1>7 DEF vars
<1> QED
    BY <1>1, <1>2, <1>3, <1>4, <1>5, <1>6, <1>7 DEF Next, Inside

\* The control part of the invariant: who holds the mutex, when the library is
\* up, and who owns which handle.
Control == MutexHeld /\ UpIsCounted /\ CleanupAtZero /\ HandlesOwned

\* Every step keeps the control part.
LEMMA ControlStep ==
    ASSUME TypeOK, NoUnderflow, Control, [Next]_vars
    PROVE  Control'
<1> USE DEF TypeOK, Goto, CriticalPc
<1>1. ASSUME NEW t \in Thread, NewBegin(t)
      PROVE  Control'
    <2>1. MutexHeld'
        BY <1>1 DEF Control, NewBegin, MutexHeld
    <2>2. UpIsCounted'
        BY <1>1 DEF Control, NewBegin, UpIsCounted, MutexHeld, CleanupAtZero
    <2>3. CleanupAtZero'
        BY <1>1 DEF Control, NewBegin, CleanupAtZero, MutexHeld
    <2>4. HandlesOwned'
        BY <1>1 DEF Control, NewBegin, HandlesOwned
    <2> QED
        BY <2>1, <2>2, <2>3, <2>4 DEF Control
<1>2. ASSUME NEW t \in Thread, NewAcquire(t)
      PROVE  Control'
    <2>1. MutexHeld'
        BY <1>2, ConstantsAssumption DEF Control, NewAcquire, MutexHeld
    <2>2. UpIsCounted'
        BY <1>2 DEF Control, NewAcquire, UpIsCounted, MutexHeld, CleanupAtZero
    <2>3. CleanupAtZero'
        BY <1>2 DEF Control, NewAcquire, CleanupAtZero, MutexHeld
    <2>4. HandlesOwned'
        BY <1>2 DEF Control, NewAcquire, HandlesOwned
    <2> QED
        BY <2>1, <2>2, <2>3, <2>4 DEF Control
<1>3. ASSUME NEW t \in Thread, NewInit(t)
      PROVE  Control'
    <2>1. MutexHeld'
        BY <1>3 DEF Control, NewInit, MutexHeld
    <2>2. UpIsCounted'
        <3>1. n > 0 => libUp
            BY DEF Control, UpIsCounted
        <3>2. libUp' /\ pc'[t] = "newCount"
            <4>1. n > 0 \/ n = 0
                OBVIOUS
            <4>2. libUp \/ n = 0
                BY <3>1, <4>1
            <4> QED
                BY <1>3, <4>2 DEF NewInit
        <3> QED
            BY <3>2 DEF UpIsCounted
    <2>3. CleanupAtZero'
        BY <1>3 DEF Control, NewInit, CleanupAtZero, MutexHeld
    <2>4. HandlesOwned'
        BY <1>3 DEF Control, NewInit, HandlesOwned
    <2> QED
        BY <2>1, <2>2, <2>3, <2>4 DEF Control
<1>4. ASSUME NEW t \in Thread, NewCount(t)
      PROVE  Control'
    <2>1. MutexHeld'
        BY <1>4, ConstantsAssumption DEF Control, NewCount, MutexHeld
    <2>2. UpIsCounted'
        BY <1>4 DEF Control, NewCount, UpIsCounted, MutexHeld, CleanupAtZero
    <2>3. CleanupAtZero'
        BY <1>4 DEF Control, NewCount, CleanupAtZero, MutexHeld
    <2>4. HandlesOwned'
        BY <1>4 DEF Control, NewCount, HandlesOwned
    <2> QED
        BY <2>1, <2>2, <2>3, <2>4 DEF Control
<1>5. ASSUME NEW t \in Thread, NewConnected(t)
      PROVE  Control'
    <2>1. MutexHeld'
        BY <1>5 DEF Control, NewConnected, MutexHeld
    <2>2. UpIsCounted'
        BY <1>5 DEF Control, NewConnected, UpIsCounted, MutexHeld, CleanupAtZero
    <2>3. CleanupAtZero'
        BY <1>5 DEF Control, NewConnected, CleanupAtZero, MutexHeld
    <2>4. HandlesOwned'
        BY <1>5 DEF Control, NewConnected, HandlesOwned
    <2> QED
        BY <2>1, <2>2, <2>3, <2>4 DEF Control
<1>6. ASSUME NEW t \in Thread, NewFailed(t)
      PROVE  Control'
    <2>1. MutexHeld'
        BY <1>6 DEF Control, NewFailed, MutexHeld
    <2>2. UpIsCounted'
        BY <1>6 DEF Control, NewFailed, UpIsCounted, MutexHeld, CleanupAtZero
    <2>3. CleanupAtZero'
        BY <1>6 DEF Control, NewFailed, CleanupAtZero, MutexHeld
    <2>4. HandlesOwned'
        BY <1>6 DEF Control, NewFailed, HandlesOwned
    <2> QED
        BY <2>1, <2>2, <2>3, <2>4 DEF Control
<1>7. ASSUME NEW t \in Thread, CallEnd(t)
      PROVE  Control'
    <2>1. MutexHeld'
        BY <1>7 DEF Control, CallEnd, MutexHeld
    <2>2. UpIsCounted'
        BY <1>7 DEF Control, CallEnd, UpIsCounted, MutexHeld, CleanupAtZero
    <2>3. CleanupAtZero'
        BY <1>7 DEF Control, CallEnd, CleanupAtZero, MutexHeld
    <2>4. HandlesOwned'
        BY <1>7 DEF Control, CallEnd, HandlesOwned
    <2> QED
        BY <2>1, <2>2, <2>3, <2>4 DEF Control
<1>8. ASSUME NEW t \in Thread, DropClose(t)
      PROVE  Control'
    <2>1. MutexHeld'
        BY <1>8 DEF Control, DropClose, MutexHeld
    <2>2. UpIsCounted'
        BY <1>8 DEF Control, DropClose, UpIsCounted, MutexHeld, CleanupAtZero
    <2>3. CleanupAtZero'
        BY <1>8 DEF Control, DropClose, CleanupAtZero, MutexHeld
    <2>4. HandlesOwned'
        BY <1>8 DEF Control, DropClose, HandlesOwned
    <2> QED
        BY <2>1, <2>2, <2>3, <2>4 DEF Control
<1>9. ASSUME NEW t \in Thread, DropAcquire(t)
      PROVE  Control'
    <2>1. MutexHeld'
        BY <1>9, ConstantsAssumption DEF Control, DropAcquire, MutexHeld
    <2>2. UpIsCounted'
        BY <1>9 DEF Control, DropAcquire, UpIsCounted, MutexHeld, CleanupAtZero
    <2>3. CleanupAtZero'
        BY <1>9 DEF Control, DropAcquire, CleanupAtZero, MutexHeld
    <2>4. HandlesOwned'
        BY <1>9 DEF Control, DropAcquire, HandlesOwned
    <2> QED
        BY <2>1, <2>2, <2>3, <2>4 DEF Control
<1>10. ASSUME NEW t \in Thread, DropCount(t)
      PROVE  Control'
    <2>1. MutexHeld'
        BY <1>10, ConstantsAssumption DEF Control, DropCount, MutexHeld
    <2>2. UpIsCounted'
        BY <1>10 DEF Control, DropCount, UpIsCounted, MutexHeld, CleanupAtZero, NoUnderflow
    <2>3. CleanupAtZero'
        BY <1>10 DEF Control, DropCount, CleanupAtZero, MutexHeld, NoUnderflow
    <2>4. HandlesOwned'
        BY <1>10 DEF Control, DropCount, HandlesOwned, NoUnderflow
    <2> QED
        BY <2>1, <2>2, <2>3, <2>4 DEF Control
<1>11. ASSUME NEW t \in Thread, DropCleanup(t)
      PROVE  Control'
    <2>1. MutexHeld'
        BY <1>11, ConstantsAssumption DEF Control, DropCleanup, MutexHeld
    <2>2. UpIsCounted'
        BY <1>11 DEF Control, DropCleanup, UpIsCounted, MutexHeld, CleanupAtZero
    <2>3. CleanupAtZero'
        BY <1>11 DEF Control, DropCleanup, CleanupAtZero, MutexHeld
    <2>4. HandlesOwned'
        BY <1>11 DEF Control, DropCleanup, HandlesOwned
    <2> QED
        BY <2>1, <2>2, <2>3, <2>4 DEF Control
<1>12. ASSUME NEW t \in Thread, NEW c \in Handle, CallBegin(t, c)
      PROVE  Control'
    <2>1. MutexHeld'
        BY <1>12 DEF Control, CallBegin, MutexHeld
    <2>2. UpIsCounted'
        BY <1>12 DEF Control, CallBegin, UpIsCounted, MutexHeld, CleanupAtZero
    <2>3. CleanupAtZero'
        BY <1>12 DEF Control, CallBegin, CleanupAtZero, MutexHeld
    <2>4. HandlesOwned'
        BY <1>12 DEF Control, CallBegin, HandlesOwned
    <2> QED
        BY <2>1, <2>2, <2>3, <2>4 DEF Control
<1>13. ASSUME NEW t \in Thread, NEW c \in Handle, DropBegin(t, c)
      PROVE  Control'
    <2>1. MutexHeld'
        BY <1>13 DEF Control, DropBegin, MutexHeld
    <2>2. UpIsCounted'
        BY <1>13 DEF Control, DropBegin, UpIsCounted, MutexHeld, CleanupAtZero
    <2>3. CleanupAtZero'
        BY <1>13 DEF Control, DropBegin, CleanupAtZero, MutexHeld
    <2>4. HandlesOwned'
        BY <1>13 DEF Control, DropBegin, HandlesOwned, Borrowed
    <2> QED
        BY <2>1, <2>2, <2>3, <2>4 DEF Control
<1>14. CASE UNCHANGED vars
    BY <1>14 DEF vars, Control, MutexHeld, UpIsCounted, CleanupAtZero,
                 HandlesOwned
<1> QED
    BY <1>1, <1>2, <1>3, <1>4, <1>5, <1>6, <1>7, <1>8, <1>9, <1>10, <1>11,
       <1>12, <1>13, <1>14 DEF Next, Inside, New, Drop

\* A set with a member counts for something.
LEMMA NonEmptyCounts ==
    ASSUME NEW S, IsFiniteSet(S), NEW x \in S
    PROVE  Cardinality(S) \in Nat /\ Cardinality(S) > 0
<1>1. Cardinality(S) \in Nat /\ Cardinality(S) # 0
    BY FS_EmptySet, FS_CardinalityType
<1> QED
    BY <1>1

\* What the count rules out and what it forces.
LEMMA CountConsequences ==
    ASSUME TypeOK, CountExact
    PROVE  /\ open # {} \/ Connecting # {} => n > 0
           /\ NoUnderflow
           /\ n = 0 => open = {}
           /\ open = {} /\ AllIdle /\ failed = 0 => n = 0
<1>1. open # {} => n > 0
    BY CountedFinite, NonEmptyCounts DEF CountExact, TypeOK
<1>2. Connecting # {} => n > 0
    BY CountedFinite, NonEmptyCounts DEF CountExact, TypeOK
<1>3. Uncounting # {} => n > 0
    BY CountedFinite, NonEmptyCounts DEF CountExact, TypeOK
<1>4. NoUnderflow
    BY <1>3 DEF NoUnderflow, Uncounting
<1>5. n = 0 => open = {}
    BY <1>1 DEF TypeOK
<1>6. ASSUME open = {}, AllIdle, failed = 0
      PROVE  n = 0
    <2>1. Connecting = {} /\ Uncounting = {}
        BY <1>6 DEF AllIdle, Connecting, Uncounting
    <2> QED
        BY <1>6, <2>1, FS_EmptySet DEF CountExact
<1> QED
    BY <1>1, <1>2, <1>4, <1>5, <1>6

\* Every step changes the count and the three sets it counts together.
LEMMA CountStep ==
    ASSUME TypeOK, HandlesOwned, CountExact, [Next]_vars
    PROVE  CountExact'
<1>0. /\ IsFiniteSet(open) /\ Cardinality(open) \in Nat
      /\ IsFiniteSet(Connecting) /\ Cardinality(Connecting) \in Nat
      /\ IsFiniteSet(Uncounting) /\ Cardinality(Uncounting) \in Nat
      /\ n \in Nat /\ failed \in Nat
    BY CountedFinite DEF TypeOK
\* A step between points that are not counted.
<1>a. ASSUME NEW t \in Thread, NEW from, NEW to \in Pc, Goto(t, from, to),
             {from, to} \cap {"newConnect", "dropLock", "dropCount"} = {}
      PROVE  Connecting' = Connecting /\ Uncounting' = Uncounting
    BY <1>a, GotoCounted
<1>1. ASSUME NEW t \in Thread, NewBegin(t) PROVE CountExact'
    BY <1>1, <1>a DEF NewBegin, CountExact, Pc, NewPc
<1>2. ASSUME NEW t \in Thread, NewAcquire(t) PROVE CountExact'
    BY <1>2, <1>a DEF NewAcquire, CountExact, Pc, NewPc
<1>3. ASSUME NEW t \in Thread, NewInit(t) PROVE CountExact'
    BY <1>3, <1>a DEF NewInit, CountExact, Pc, NewPc
<1>4. ASSUME NEW t \in Thread, NewCount(t) PROVE CountExact'
    <2>1. /\ Connecting' = Connecting \union {t} /\ t \notin Connecting
          /\ Uncounting' = Uncounting
        BY <1>4, GotoCounted DEF NewCount, Pc, NewPc
    <2>2. Cardinality(Connecting') = Cardinality(Connecting) + 1
        BY <1>0, <2>1, FS_AddElement
    <2> QED
        BY <1>0, <1>4, <2>1, <2>2 DEF NewCount, CountExact
<1>5. ASSUME NEW t \in Thread, NewConnected(t) PROVE CountExact'
    <2>1. /\ Connecting' = Connecting \ {t} /\ t \in Connecting
          /\ Uncounting' = Uncounting
        BY <1>5, GotoCounted DEF NewConnected, Pc
    <2>2. Cardinality(Connecting') = Cardinality(Connecting) - 1
        BY <1>0, <2>1, FS_RemoveElement
    <2>3. Cardinality(open') = Cardinality(open) + 1
        BY <1>0, <1>5, FS_AddElement DEF NewConnected
    <2> QED
        BY <1>0, <1>5, <2>1, <2>2, <2>3 DEF NewConnected, CountExact
<1>6. ASSUME NEW t \in Thread, NewFailed(t) PROVE CountExact'
    <2>1. /\ Connecting' = Connecting \ {t} /\ t \in Connecting
          /\ Uncounting' = Uncounting
        BY <1>6, GotoCounted DEF NewFailed, Pc
    <2>2. Cardinality(Connecting') = Cardinality(Connecting) - 1
        BY <1>0, <2>1, FS_RemoveElement
    <2> QED
        BY <1>0, <1>6, <2>1, <2>2 DEF NewFailed, CountExact
<1>7. ASSUME NEW t \in Thread, CallEnd(t) PROVE CountExact'
    BY <1>7, <1>a DEF CallEnd, CountExact, Pc
<1>8. ASSUME NEW t \in Thread, DropClose(t) PROVE CountExact'
    <2>1. /\ Uncounting' = Uncounting \union {t} /\ t \notin Uncounting
          /\ Connecting' = Connecting
        BY <1>8, GotoCounted DEF DropClose, Pc, DropPc
    <2>2. Cardinality(Uncounting') = Cardinality(Uncounting) + 1
        BY <1>0, <2>1, FS_AddElement
    <2>3. arg[t] \in open /\ open' = open \ {arg[t]}
        BY <1>8 DEF DropClose, Goto, HandlesOwned
    <2>4. Cardinality(open') = Cardinality(open) - 1
        BY <1>0, <2>3, FS_RemoveElement
    <2> QED
        BY <1>0, <1>8, <2>1, <2>2, <2>4 DEF DropClose, CountExact
<1>9. ASSUME NEW t \in Thread, DropAcquire(t) PROVE CountExact'
    <2>1. Connecting' = Connecting /\ Uncounting' = Uncounting
        BY <1>9, GotoCounted DEF DropAcquire, Pc, DropPc
    <2> QED
        BY <1>9, <2>1 DEF DropAcquire, CountExact
<1>10. ASSUME NEW t \in Thread, DropCount(t) PROVE CountExact'
    <2>1. /\ Uncounting' = Uncounting \ {t} /\ t \in Uncounting
          /\ Connecting' = Connecting
        BY <1>10, GotoCounted DEF DropCount, Pc, DropPc
    <2>2. Cardinality(Uncounting') = Cardinality(Uncounting) - 1
        BY <1>0, <2>1, FS_RemoveElement
    <2> QED
        BY <1>0, <1>10, <2>1, <2>2 DEF DropCount, CountExact
<1>11. ASSUME NEW t \in Thread, DropCleanup(t) PROVE CountExact'
    BY <1>11, <1>a DEF DropCleanup, CountExact, Pc, DropPc
<1>12. ASSUME NEW t \in Thread, NEW c \in Handle, CallBegin(t, c)
       PROVE  CountExact'
    BY <1>12, <1>a DEF CallBegin, CountExact, Pc
<1>13. ASSUME NEW t \in Thread, NEW c \in Handle, DropBegin(t, c)
       PROVE  CountExact'
    BY <1>13, <1>a DEF DropBegin, CountExact, Pc, DropPc
<1>14. CASE UNCHANGED vars
    BY <1>14 DEF vars, CountExact, Connecting, Uncounting
<1> QED
    BY <1>1, <1>2, <1>3, <1>4, <1>5, <1>6, <1>7, <1>8, <1>9, <1>10, <1>11,
       <1>12, <1>13, <1>14 DEF Next, Inside, New, Drop

-----------------------------------------------------------------------------
(* Theorems *)

\* IInv is inductive: client.rs keeps the count, the mutex, the library and the
\* handles in step, whatever the threads do.
THEOREM Invariance == Spec => []IInv
<1>1. Init => IInv
    <2> SUFFICES ASSUME Init PROVE IInv
        OBVIOUS
    <2>1. TypeOK
        BY DEF Init, TypeOK, Pc
    <2>2. MutexHeld /\ UpIsCounted /\ CleanupAtZero /\ HandlesOwned
        BY ConstantsAssumption DEF Init, MutexHeld, CriticalPc, UpIsCounted,
                                   CleanupAtZero, HandlesOwned
    <2>3. Connecting = {} /\ Uncounting = {} /\ open = {}
        BY DEF Init, Connecting, Uncounting
    <2>4. CountExact
        BY <2>3, FS_EmptySet DEF Init, CountExact
    <2> QED
        BY <2>1, <2>2, <2>4 DEF IInv
<1>2. IInv /\ [Next]_vars => IInv'
    <2> SUFFICES ASSUME IInv, [Next]_vars PROVE IInv'
        OBVIOUS
    <2>1. NoUnderflow
        BY CountConsequences DEF IInv
    <2> QED
        BY <2>1, TypeStep, ControlStep, CountStep DEF IInv, Control
<1> QED
    BY <1>1, <1>2, PTL DEF Spec

\* The types of client.rs's mutex, count, handles and threads.
THEOREM TypeCorrect == Spec => []TypeOK
<1>1. IInv => TypeOK
    BY DEF IInv
<1> QED
    BY <1>1, Invariance, PTL

\* The count never disagrees with the connections it counts.
THEOREM CountCorrect == Spec => []CountExact
<1>1. IInv => CountExact
    BY DEF IInv
<1> QED
    BY <1>1, Invariance, PTL

\* No call is made on, and no handle is open on, a library that is down.
THEOREM LibraryUp == Spec => []LibraryUpWhileUsed
<1>1. IInv => LibraryUpWhileUsed
    BY CountConsequences DEF IInv, UpIsCounted, LibraryUpWhileUsed
<1> QED
    BY <1>1, Invariance, PTL

\* *n -= 1 never underflows.
THEOREM CountNeverUnderflows == Spec => []NoUnderflow
<1>1. IInv => NoUnderflow
    BY CountConsequences DEF IInv
<1> QED
    BY <1>1, Invariance, PTL

\* The last drop leaves the library torn down, unless a taos_connect failed.
THEOREM LastDropTearsDown == Spec => []TornDownAfterLast
<1>1. IInv => TornDownAfterLast
    <2> SUFFICES ASSUME IInv, AllIdle, open = {}, failed = 0 PROVE ~libUp
        BY DEF TornDownAfterLast
    <2>1. n = 0
        BY CountConsequences DEF IInv
    <2> QED
        BY <2>1 DEF IInv, UpIsCounted, AllIdle
<1> QED
    BY <1>1, Invariance, PTL

\* One failed taos_connect is enough for the library never to be torn down again.
UpForGood == failed > 0 => libUp
THEOREM FailedConnectKeepsUp == Spec => []UpForGood
<1>1. IInv => UpForGood
    <2> SUFFICES ASSUME IInv, failed > 0 PROVE libUp
        BY DEF UpForGood
    <2>1. n > 0
        BY CountedFinite DEF IInv, TypeOK, CountExact
    <2> QED
        BY <2>1 DEF IInv, UpIsCounted
<1> QED
    BY <1>1, Invariance, PTL

\* Taos::new and Drop for Taos implement the abstract life of the library.
THEOREM ImplementsLifetime == Spec => LifetimeRefined
<1>1. Init => Lifetime!Init
    BY DEF Init, Lifetime!Init
<1>2. IInv /\ [Next]_vars => [Lifetime!Next]_(Lifetime!vars)
    <2> SUFFICES ASSUME IInv, [Next]_vars
                 PROVE  Lifetime!Next \/ UNCHANGED <<libUp, open>>
        BY DEF Lifetime!vars
    <2> USE DEF Lifetime!Next
    <2>1. LibraryUpWhileUsed
        BY CountConsequences DEF IInv, UpIsCounted, LibraryUpWhileUsed
    <2>2. ASSUME NEW t \in Thread, NewInit(t)
          PROVE  Lifetime!Next \/ UNCHANGED <<libUp, open>>
        BY <2>2 DEF NewInit, Lifetime!Initialise, IInv, TypeOK
    <2>3. ASSUME NEW t \in Thread, NewConnected(t)
          PROVE  Lifetime!Next
        <3>1. libUp
            BY <2>1, <2>3 DEF LibraryUpWhileUsed, Connecting, NewConnected, Goto
        <3> QED
            BY <2>3, <3>1 DEF NewConnected, Lifetime!Open
    <2>4. ASSUME NEW t \in Thread, DropClose(t)
          PROVE  Lifetime!Next
        <3>1. arg[t] \in open /\ arg[t] \in Handle
            BY <2>4 DEF DropClose, Goto, IInv, HandlesOwned, TypeOK
        <3>2. libUp
            BY <2>1, <3>1 DEF LibraryUpWhileUsed
        <3> QED
            BY <2>4, <3>1, <3>2 DEF DropClose, Lifetime!Close
    <2>5. ASSUME NEW t \in Thread, DropCleanup(t)
          PROVE  Lifetime!Next
        <3>1. n = 0 /\ libUp
            BY <2>5 DEF DropCleanup, Goto, IInv, CleanupAtZero, UpIsCounted
        <3>2. open = {}
            BY <3>1, CountConsequences DEF IInv
        <3> QED
            BY <2>5, <3>1, <3>2 DEF DropCleanup, Lifetime!CleanUp
    <2>6. ASSUME NEW t \in Thread,
                 \/ NewBegin(t) \/ NewAcquire(t) \/ NewCount(t) \/ NewFailed(t)
                 \/ CallEnd(t) \/ DropAcquire(t) \/ DropCount(t)
                 \/ \E c \in Handle : CallBegin(t, c) \/ DropBegin(t, c)
          PROVE  UNCHANGED <<libUp, open>>
        BY <2>6 DEF NewBegin, NewAcquire, NewCount, NewFailed, CallEnd,
                    DropAcquire, DropCount, CallBegin, DropBegin
    <2>7. CASE UNCHANGED vars
        BY <2>7 DEF vars
    <2> QED
        BY <2>2, <2>3, <2>4, <2>5, <2>6, <2>7 DEF Next, Inside, New, Drop
<1> QED
    BY <1>1, <1>2, Invariance, PTL DEF Spec, LifetimeRefined, Lifetime!Spec

-----------------------------------------------------------------------------
(* The safety part of TornDownEventually: a thread inside the connector has *)
(* only so many steps left, and there is always one that can take its next. *)

Entering == {t \in Thread : pc[t] \in NewPc}

\* Every thread inside Taos::new has a handle left that it may get.
HandlesLeft == Cardinality(open) + Cardinality(Entering) <= Cardinality(Handle)

\* What the next step of a thread still waits for: the mutex, or a handle.
CanGoOn(t) ==
    /\ pc[t] \in {"newLock", "dropLock"} => lock = NoThread
    /\ pc[t] = "newConnect" => Handle \ open # {}

SomebodyGoesOn ==
    ~AllIdle => \E t \in Thread : pc[t] # "idle" /\ CanGoOn(t)

\* How many steps a thread has left, at most, until it is idle.
StepsLeft(p) ==
    CASE p \in {"newLock", "dropClose"}              -> 4
      [] p \in {"newInit", "dropLock"}               -> 3
      [] p \in {"newCount", "dropCount"}             -> 2
      [] p \in {"newConnect", "dropCleanup", "call"} -> 1
      [] p = "idle"                                  -> 0

\* A thread inside the connector never moves but towards its end.
GetsNearer ==
    \A t \in Thread : pc[t] # "idle" /\ pc'[t] # pc[t] =>
        StepsLeft(pc'[t]) < StepsLeft(pc[t])

\* Moving one thread changes the set of threads in Taos::new by that thread.
LEMMA GotoEntering ==
    ASSUME TypeOK, NEW t \in Thread, NEW from, NEW to \in Pc,
           Goto(t, from, to)
    PROVE  /\ Entering' = IF to \in NewPc THEN Entering \union {t}
                                          ELSE Entering \ {t}
           /\ t \in Entering <=> from \in NewPc
    BY DEF TypeOK, Goto, Entering

\* A handle is taken only by a thread that leaves Taos::new, and a thread enters
\* only when there is one more handle than there are takers.
LEMMA HandlesStep ==
    ASSUME IInv, HandlesLeft, [Next]_vars
    PROVE  HandlesLeft'
<1> USE DEF IInv
<1>1. /\ IsFiniteSet(open) /\ Cardinality(open) \in Nat
      /\ Cardinality(Handle) \in Nat
    BY CountedFinite, FS_CardinalityType, ConstantsAssumption
<1>2. IsFiniteSet(Entering) /\ Cardinality(Entering) \in Nat
    BY FS_Subset, FS_CardinalityType, ConstantsAssumption DEF Entering
<1>3. CASE open' = open /\ Entering' = Entering
    BY <1>3 DEF HandlesLeft
<1>4. ASSUME NEW t \in Thread, NewBegin(t) PROVE HandlesLeft'
    <2>1. Entering' = Entering \union {t} /\ open' = open
        BY <1>4, GotoEntering DEF NewBegin, Pc, NewPc
    <2>2. t \notin Entering
        BY <1>4 DEF NewBegin, Goto, Entering, NewPc
    <2>3. Cardinality(Entering') = Cardinality(Entering) + 1
        BY <1>2, <2>1, <2>2, FS_AddElement
    <2>4. Cardinality(open) + Cardinality(Entering) < Cardinality(Handle)
        BY <1>4 DEF NewBegin, HandleLeft, Entering
    <2> QED
        BY <1>1, <1>2, <2>1, <2>3, <2>4 DEF HandlesLeft
<1>5. ASSUME NEW t \in Thread, NewAcquire(t) \/ NewInit(t) \/ NewCount(t)
      PROVE  HandlesLeft'
    <2>1. open' = open
        BY <1>5 DEF NewAcquire, NewInit, NewCount
    <2>2. t \in Entering /\ Entering' = Entering \union {t}
        BY <1>5, GotoEntering DEF NewAcquire, NewInit, NewCount, Pc, NewPc
    <2>3. Entering' = Entering
        BY <2>2
    <2> QED
        BY <1>3, <2>1, <2>3
<1>6. ASSUME NEW t \in Thread, NewConnected(t) \/ NewFailed(t)
      PROVE  HandlesLeft'
    <2>1. t \in Entering /\ Entering' = Entering \ {t}
        BY <1>6, GotoEntering DEF NewConnected, NewFailed, Pc, NewPc
    <2>2. Cardinality(Entering') = Cardinality(Entering) - 1
        BY <1>2, <2>1, FS_RemoveElement
    <2>3. Cardinality(open') = Cardinality(open) + 1 \/ open' = open
        BY <1>1, <1>6, FS_AddElement DEF NewConnected, NewFailed
    <2> QED
        BY <1>1, <1>2, <2>2, <2>3 DEF HandlesLeft
<1>7. ASSUME NEW t \in Thread, DropClose(t) PROVE HandlesLeft'
    <2>1. Entering' = Entering
        BY <1>7, GotoEntering DEF DropClose, Pc, NewPc, DropPc
    <2>2. arg[t] \in open /\ open' = open \ {arg[t]}
        BY <1>7 DEF DropClose, Goto, HandlesOwned
    <2>3. Cardinality(open') = Cardinality(open) - 1
        BY <1>1, <2>2, FS_RemoveElement
    <2> QED
        BY <1>1, <1>2, <2>1, <2>3 DEF HandlesLeft
<1>8. ASSUME NEW t \in Thread,
             CallEnd(t) \/ DropAcquire(t) \/ DropCount(t) \/ DropCleanup(t)
      PROVE  HandlesLeft'
    <2>1. open' = open
        BY <1>8 DEF CallEnd, DropAcquire, DropCount, DropCleanup
    <2>2. Entering' = Entering
        BY <1>8, GotoEntering DEF CallEnd, DropAcquire, DropCount, DropCleanup,
                                  Pc, NewPc, DropPc
    <2> QED
        BY <1>3, <2>1, <2>2
<1>9. ASSUME NEW t \in Thread, NEW c \in Handle, CallBegin(t, c) \/ DropBegin(t, c)
      PROVE  HandlesLeft'
    <2>1. open' = open
        BY <1>9 DEF CallBegin, DropBegin
    <2>2. Entering' = Entering
        BY <1>9, GotoEntering DEF CallBegin, DropBegin, Pc, NewPc, DropPc
    <2> QED
        BY <1>3, <2>1, <2>2
<1>10. CASE UNCHANGED vars
    BY <1>3, <1>10 DEF vars, Entering
<1> QED
    BY <1>4, <1>5, <1>6, <1>7, <1>8, <1>9, <1>10 DEF Next, Inside, New, Drop

\* The bound on Taos::new never blocks a thread that is inside it.
LEMMA HandlesInvariance == Spec => [](IInv /\ HandlesLeft)
<1>1. Init => HandlesLeft
    <2> SUFFICES ASSUME Init PROVE HandlesLeft
        OBVIOUS
    <2>1. open = {} /\ Entering = {}
        BY DEF Init, Entering, NewPc
    <2>2. Cardinality(Handle) \in Nat
        BY FS_CardinalityType, ConstantsAssumption
    <2> QED
        BY <2>1, <2>2, FS_EmptySet DEF HandlesLeft
<1> QED
    BY <1>1, HandlesStep, Invariance, PTL DEF Spec

\* No set of threads ever waits for one another in the connector: whenever one
\* of them is inside Taos::new, Drop or a call, the holder of the mutex, or any
\* of them if it is free, can take its next step.
THEOREM NobodyStuck == Spec => []SomebodyGoesOn
<1>1. IInv /\ HandlesLeft => SomebodyGoesOn
    <2> SUFFICES ASSUME IInv, HandlesLeft, NEW t \in Thread, pc[t] # "idle"
                 PROVE  \E u \in Thread : pc[u] # "idle" /\ CanGoOn(u)
        BY DEF SomebodyGoesOn, AllIdle
    <2> USE DEF IInv
    <2>1. ASSUME pc[t] = "newConnect" PROVE Handle \ open # {}
        <3>1. /\ IsFiniteSet(open) /\ Cardinality(open) \in Nat
              /\ Cardinality(Handle) \in Nat
            BY CountedFinite, FS_CardinalityType, ConstantsAssumption
        <3>2. IsFiniteSet(Entering) /\ t \in Entering
            BY <2>1, FS_Subset, ConstantsAssumption DEF Entering, NewPc
        <3>3. Cardinality(Entering) \in Nat /\ Cardinality(Entering) > 0
            BY <3>2, NonEmptyCounts
        <3>4. Cardinality(open) < Cardinality(Handle)
            BY <3>1, <3>3 DEF HandlesLeft
        <3> QED
            BY <3>1, <3>4 DEF TypeOK
    <2>2. CASE lock = NoThread
        BY <2>1, <2>2 DEF CanGoOn
    <2>3. CASE lock \in Thread
        <3>1. pc[lock] \in CriticalPc
            BY <2>3 DEF MutexHeld
        <3> QED
            BY <2>3, <3>1 DEF CanGoOn, CriticalPc
    <2> QED
        BY <2>2, <2>3 DEF TypeOK
<1> QED
    BY <1>1, HandlesInvariance, PTL

\* Taos::new, Drop and a call through a connection each end after at most four
\* steps of their thread, whatever the other threads do in between.
THEOREM StepsRunOut == Spec => [][GetsNearer]_vars
<1>1. TypeOK /\ [Next]_vars => [GetsNearer]_vars
    <2> SUFFICES ASSUME TypeOK, Next,
                        NEW t \in Thread, pc[t] # "idle", pc'[t] # pc[t]
                 PROVE  StepsLeft(pc'[t]) < StepsLeft(pc[t])
        BY DEF GetsNearer
    <2>1. Inside(t)
        BY DEF Next, Inside, New, Drop, Goto, TypeOK, NewBegin, NewAcquire,
               NewInit, NewCount, NewConnected, NewFailed, CallBegin, CallEnd,
               DropBegin, DropClose, DropAcquire, DropCount, DropCleanup
    <2>2. CASE New(t)
        BY <2>2 DEF New, Goto, TypeOK, NewAcquire, NewInit, NewCount,
                    NewConnected, NewFailed, StepsLeft
    <2>3. CASE CallEnd(t)
        BY <2>3 DEF CallEnd, Goto, TypeOK, StepsLeft
    <2>4. CASE Drop(t)
        BY <2>4 DEF Drop, Goto, TypeOK, DropClose, DropAcquire, DropCount,
                    DropCleanup, StepsLeft
    <2> QED
        BY <2>1, <2>2, <2>3, <2>4 DEF Inside
<1> QED
    BY <1>1, TypeCorrect, PTL DEF Spec

=============================================================================
