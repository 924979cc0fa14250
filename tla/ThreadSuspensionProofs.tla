----------------------- MODULE ThreadSuspensionProofs -----------------------
(* Proofs about ThreadSuspension, for any threads and bounds.              *)
EXTENDS ThreadSuspension, FiniteSetTheorems, TLAPS

\* A scope's thread is known, and only a pass in progress has a thread in hand.
ScopeShape ==
  /\ owner = None <=> phase = "out"
  /\ pending # None <=> phase = "push"
  /\ phase \in {"out", "snapshot"} => threads = {}
  /\ phase \notin {"window", "resume"} => ~ok
  /\ phase \in {"walk", "push", "undo"} => attempt < kAttempts

\* A pass has the threads of its snapshot in three parts, and never its own.
SnapshotSplit ==
  /\ phase \in {"walk", "push"} => /\ snapshot = todo \cup HeldByScope
                                   /\ todo \intersect HeldByScope = {}
                                   /\ owner \notin snapshot
  /\ phase = "push" => pending \notin threads
  /\ phase = "window" /\ ok => snapshot = threads /\ owner \notin snapshot
  /\ phase = "window" /\ ~ok => threads = {}

\* A suspended thread cannot exit.
HeldAlive == HeldByScope \subseteq alive

ScopeInv == TypeOK /\ SuspensionsBalanced /\ ScopeShape /\ SnapshotSplit /\ HeldAlive

USE ThreadsAssumption, BoundsAssumption
-----------------------------------------------------------------------------
\* The bounds hold zero.
LEMMA ZeroInBounds == 0 \in 0..kAttempts /\ 0 \in 0..MaxOutside /\ 0 \in 0..MaxOutside + 1
OBVIOUS

\* The invariant at first.
LEMMA ScopeInvInit == Init => ScopeInv
<1> SUFFICES ASSUME Init
             PROVE  ScopeInv
  OBVIOUS
<1>1. HeldByScope = {}
  BY DEF Init, HeldByScope
<1>2. TypeOK
  BY ZeroInBounds DEF Init, TypeOK, Phases
<1>3. SuspensionsBalanced
  BY <1>1 DEF Init, SuspensionsBalanced
<1>4. ScopeShape /\ SnapshotSplit /\ HeldAlive
  BY <1>1 DEF Init, ScopeShape, SnapshotSplit, HeldAlive
<1> QED
  BY <1>2, <1>3, <1>4 DEF ScopeInv

\* The process' own steps leave the scope alone, whose threads stay alive.
LEMMA ProcessStep ==
  ASSUME ScopeInv, Process
  PROVE  ScopeInv'
<1> USE DEF ScopeInv, TypeOK, SuspensionsBalanced, ScopeShape, SnapshotSplit, HeldAlive,
            HeldByScope, scope, members, Running
<1>1. ASSUME NEW c \in Threads, NEW t \in Threads, Start(c, t)
      PROVE  ScopeInv'
  <2>1. PICK n \in 0..MaxOutside : /\ suspendCount' = [suspendCount EXCEPT ![t] = n]
                                   /\ outside' = [outside EXCEPT ![t] = n]
    BY <1>1 DEF Start
  <2>2. t \notin HeldByScope
    BY <1>1 DEF Start
  <2> QED
    BY <1>1, <2>1, <2>2 DEF Start
<1>2. ASSUME NEW t \in Threads, Exit(t)
      PROVE  ScopeInv'
  <2>1. t \notin HeldByScope
    BY <1>2 DEF Exit
  <2> QED
    BY <1>2, <2>1 DEF Exit
<1>3. ASSUME NEW t \in Threads, SuspendOutside(t)
      PROVE  ScopeInv'
  BY <1>3 DEF SuspendOutside
<1>4. ASSUME NEW t \in Threads, ResumeOutside(t)
      PROVE  ScopeInv'
  BY <1>4 DEF ResumeOutside
<1>5. ASSUME NEW t \in Threads, LockHeap(t) \/ UnlockHeap(t)
      PROVE  ScopeInv'
  BY <1>5 DEF LockHeap, UnlockHeap
<1> QED
  BY <1>1, <1>2, <1>3, <1>4, <1>5 DEF Process

\* A pass suspends a thread it does not hold; resuming takes back what it did.
LEMMA CountStep ==
  ASSUME ScopeInv, NEW t \in Threads, SuspendThread(t) \/ ResumeThread(t)
  PROVE  ScopeInv'
<1> USE DEF ScopeInv, TypeOK, SuspensionsBalanced, ScopeShape, SnapshotSplit, HeldAlive,
            HeldByScope, process, At, Phases
<1>1. CASE SuspendThread(t)
  <2>1. /\ t \notin HeldByScope
        /\ pending = None
        /\ suspendCount[t] = outside[t]
    BY <1>1 DEF SuspendThread
  <2>2. TypeOK' /\ SuspensionsBalanced'
    BY <1>1, <2>1 DEF SuspendThread
  <2>3. ScopeShape' /\ SnapshotSplit' /\ HeldAlive'
    BY <1>1, <2>1 DEF SuspendThread
  <2> QED
    BY <2>2, <2>3
<1>2. CASE ResumeThread(t)
  <2>1. pending = None /\ suspendCount[t] = outside[t] + 1
    BY <1>2 DEF ResumeThread
  <2> QED
    BY <1>2, <2>1 DEF ResumeThread
<1> QED
  BY <1>1, <1>2

\* The other steps of the scope change no suspend count.
LEMMA PassStep ==
  ASSUME ScopeInv, Scope, UNCHANGED suspendCount
  PROVE  ScopeInv'
<1> USE DEF ScopeInv, TypeOK, SuspensionsBalanced, ScopeShape, SnapshotSplit, HeldAlive,
            HeldByScope, process, At, Phases
<1>1. CASE TakeSnapshot
  BY <1>1 DEF TakeSnapshot
<1>2. CASE PushBack
  <2>1. capacity' \in Nat
    BY <1>2 DEF PushBack, Grown
  <2> QED
    BY <1>2, <2>1 DEF PushBack
<1>3. CASE WalkFails
  BY <1>3 DEF WalkFails
<1>4. CASE WalkEnds
  BY <1>4 DEF WalkEnds
<1>5. CASE Retry
  BY <1>5 DEF Retry
<1>6. CASE Leave
  BY <1>6 DEF Leave
<1>7. CASE Unlock
  BY <1>7 DEF Unlock
<1>8. ASSUME NEW t \in Threads, SuspendThread(t) \/ ResumeThread(t)
      PROVE  FALSE
  BY <1>8 DEF SuspendThread, ResumeThread
<1> QED
  BY <1>1, <1>2, <1>3, <1>4, <1>5, <1>6, <1>7, <1>8 DEF Scope, Passes

\* Every step keeps the invariant of the scope.
LEMMA ScopeInvStep == ScopeInv /\ [Next]_vars => ScopeInv'
<1> SUFFICES ASSUME ScopeInv, [Next]_vars
             PROVE  ScopeInv'
  OBVIOUS
<1>1. CASE Process
  BY <1>1, ProcessStep
<1>2. ASSUME NEW p \in Patchers, Enter(p)
      PROVE  ScopeInv'
  <2>1. threads = {} /\ pending = None /\ p # None
    BY <1>2 DEF Enter, ScopeInv, ScopeShape
  <2>2. HeldByScope = {} /\ HeldByScope' = {}
    BY <1>2, <2>1 DEF Enter, HeldByScope
  <2>3. TypeOK'
    BY <1>2, ZeroInBounds DEF Enter, ScopeInv, TypeOK, process, Phases
  <2>4. SuspensionsBalanced' /\ HeldAlive'
    BY <1>2, <2>2 DEF Enter, ScopeInv, SuspensionsBalanced, HeldAlive, process
  <2>5. ScopeShape' /\ SnapshotSplit'
    BY <1>2, <2>1, <2>2 DEF Enter, ScopeInv, TypeOK, ScopeShape, SnapshotSplit
  <2> QED
    BY <2>3, <2>4, <2>5 DEF ScopeInv
<1>3. CASE Scope
  <2>1. CASE \E t \in Threads : SuspendThread(t) \/ ResumeThread(t)
    BY <2>1, CountStep
  <2>2. CASE ~\E t \in Threads : SuspendThread(t) \/ ResumeThread(t)
    <3>1. UNCHANGED suspendCount
      BY <1>3, <2>2 DEF Scope, Passes, TakeSnapshot, PushBack, WalkFails, WalkEnds, Retry,
                        Leave, Unlock
    <3> QED
      BY <1>3, <3>1, PassStep
  <2> QED
    BY <2>1, <2>2
<1>4. CASE UNCHANGED vars
  BY <1>4 DEF vars, scope, members, process, ScopeInv, TypeOK, SuspensionsBalanced, ScopeShape,
              SnapshotSplit, HeldAlive, HeldByScope
<1> QED
  BY <1>1, <1>2, <1>3, <1>4 DEF Next

\* The inductive invariant of the suspension scope.
THEOREM ScopeInvariant == Spec => []ScopeInv
BY ScopeInvInit, ScopeInvStep, PTL DEF Spec

\* Type correctness of the suspension scope.
THEOREM TypeCorrect == Spec => []TypeOK
<1>1. ScopeInv => TypeOK
  BY DEF ScopeInv
<1> QED
  BY <1>1, ScopeInvariant, PTL

\* Each suspension is undone exactly once, whatever threads do meanwhile.
THEOREM SuspensionsBalancedHolds == Spec => []SuspensionsBalanced
<1>1. ScopeInv => SuspensionsBalanced
  BY DEF ScopeInv
<1> QED
  BY <1>1, ScopeInvariant, PTL

\* An open window holds its whole snapshot, a refused one nothing.
THEOREM WindowOrNothingHolds == Spec => []WindowOrNothing
<1>1. ScopeInv => WindowOrNothing
  BY DEF ScopeInv, WindowOrNothing, ScopeShape, SnapshotSplit, HeldByScope
<1> QED
  BY <1>1, ScopeInvariant, PTL
-----------------------------------------------------------------------------
(* The scope gets on: what ResumedUnlessHeapSuspended rests on.            *)

\* The scope never suspends its own thread, which lives as long as it does.
NotItself == owner # None => owner \in alive /\ owner \notin HeldByScope

\* Every step keeps the scope's thread out of it.
LEMMA NotItselfStep ==
  ASSUME ScopeInv, NotItself, [Next]_vars
  PROVE  NotItself'
<1> USE DEF NotItself, HeldByScope, scope, members, process
<1>1. CASE Process
  BY <1>1 DEF Process, Start, Exit, SuspendOutside, ResumeOutside, LockHeap, UnlockHeap
<1>2. ASSUME NEW p \in Patchers, Enter(p)
      PROVE  NotItself'
  BY <1>2 DEF Enter, Running, ScopeInv, ScopeShape
<1>3. CASE Scope
  <2>1. ASSUME NEW t \in Threads, SuspendThread(t)
        PROVE  NotItself'
    BY <2>1 DEF SuspendThread, At, ScopeInv, SnapshotSplit
  <2> QED
    BY <1>3, <2>1 DEF Scope, Passes, TakeSnapshot, PushBack, WalkFails, WalkEnds, Retry, Leave,
                      Unlock, ResumeThread
<1>4. CASE UNCHANGED vars
  BY <1>4 DEF vars
<1> QED
  BY <1>1, <1>2, <1>3, <1>4 DEF Next

\* A thread is not suspended by its own scope: only other code can stop it there.
THEOREM OwnerNotSuspended ==
  Spec => [](owner # None => owner \in alive /\ suspendCount[owner] = outside[owner])
<1>1. Init => NotItself
  BY DEF Init, NotItself
<1>2. ScopeInv /\ NotItself => (owner # None => owner \in alive /\ suspendCount[owner] = outside[owner])
  BY DEF ScopeInv, TypeOK, NotItself, SuspensionsBalanced
<1> QED
  BY <1>1, <1>2, NotItselfStep, ScopeInvariant, PTL DEF Spec

\* How far a pass has come, and what its stage has left to do.
Stage == [snapshot |-> 5, walk |-> 4, push |-> 4, undo |-> 3, window |-> 2, resume |-> 1, out |-> 0]

Remaining == IF phase \in {"walk", "push"} THEN 2 * Cardinality(todo) + (IF phase = "push" THEN 1 ELSE 0)
             ELSE Cardinality(threads)

\* One attempt fewer is left; or the pass is at a later stage; or the stage has less to do.
Closer ==
  \/ attempt' > attempt /\ attempt' <= kAttempts
  \/ attempt' = attempt /\ Stage[phase'] < Stage[phase]
  \/ /\ attempt' = attempt /\ Stage[phase'] = Stage[phase]
     /\ Remaining' \in Nat /\ Remaining' < Remaining

\* Each step of the scope brings its end closer.
LEMMA ScopeStepCloser ==
  ASSUME ScopeInv, Scope
  PROVE  Closer
<1>1. \A S \in SUBSET Threads : IsFiniteSet(S) /\ Cardinality(S) \in Nat
  BY FS_Subset, FS_CardinalityType
<1>2. \A S \in SUBSET Threads : \A t \in S :
        Cardinality(S \ {t}) \in Nat /\ Cardinality(S \ {t}) = Cardinality(S) - 1
  BY <1>1, FS_RemoveElement
<1>3. /\ Stage["snapshot"] = 5 /\ Stage["walk"] = 4 /\ Stage["push"] = 4 /\ Stage["undo"] = 3
      /\ Stage["window"] = 2 /\ Stage["resume"] = 1 /\ Stage["out"] = 0
  BY DEF Stage
<1>4. /\ attempt \in 0..kAttempts /\ todo \in SUBSET Threads /\ threads \in SUBSET Threads
      /\ phase \in {"walk", "push", "undo"} => attempt < kAttempts
  BY DEF ScopeInv, TypeOK, ScopeShape
<1>5. CASE TakeSnapshot
  BY <1>3, <1>4, <1>5 DEF TakeSnapshot, At, Closer
<1>6. CASE WalkFails \/ WalkEnds
  BY <1>3, <1>6 DEF WalkFails, WalkEnds, At, Closer
<1>7. CASE Retry
  BY <1>4, <1>7 DEF Retry, At, Closer
<1>8. CASE Leave \/ Unlock
  BY <1>3, <1>8 DEF Leave, Unlock, At, Closer
<1>9. CASE PushBack
  <2>1. phase = "push" /\ phase' = "walk" /\ todo' = todo /\ attempt' = attempt
    BY <1>9 DEF PushBack, At
  <2>2. Cardinality(todo) \in Nat
    BY <1>1, <1>4
  <2>3. Remaining = 2 * Cardinality(todo) + 1 /\ Remaining' = 2 * Cardinality(todo)
    BY <2>1, <2>2 DEF Remaining
  <2> QED
    BY <1>3, <2>1, <2>2, <2>3 DEF Closer
<1>10. ASSUME NEW t \in Threads, SuspendThread(t)
       PROVE  Closer
  <2>1. phase = "walk" /\ phase' = "push" /\ t \in todo /\ todo' = todo \ {t} /\ attempt' = attempt
    BY <1>10 DEF SuspendThread, At
  <2>2. /\ Cardinality(todo) \in Nat /\ Cardinality(todo') \in Nat
        /\ Cardinality(todo') = Cardinality(todo) - 1
    BY <1>1, <1>2, <1>4, <2>1
  <2>3. Remaining = 2 * Cardinality(todo) /\ Remaining' = 2 * Cardinality(todo') + 1
    BY <2>1, <2>2 DEF Remaining
  <2> QED
    BY <1>3, <2>1, <2>2, <2>3 DEF Closer
<1>11. ASSUME NEW t \in Threads, ResumeThread(t)
       PROVE  Closer
  <2>1. /\ phase \in {"undo", "resume"} /\ phase' = phase /\ attempt' = attempt
        /\ t \in threads /\ threads' = threads \ {t}
    BY <1>11 DEF ResumeThread, At
  <2>2. /\ Cardinality(threads) \in Nat /\ Cardinality(threads') \in Nat
        /\ Cardinality(threads') = Cardinality(threads) - 1
    BY <1>1, <1>2, <1>4, <2>1
  <2>3. Remaining = Cardinality(threads) /\ Remaining' = Cardinality(threads')
    BY <2>1 DEF Remaining
  <2> QED
    BY <1>3, <2>1, <2>2, <2>3 DEF Closer
<1> QED
  BY <1>5, <1>6, <1>7, <1>8, <1>9, <1>10, <1>11 DEF Scope, Passes

\* The constructor and the destructor end: each of their steps uses up an attempt,
\* a stage or a thread of the list, and nobody else's step gives any of it back.
THEOREM ScopeGetsOn ==
  Spec => [][/\ Scope => Closer
             /\ ~Scope /\ owner # None => UNCHANGED <<attempt, phase, todo, threads>>]_vars
<1>1. ScopeInv /\ [Next]_vars
        => [/\ Scope => Closer
            /\ ~Scope /\ owner # None => UNCHANGED <<attempt, phase, todo, threads>>]_vars
  <2> SUFFICES ASSUME ScopeInv, Next
               PROVE  /\ Scope => Closer
                      /\ ~Scope /\ owner # None => UNCHANGED <<attempt, phase, todo, threads>>
    OBVIOUS
  <2>1. CASE Process
    BY <2>1, ScopeStepCloser
    DEF Process, Start, Exit, SuspendOutside, ResumeOutside, LockHeap, UnlockHeap, scope, members
  <2>2. CASE \E p \in Patchers : Enter(p)
    BY <2>2, ScopeStepCloser DEF Enter
  <2> QED
    BY <2>1, <2>2, ScopeStepCloser DEF Next
<1> QED
  BY <1>1, ScopeInvariant, PTL DEF Spec
-----------------------------------------------------------------------------
(* Who runs in a window.                                                   *)

\* The threads the snapshot of a pass lacks were created after it.
SnapshotComplete ==
  phase \in {"walk", "push"} \/ (phase = "window" /\ ok) =>
    alive \ {owner} \subseteq snapshot \cup newcomers

\* Every step keeps track of the threads the snapshot lacks.
LEMMA SnapshotCompleteStep ==
  ASSUME ScopeInv, SnapshotComplete, [Next]_vars
  PROVE  SnapshotComplete'
<1> USE DEF SnapshotComplete, scope, members, process
<1>1. ASSUME NEW c \in Threads, NEW t \in Threads, Start(c, t)
      PROVE  SnapshotComplete'
  BY <1>1 DEF Start, ScopeInv, ScopeShape
<1>2. CASE Process /\ ~\E c, t \in Threads : Start(c, t)
  BY <1>2 DEF Process, Exit, SuspendOutside, ResumeOutside, LockHeap, UnlockHeap
<1>3. ASSUME NEW p \in Patchers, Enter(p)
      PROVE  SnapshotComplete'
  BY <1>3 DEF Enter
<1>4. CASE Scope
  BY <1>4 DEF Scope, Passes, At, TakeSnapshot, PushBack, WalkFails, WalkEnds, Retry, Leave,
              Unlock, SuspendThread, ResumeThread, ScopeInv, ScopeShape
<1>5. CASE UNCHANGED vars
  BY <1>5 DEF vars
<1> QED
  BY <1>1, <1>2, <1>3, <1>4, <1>5 DEF Next

\* A thread that runs in an open window, the patcher's apart, was created after
\* the snapshot: the walk misses none that it could know of.
THEOREM OnlyNewcomersRunHolds == Spec => []OnlyNewcomersRun
<1>1. Init => SnapshotComplete
  BY DEF Init, SnapshotComplete
<1>2. ScopeInv /\ SnapshotComplete /\ [Next]_vars => SnapshotComplete'
  BY SnapshotCompleteStep
<1>3. ScopeInv /\ SnapshotComplete => OnlyNewcomersRun
  BY DEF ScopeInv, SnapshotComplete, OnlyNewcomersRun, SnapshotSplit, SuspensionsBalanced,
         HeldByScope, TypeOK, Running
<1> QED
  BY <1>1, <1>2, <1>3, ScopeInvariant, PTL DEF Spec
=============================================================================
