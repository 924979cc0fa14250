-------------------------- MODULE ThreadSuspension --------------------------
(***************************************************************************)
(* memory/ThreadSuspension.cpp: the scope that suspends the other threads  *)
(* of the process for the time raw bytes are written.  The constructor     *)
(* takes a snapshot of the threads and suspends them one at a time, while  *)
(* those it has not reached yet still run: they exit, start threads, lock  *)
(* the process heap.  A failed pass is undone and tried again; the scope's *)
(* m_ok says whether a pass succeeded.  One mutex admits one scope at a    *)
(* time, so its members are variables here and `owner` is its thread.      *)
(*                                                                         *)
(* m_threads is a vector: growing it takes the process heap lock.          *)
(***************************************************************************)
EXTENDS Naturals, FiniteSets

CONSTANTS Threads,      \* thread identifiers of the process, free to be reused
          Patchers,     \* threads that open a suspension scope
          HeapUsers,    \* threads that allocate and free
          None,         \* no thread
          kAttempts,    \* passes of the constructor (4)
          MaxOutside,   \* bound on the suspensions that are not the scope's
          ThreadsStart  \* whether threads are created at run time

ASSUME ThreadsAssumption ==
  /\ IsFiniteSet(Threads) /\ None \notin Threads
  /\ Patchers \subseteq Threads /\ HeapUsers \subseteq Threads
ASSUME BoundsAssumption == kAttempts \in Nat /\ MaxOutside \in Nat /\ ThreadsStart \in BOOLEAN

VARIABLES
  alive,         \* threads that exist
  suspendCount,  \* the kernel's suspend count of each thread
  heap,          \* owner of the process heap lock
  owner,         \* owner of g_suspendMutex
  phase,         \* what the scope does next
  attempt,       \* passes that failed
  todo,          \* threads of the snapshot the pass has not reached
  pending,       \* suspended, its handle not yet in m_threads
  threads,       \* m_threads
  capacity,      \* m_threads.capacity()
  ok,            \* m_ok
  outside,       \* history: suspensions of each thread that are not the scope's
  snapshot,      \* history: threads the snapshot of this pass found
  newcomers      \* history: threads created since that snapshot

process == <<alive, heap, outside>>
members == <<owner, phase, attempt, todo, pending, threads, capacity, ok, snapshot>>
scope == <<members, newcomers>>
vars == <<process, suspendCount, scope>>
-----------------------------------------------------------------------------
(* The process.                                                            *)

Running(t) == t \in alive /\ suspendCount[t] = 0

\* A thread starts another one, which may be created suspended.
Start(creator, t) ==
  /\ ThreadsStart
  /\ Running(creator) /\ creator # owner
  /\ t \notin alive
  /\ alive' = alive \cup {t}
  /\ \E n \in 0..MaxOutside : /\ suspendCount' = [suspendCount EXCEPT ![t] = n]
                              /\ outside' = [outside EXCEPT ![t] = n]
  /\ newcomers' = IF owner = None THEN newcomers ELSE newcomers \cup {t}
  /\ UNCHANGED <<heap, members>>

\* A thread ends; the process itself does not.
Exit(t) == /\ Running(t) /\ t \notin {owner, heap}
           /\ alive # {t}
           /\ alive' = alive \ {t}
           /\ UNCHANGED <<suspendCount, heap, outside, scope>>

\* Some other code of the process suspends a thread, or resumes it.
SuspendOutside(t) ==
  /\ t \in alive /\ outside[t] < MaxOutside
  /\ outside' = [outside EXCEPT ![t] = @ + 1]
  /\ suspendCount' = [suspendCount EXCEPT ![t] = @ + 1]
  /\ UNCHANGED <<alive, heap, scope>>

ResumeOutside(t) ==
  /\ outside[t] > 0
  /\ outside' = [outside EXCEPT ![t] = @ - 1]
  /\ suspendCount' = [suspendCount EXCEPT ![t] = @ - 1]
  /\ UNCHANGED <<alive, heap, scope>>

LockHeap(t) == /\ t \in HeapUsers /\ Running(t) /\ t # owner /\ heap = None
               /\ heap' = t
               /\ UNCHANGED <<alive, suspendCount, outside, scope>>

UnlockHeap(t) == /\ Running(t) /\ heap = t
                 /\ heap' = None
                 /\ UNCHANGED <<alive, suspendCount, outside, scope>>

Process ==
  \/ \E c, t \in Threads : Start(c, t)
  \/ \E t \in Threads : \/ Exit(t) \/ SuspendOutside(t) \/ ResumeOutside(t)
                        \/ LockHeap(t) \/ UnlockHeap(t)
-----------------------------------------------------------------------------
(* The scope.                                                              *)

\* g_suspendMutex.lock() at the head of the constructor.
Enter(p) ==
  /\ owner = None
  /\ Running(p) /\ heap # p
  /\ owner' = p
  /\ phase' = "snapshot"
  /\ attempt' = 0
  /\ threads' = {}
  /\ capacity' = 0
  /\ ok' = FALSE
  /\ snapshot' = {}
  /\ UNCHANGED <<process, suspendCount, todo, pending, newcomers>>

At(p) == owner # None /\ Running(owner) /\ phase = p

\* Mutated TakeSnapshot: the first entry of the list is taken for granted.
SnapshotSkipsFirst ==
  /\ At("snapshot")
  /\ phase' = "walk"
  /\ \E t \in Threads : todo' = alive \ {owner, t}
  /\ snapshot' = todo'
  /\ newcomers' = {}
  /\ UNCHANGED <<process, suspendCount, owner, attempt, pending, threads, capacity, ok>>

\* CreateToolhelp32Snapshot and Thread32First, or the end of the attempts.
TakeSnapshot ==
  /\ At("snapshot")
  /\ \/ /\ attempt = kAttempts
        /\ phase' = "window"
        /\ UNCHANGED <<attempt, todo, snapshot, newcomers>>
     \/ /\ attempt < kAttempts
        /\ attempt' = attempt + 1
        /\ UNCHANGED <<phase, todo, snapshot, newcomers>>
     \/ /\ attempt < kAttempts
        /\ phase' = "walk"
        /\ todo' = alive \ {owner}
        /\ snapshot' = alive \ {owner}
        /\ newcomers' = {}
        /\ UNCHANGED attempt
  /\ UNCHANGED <<process, suspendCount, owner, pending, threads, capacity, ok>>

\* OpenThread and SuspendThread succeed.
SuspendThread(t) ==
  /\ At("walk")
  /\ t \in todo \intersect alive
  /\ suspendCount' = [suspendCount EXCEPT ![t] = @ + 1]
  /\ todo' = todo \ {t}
  /\ pending' = t
  /\ phase' = "push"
  /\ UNCHANGED <<process, owner, attempt, threads, capacity, ok, snapshot, newcomers>>

\* What the library makes of a full vector.
Grown == IF capacity + capacity \div 2 > capacity THEN capacity + capacity \div 2 ELSE capacity + 1

\* m_threads.push_back(thread): blocks for the heap when the vector is full.
PushBack ==
  /\ At("push")
  /\ IF Cardinality(threads) < capacity
     THEN UNCHANGED capacity
     ELSE heap = None /\ capacity' = Grown
  /\ threads' = threads \cup {pending}
  /\ pending' = None
  /\ phase' = "walk"
  /\ UNCHANGED <<process, suspendCount, owner, attempt, todo, ok, snapshot, newcomers>>

\* Mutated WalkFails: a thread that cannot be suspended is passed over.
SkipThread ==
  /\ At("walk")
  /\ \E t \in todo : todo' = todo \ {t}
  /\ UNCHANGED <<process, suspendCount, owner, phase, attempt, pending, threads, capacity, ok, snapshot, newcomers>>

\* Mutated WalkFails: the threads suspended so far are forgotten.
ForgetThreads ==
  /\ At("walk")
  /\ phase' = "snapshot"
  /\ attempt' = attempt + 1
  /\ threads' = {}
  /\ UNCHANGED <<process, suspendCount, owner, todo, pending, capacity, ok, snapshot, newcomers>>

\* A thread of the snapshot cannot be opened or suspended (it may have exited),
\* or the enumeration stops short.
WalkFails ==
  /\ At("walk")
  /\ phase' = "undo"
  /\ UNCHANGED <<process, suspendCount, owner, attempt, todo, pending, threads, capacity, ok, snapshot, newcomers>>

\* Thread32Next reports the clean end of the list.
WalkEnds ==
  /\ At("walk")
  /\ todo = {}
  /\ ok' = TRUE
  /\ phase' = "window"
  /\ UNCHANGED <<process, suspendCount, owner, attempt, todo, pending, threads, capacity, snapshot, newcomers>>

\* ResumeThread and CloseHandle, one thread at a time, in ResumeAndClose (an
\* undone pass) and in the destructor.
ResumeThread(t) ==
  /\ At("undo") \/ At("resume")
  /\ t \in threads
  /\ suspendCount' = [suspendCount EXCEPT ![t] = @ - 1]
  /\ threads' = threads \ {t}
  /\ UNCHANGED <<process, owner, phase, attempt, todo, pending, capacity, ok, snapshot, newcomers>>

Retry ==
  /\ At("undo")
  /\ threads = {}
  /\ attempt' = attempt + 1
  /\ phase' = "snapshot"
  /\ UNCHANGED <<process, suspendCount, owner, todo, pending, threads, capacity, ok, snapshot, newcomers>>

\* The window ends: the destructor is called.
Leave ==
  /\ At("window")
  /\ phase' = "resume"
  /\ UNCHANGED <<process, suspendCount, owner, attempt, todo, pending, threads, capacity, ok, snapshot, newcomers>>

\* g_suspendMutex.unlock() at the end of the destructor.
Unlock ==
  /\ At("resume")
  /\ threads = {}
  /\ owner' = None
  /\ phase' = "out"
  /\ ok' = FALSE
  /\ newcomers' = {}
  /\ UNCHANGED <<process, suspendCount, attempt, todo, pending, threads, capacity, snapshot>>

\* The scope's own steps, those of the window left out.
Passes ==
  \/ TakeSnapshot \/ PushBack \/ WalkFails \/ WalkEnds \/ Retry \/ Unlock
  \/ \E t \in Threads : SuspendThread(t) \/ ResumeThread(t)

Scope == Passes \/ Leave
-----------------------------------------------------------------------------
Init ==
  /\ alive \in {a \in SUBSET Threads : Patchers \subseteq a}
  /\ outside = [t \in Threads |-> 0]
  /\ suspendCount = [t \in Threads |-> 0]
  /\ heap = None
  /\ owner = None
  /\ phase = "out"
  /\ attempt = 0
  /\ todo = {}
  /\ pending = None
  /\ threads = {}
  /\ capacity = 0
  /\ ok = FALSE
  /\ snapshot = {}
  /\ newcomers = {}

Next == Process \/ (\E p \in Patchers : Enter(p)) \/ Scope

Spec == Init /\ [][Next]_vars

\* The scope gets on when it can run and the heap is free often enough; a
\* running thread that holds the heap frees it.
Fairness == SF_vars(Scope) /\ \A t \in HeapUsers : WF_vars(UnlockHeap(t))

FairSpec == Spec /\ Fairness
-----------------------------------------------------------------------------
(* Properties.                                                             *)

Phases == {"out", "snapshot", "walk", "push", "undo", "window", "resume"}

TypeOK ==
  /\ alive \subseteq Threads
  /\ suspendCount \in [Threads -> 0..MaxOutside + 1]
  /\ heap \in Threads \cup {None}
  /\ owner \in Threads \cup {None}
  /\ phase \in Phases
  /\ attempt \in 0..kAttempts
  /\ todo \subseteq Threads
  /\ pending \in Threads \cup {None}
  /\ threads \subseteq Threads
  /\ capacity \in Nat
  /\ ok \in BOOLEAN
  /\ outside \in [Threads -> 0..MaxOutside]
  /\ snapshot \subseteq Threads
  /\ newcomers \subseteq Threads

HeldByScope == threads \cup ({pending} \ {None})

\* "Every successfully suspended thread is resumed exactly once": at any time
\* the scope is responsible for one suspension of each thread it holds and for
\* none of any other, through failed passes, retries and threads that start,
\* exit, or are suspended by others meanwhile.
SuspensionsBalanced ==
  \A t \in Threads : suspendCount[t] = outside[t] + IF t \in HeldByScope THEN 1 ELSE 0

\* A scope that reports Ok() holds every thread of its snapshot and not its own;
\* one that does not, or is gone, holds none.
WindowOrNothing ==
  /\ phase = "window" /\ ok => snapshot = threads /\ owner \notin threads
  /\ phase = "window" /\ ~ok => HeldByScope = {}
  /\ owner = None => HeldByScope = {}

\* A thread that runs in a window that reports Ok() was created after the
\* snapshot of its pass, however many passes failed before it and whatever
\* started, exited or was suspended by others meanwhile: of the threads the walk
\* could know of, none escapes it, one with the identifier of a dead thread included.
OnlyNewcomersRun ==
  phase = "window" /\ ok => \A t \in alive \ {owner} : Running(t) => t \in newcomers

\* "Suspend every other thread in this process": in the window of a scope that
\* reports Ok() no thread runs but its own.  It fails: one that the walk has not
\* come to yet creates another, which the snapshot lacks.
OthersSuspended ==
  phase = "window" /\ ok => \A t \in alive \ {owner} : ~Running(t)

\* The thread that holds the heap is one the scope suspended.
HeapSuspended == heap \in HeldByScope

\* "Worker resumes after scope destruction": every thread a scope suspends is
\* resumed at last.
SuspendedThreadsResumed ==
  \A t \in Threads : suspendCount[t] > outside[t] ~> suspendCount[t] = outside[t]

\* It is unless the scope suspended the thread that holds the heap, or other
\* code of the process suspends threads as well.
ResumedUnlessHeapSuspended ==
  \A t \in Threads :
    suspendCount[t] > outside[t] ~>
      (suspendCount[t] = outside[t] \/ HeapSuspended \/ \E u \in Threads : outside[u] > 0)
=============================================================================
