------------------------------ MODULE JobGuard ------------------------------
(***************************************************************************)
(* The job-queue guard of antitamper/RE9FamilyBypass.cpp.  Scheduler       *)
(* threads load a job function from a descriptor (entry + 8) and are about *)
(* to call it; a mid-hook between the load and the call validates the      *)
(* pointer.  The anti-tamper code replaces pointers in descriptors by the  *)
(* address of a UD2 gadget or by garbage; the scheduler submits new jobs   *)
(* in the same descriptors.  All guards share one cache, descriptor ->     *)
(* last legitimate function, under a shared_mutex.                         *)
(*                                                                         *)
(* What a pointer points at does not change: Functions stay mapped code,   *)
(* Gadgets stay UD2, Unreadable stays unmapped.                            *)
(***************************************************************************)
EXTENDS Naturals, FiniteSets

CONSTANTS Threads,      \* scheduler threads
          Entries,      \* job descriptors
          Functions,    \* legitimate job functions
          Gadgets,      \* addresses of a UD2
          Unreadable,   \* addresses that cannot be read
          Null,         \* a zero function pointer / no cache entry
          NoopJob,      \* the harmless replacement
          InsertMayFail,\* the cache may be out of memory
          EntryMayFault \* a descriptor may be unmapped before its repair

ASSUME KindsAssumption ==
  /\ Functions \intersect Gadgets = {}
  /\ Functions \intersect Unreadable = {}
  /\ Gadgets \intersect Unreadable = {}
  /\ Null \notin Functions \cup Gadgets \cup Unreadable
  /\ NoopJob \notin Functions \cup Gadgets \cup Unreadable \cup {Null}
ASSUME FlagsAssumption == InsertMayFail \in BOOLEAN /\ EntryMayFault \in BOOLEAN

Pointers == Functions \cup Gadgets \cup Unreadable \cup {Null}
Corrupt == Gadgets \cup Unreadable

VARIABLES
  slot,     \* descriptor -> the pointer at entry + 8
  cache,    \* JobFunctionCache: descriptor -> function, or Null
  pc,       \* thread -> its next step
  entry,    \* thread -> the descriptor register
  func,     \* thread -> the pointer it loaded
  rax,      \* thread -> what it will call
  seen,     \* history: descriptor -> functions some guard found there
  lastSeen  \* history: descriptor -> the function loaded there last

vars == <<slot, cache, pc, entry, func, rax, seen, lastSeen>>
-----------------------------------------------------------------------------
(* The game.                                                               *)

\* A job is submitted in a descriptor, used before or not.
Submit(e) == /\ slot' \in {[slot EXCEPT ![e] = f] : f \in Functions \cup {Null}}
             /\ UNCHANGED <<cache, pc, entry, func, rax, seen, lastSeen>>

\* The anti-tamper code replaces a pending pointer.
Tamper(e) == /\ slot[e] # Null
             /\ slot' \in {[slot EXCEPT ![e] = p] : p \in Corrupt}
             /\ UNCHANGED <<cache, pc, entry, func, rax, seen, lastSeen>>

\* mov rax, [entry + 8], the instruction before the hooked one.
Load(t, e) ==
  /\ pc[t] = "idle"
  /\ entry' = [entry EXCEPT ![t] = e]
  /\ func' = [func EXCEPT ![t] = slot[e]]
  /\ rax' = [rax EXCEPT ![t] = slot[e]]
  /\ pc' = [pc EXCEPT ![t] = "hook"]
  /\ IF slot[e] \in Functions
     THEN /\ seen' = [seen EXCEPT ![e] = @ \cup {slot[e]}]
          /\ lastSeen' = [lastSeen EXCEPT ![e] = slot[e]]
     ELSE UNCHANGED <<seen, lastSeen>>
  /\ UNCHANGED <<slot, cache>>

\* call rax, after the hook returned.
Call(t) == /\ pc[t] = "call"
           /\ pc' = [pc EXCEPT ![t] = "idle"]
           /\ func' = [func EXCEPT ![t] = Null]
           /\ rax' = [rax EXCEPT ![t] = Null]
           /\ UNCHANGED <<slot, cache, entry, seen, lastSeen>>
-----------------------------------------------------------------------------
(* The guard, ValidateJobFunc.                                             *)

\* Mutated DecideJob: an unreadable target is remembered like a readable one.
DecideUnprobed(f, cached) ==
  CASE f = Null -> "LeaveUnchanged"
    [] f \in Gadgets /\ cached # Null /\ cached # f -> "RestoreCached"
    [] f \in Gadgets /\ ~(cached # Null /\ cached # f) -> "SubstituteNoop"
    [] OTHER -> "RememberOriginal"

\* DecideJob, on what the probe of the pointer tells.
DecideJob(f, cached) ==
  CASE f = Null -> "LeaveUnchanged"
    [] f \in Unreadable -> "SubstituteNoop"
    [] f \in Gadgets /\ cached # Null /\ cached # f -> "RestoreCached"
    [] f \in Gadgets /\ ~(cached # Null /\ cached # f) -> "SubstituteNoop"
    [] OTHER -> "RememberOriginal"

\* The pointer is probed, the cache read under the shared lock, and the
\* decision applied to the register that will be called.
Validate(t) ==
  LET action == DecideJob(func[t], cache[entry[t]])
  IN  /\ pc[t] = "hook"
      /\ rax' = CASE action = "RestoreCached" -> [rax EXCEPT ![t] = cache[entry[t]]]
                  [] action = "SubstituteNoop" -> [rax EXCEPT ![t] = NoopJob]
                  [] OTHER -> rax
      /\ pc' = [pc EXCEPT ![t] = CASE action = "RememberOriginal" -> "remember"
                                   [] action = "RestoreCached" -> "repair"
                                   [] OTHER -> "call"]
      /\ UNCHANGED <<slot, cache, entry, func, seen, lastSeen>>

\* RememberJobFunction, under the shared lock: nothing to do for a function
\* that is cached already.
CheckCached(t) ==
  /\ pc[t] = "remember"
  /\ pc' = [pc EXCEPT ![t] = IF cache[entry[t]] = func[t] THEN "call" ELSE "insert"]
  /\ UNCHANGED <<slot, cache, entry, func, rax, seen, lastSeen>>

\* RememberJobFunction, under the unique lock taken afterwards.
Insert(t) ==
  /\ pc[t] = "insert"
  /\ pc' = [pc EXCEPT ![t] = "call"]
  /\ \/ cache' = [cache EXCEPT ![entry[t]] = func[t]]
     \/ InsertMayFail /\ UNCHANGED cache
  /\ UNCHANGED <<slot, entry, func, rax, seen, lastSeen>>

\* Mutated CompareExchangeSlot: the separate compare and store it replaced,
\* when the slot changes between the two.
StoreSlot(e, expected, desired) == [slot EXCEPT ![e] = desired]

\* One atomic compare-exchange.
CompareExchangeSlot(e, expected, desired) ==
  IF slot[e] = expected THEN [slot EXCEPT ![e] = desired] ELSE slot

\* RepairJobEntry: the descriptor gets the restored pointer as well.
Repair(t) ==
  /\ pc[t] = "repair"
  /\ pc' = [pc EXCEPT ![t] = "call"]
  /\ \/ slot' = CompareExchangeSlot(entry[t], func[t], rax[t])
     \/ EntryMayFault /\ UNCHANGED slot
  /\ UNCHANGED <<cache, entry, func, rax, seen, lastSeen>>

Guard(t) == Validate(t) \/ CheckCached(t) \/ Insert(t) \/ Repair(t)
-----------------------------------------------------------------------------
Init ==
  /\ slot = [e \in Entries |-> Null]
  /\ cache = [e \in Entries |-> Null]
  /\ pc = [t \in Threads |-> "idle"]
  /\ entry \in [Threads -> Entries]
  /\ func = [t \in Threads |-> Null]
  /\ rax = [t \in Threads |-> Null]
  /\ seen = [e \in Entries |-> {}]
  /\ lastSeen = [e \in Entries |-> Null]

Next == \/ \E e \in Entries : Submit(e) \/ Tamper(e)
        \/ \E t \in Threads : (\E e \in Entries : Load(t, e)) \/ Guard(t) \/ Call(t)

Spec == Init /\ [][Next]_vars
-----------------------------------------------------------------------------
(* Properties.                                                             *)

TypeOK ==
  /\ slot \in [Entries -> Pointers]
  /\ cache \in [Entries -> Functions \cup {Null}]
  /\ pc \in [Threads -> {"idle", "hook", "remember", "insert", "repair", "call"}]
  /\ entry \in [Threads -> Entries]
  /\ func \in [Threads -> Pointers]
  /\ rax \in [Threads -> Pointers \cup {NoopJob}]
  /\ seen \in [Entries -> SUBSET Functions]
  /\ lastSeen \in [Entries -> Functions \cup {Null}]

\* What a guarded thread calls: a legitimate pointer exactly as loaded, and
\* never a UD2 or unreadable pointer.  In place of a UD2 it calls a function
\* some guard found in the same descriptor before, or the no-op; in place of
\* an unreadable pointer the no-op.
CallsTrusted ==
  \A t \in Threads : pc[t] = "call" =>
    /\ func[t] \in Functions \cup {Null} => rax[t] = func[t]
    /\ func[t] \in Gadgets => rax[t] \in seen[entry[t]] \cup {NoopJob}
    /\ func[t] \in Unreadable => rax[t] = NoopJob

\* A repair replaces nothing but the corrupt pointer its thread loaded, in the
\* descriptor it loaded it from: a newer job another thread submitted there
\* since is left untouched.
RepairKeepsNewerJob ==
  [][\A t \in Threads : pc[t] = "repair" /\ pc'[t] # "repair" =>
       \A e \in Entries : slot'[e] # slot[e] =>
         e = entry[t] /\ slot[e] = func[t] /\ slot[e] \in Gadgets /\ slot'[e] \in seen[e]]_vars

\* The cache maps a descriptor to "the last legitimate job function": when no
\* guard is working on the descriptor, the function loaded there last.
CacheHoldsLastFunction ==
  \A e \in Entries :
    (\A t \in Threads : entry[t] = e => pc[t] \in {"idle", "call"}) => cache[e] = lastSeen[e]
=============================================================================
