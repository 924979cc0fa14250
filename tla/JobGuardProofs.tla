--------------------------- MODULE JobGuardProofs ---------------------------
(* Proofs about JobGuard, for any threads, descriptors and pointers.       *)
EXTENDS JobGuard, TLAPS

\* Only functions found in a descriptor are cached for it.
CacheWasSeen == \A e \in Entries : cache[e] \in seen[e] \cup {Null}

\* What a thread holds at each step of the guard.
Pending(t) ==
  /\ pc[t] # "idle" /\ func[t] \in Functions => func[t] \in seen[entry[t]]
  /\ pc[t] = "hook" => rax[t] = func[t]
  /\ pc[t] \in {"remember", "insert"} => func[t] \in Functions /\ rax[t] = func[t]
  /\ pc[t] = "repair" => func[t] \in Gadgets /\ rax[t] \in seen[entry[t]]
  /\ pc[t] = "call" =>
       /\ func[t] \in Functions \cup {Null} => rax[t] = func[t]
       /\ func[t] \in Gadgets => rax[t] \in seen[entry[t]] \cup {NoopJob}
       /\ func[t] \in Unreadable => rax[t] = NoopJob

GuardInv == TypeOK /\ CacheWasSeen /\ \A t \in Threads : Pending(t)

USE KindsAssumption
-----------------------------------------------------------------------------
\* The types at first.
LEMMA TypeCorrectInit == Init => TypeOK
BY DEF Init, TypeOK, Pointers

\* Every step keeps the types.
LEMMA TypeCorrectStep ==
  ASSUME GuardInv, [Next]_vars
  PROVE  TypeOK'
<1> TypeOK /\ CacheWasSeen /\ \A t \in Threads : Pending(t)
  BY DEF GuardInv
<1> USE DEF TypeOK, Pointers
<1>1. ASSUME NEW e \in Entries, Submit(e) \/ Tamper(e)
      PROVE  TypeOK'
  BY <1>1 DEF Submit, Tamper, Corrupt
<1>2. ASSUME NEW t \in Threads, NEW e \in Entries, Load(t, e)
      PROVE  TypeOK'
  <2>1. CASE slot[e] \in Functions
    BY <1>2, <2>1 DEF Load
  <2>2. CASE slot[e] \notin Functions
    BY <1>2, <2>2 DEF Load
  <2> QED
    BY <2>1, <2>2
<1>3. ASSUME NEW t \in Threads, Validate(t)
      PROVE  TypeOK'
  <2> DEFINE action == DecideJob(func[t], cache[entry[t]])
  <2>1. action = "RestoreCached" => cache[entry[t]] \in Functions
    BY DEF DecideJob
  <2>2. rax' \in [Threads -> Pointers \cup {NoopJob}]
    BY <1>3, <2>1 DEF Validate
  <2>3. pc' \in [Threads -> {"idle", "hook", "remember", "insert", "repair", "call"}]
    BY <1>3 DEF Validate
  <2> QED
    BY <1>3, <2>2, <2>3 DEF Validate
<1>4. ASSUME NEW t \in Threads, CheckCached(t)
      PROVE  TypeOK'
  BY <1>4 DEF CheckCached
<1>5. ASSUME NEW t \in Threads, Insert(t)
      PROVE  TypeOK'
  <2>1. func[t] \in Functions
    BY <1>5 DEF Insert, Pending
  <2> QED
    BY <1>5, <2>1 DEF Insert
<1>6. ASSUME NEW t \in Threads, Repair(t)
      PROVE  TypeOK'
  <2>1. rax[t] \in Functions
    BY <1>6 DEF Repair, Pending
  <2> QED
    BY <1>6, <2>1 DEF Repair, CompareExchangeSlot
<1>7. ASSUME NEW t \in Threads, Call(t)
      PROVE  TypeOK'
  BY <1>7 DEF Call
<1>8. CASE UNCHANGED vars
  BY <1>8 DEF vars
<1> QED
  BY <1>1, <1>2, <1>3, <1>4, <1>5, <1>6, <1>7, <1>8 DEF Next, Guard

\* What is cached was seen in its descriptor.
LEMMA CacheWasSeenStep ==
  ASSUME GuardInv, [Next]_vars
  PROVE  CacheWasSeen'
<1> TypeOK /\ CacheWasSeen /\ \A t \in Threads : Pending(t)
  BY DEF GuardInv
<1> USE DEF TypeOK, CacheWasSeen
<1>1. ASSUME NEW e \in Entries, Submit(e) \/ Tamper(e)
      PROVE  CacheWasSeen'
  BY <1>1 DEF Submit, Tamper
<1>2. ASSUME NEW t \in Threads, NEW e \in Entries, Load(t, e)
      PROVE  CacheWasSeen'
  BY <1>2 DEF Load
<1>3. ASSUME NEW t \in Threads, Validate(t) \/ CheckCached(t) \/ Repair(t) \/ Call(t)
      PROVE  CacheWasSeen'
  BY <1>3 DEF Validate, CheckCached, Repair, Call
<1>4. ASSUME NEW t \in Threads, Insert(t)
      PROVE  CacheWasSeen'
  <2>1. func[t] \in seen[entry[t]]
    BY <1>4 DEF Insert, Pending
  <2> QED
    BY <1>4, <2>1 DEF Insert
<1>5. CASE UNCHANGED vars
  BY <1>5 DEF vars
<1> QED
  BY <1>1, <1>2, <1>3, <1>4, <1>5 DEF Next, Guard

\* What a guard is about to use was loaded or cached.
LEMMA PendingStep ==
  ASSUME GuardInv, [Next]_vars, NEW t \in Threads
  PROVE  Pending(t)'
<1> TypeOK /\ CacheWasSeen /\ Pending(t)
  BY DEF GuardInv
<1> USE DEF TypeOK, Pointers, Pending
<1>1. ASSUME NEW e \in Entries, Submit(e) \/ Tamper(e)
      PROVE  Pending(t)'
  BY <1>1 DEF Submit, Tamper
<1>2. ASSUME NEW u \in Threads, NEW e \in Entries, Load(u, e)
      PROVE  Pending(t)'
  <2>1. \A x \in Entries : seen[x] \subseteq seen'[x]
    BY <1>2 DEF Load
  <2>2. CASE u = t
    BY <1>2, <2>2 DEF Load
  <2>3. CASE u # t
    BY <1>2, <2>1, <2>3 DEF Load
  <2> QED
    BY <2>2, <2>3
<1>3. ASSUME NEW u \in Threads, u # t, Guard(u) \/ Call(u)
      PROVE  Pending(t)'
  BY <1>3 DEF Guard, Validate, CheckCached, Insert, Repair, Call
<1>4. CASE Validate(t)
  <2> DEFINE cached == cache[entry[t]]
             action == DecideJob(func[t], cached)
  <2>1. /\ rax[t] = func[t] /\ UNCHANGED <<entry, func, seen>>
        /\ cached \in seen[entry[t]] \cup {Null}
        /\ func[t] \in Functions => func[t] \in seen[entry[t]]
    BY <1>4 DEF Validate, CacheWasSeen
  <2>2. CASE func[t] = Null
    <3>1. action = "LeaveUnchanged"
      BY <2>2 DEF DecideJob
    <3> QED
      BY <1>4, <2>1, <2>2, <3>1 DEF Validate
  <2>3. CASE func[t] \in Unreadable
    <3>1. action = "SubstituteNoop"
      BY <2>3 DEF DecideJob
    <3> QED
      BY <1>4, <2>1, <2>3, <3>1 DEF Validate
  <2>4. CASE func[t] \in Gadgets /\ cached # Null
    <3>1. cached # func[t] /\ action = "RestoreCached"
      BY <2>4 DEF DecideJob
    <3> QED
      BY <1>4, <2>1, <2>4, <3>1 DEF Validate
  <2>5. CASE func[t] \in Gadgets /\ cached = Null
    <3>1. action = "SubstituteNoop"
      BY <2>5 DEF DecideJob
    <3> QED
      BY <1>4, <2>1, <2>5, <3>1 DEF Validate
  <2>6. CASE func[t] \in Functions
    <3>1. action = "RememberOriginal"
      BY <2>6 DEF DecideJob
    <3> QED
      BY <1>4, <2>1, <2>6, <3>1 DEF Validate
  <2> QED
    BY <2>2, <2>3, <2>4, <2>5, <2>6
<1>5. CASE CheckCached(t) \/ Insert(t) \/ Repair(t)
  BY <1>5 DEF CheckCached, Insert, Repair
<1>6. CASE Call(t)
  BY <1>6 DEF Call
<1>7. CASE UNCHANGED vars
  BY <1>7 DEF vars
<1> QED
  BY <1>1, <1>2, <1>3, <1>4, <1>5, <1>6, <1>7 DEF Next, Guard
-----------------------------------------------------------------------------
\* The inductive invariant of the guard: the types, that what is cached was seen
\* in its descriptor, and what each thread of ValidateJobFunc has in hand.
THEOREM GuardInvariant == Spec => []GuardInv
<1>1. Init => GuardInv
  BY TypeCorrectInit DEF Init, GuardInv, CacheWasSeen, Pending
<1>2. GuardInv /\ [Next]_vars => GuardInv'
  BY TypeCorrectStep, CacheWasSeenStep, PendingStep DEF GuardInv
<1> QED
  BY <1>1, <1>2, PTL DEF Spec

\* The types of the descriptors, the cache and the guards' local variables.
THEOREM TypeCorrect == Spec => []TypeOK
<1>1. GuardInv => TypeOK
  BY DEF GuardInv
<1> QED
  BY <1>1, GuardInvariant, PTL

\* A guarded thread never calls a UD2 or unreadable pointer, never loses a
\* legitimate one, and restores only what was seen in the same descriptor.
THEOREM CallsTrustedHolds == Spec => []CallsTrusted
<1>1. GuardInv => CallsTrusted
  BY DEF GuardInv, Pending, CallsTrusted
<1> QED
  BY <1>1, GuardInvariant, PTL

\* RepairJobEntry's compare-exchange never overwrites a newer job pointer.
THEOREM RepairKeepsNewerJobHolds == Spec => RepairKeepsNewerJob
<1> DEFINE Kept == \A t \in Threads : pc[t] = "repair" /\ pc'[t] # "repair" =>
                     \A e \in Entries : slot'[e] # slot[e] =>
                       e = entry[t] /\ slot[e] = func[t] /\ slot[e] \in Gadgets /\ slot'[e] \in seen[e]
<1>1. GuardInv /\ [Next]_vars => [Kept]_vars
  <2> SUFFICES ASSUME GuardInv, Next,
                      NEW t \in Threads, pc[t] = "repair", pc'[t] # "repair",
                      NEW e \in Entries, slot'[e] # slot[e]
               PROVE  /\ e = entry[t] /\ slot[e] = func[t]
                      /\ slot[e] \in Gadgets /\ slot'[e] \in seen[e]
    OBVIOUS
  <2> USE DEF GuardInv, TypeOK
  <2>1. ~ \E x \in Entries : Submit(x) \/ Tamper(x)
    BY DEF Submit, Tamper
  <2>2. \A u \in Threads : ~(\E x \in Entries : Load(u, x)) /\ ~Call(u) /\ ~Validate(u)
                           /\ ~CheckCached(u) /\ ~Insert(u)
    BY DEF Load, Call, Validate, CheckCached, Insert
  <2>3. PICK u \in Threads : Repair(u)
    BY <2>1, <2>2 DEF Next, Guard
  <2>4. u = t
    BY <2>3 DEF Repair
  <2> QED
    BY <2>3, <2>4 DEF Repair, CompareExchangeSlot, Pending
<1> QED
  BY <1>1, GuardInvariant, PTL DEF Spec, RepairKeepsNewerJob
=============================================================================
