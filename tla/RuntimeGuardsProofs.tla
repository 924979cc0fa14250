------------------------- MODULE RuntimeGuardsProofs -------------------------
(* Proofs about RuntimeGuards, for any number of game threads, of calls of *)
(* InitializeASI and of things the game does to NtProtectVirtualMemory.    *)
EXTENDS RuntimeGuards, TLAPS

\* Outside the installer at work, MinHook has a hook where a global has one;
\* the hook at work goes from created over published to enabled, or back.
HookSteps ==
  \A h \in Hooks :
    IF step \in {"publish", "enable", "reset"} /\ h = Guard
    THEN /\ step = "publish" => minhook[h] = "created"
         /\ step = "enable" => minhook[h] = "created" /\ object[h] = "valid"
         /\ step = "reset" => minhook[h] = "none"
    ELSE /\ object[h] = "valid" => minhook[h] = "enabled"
         /\ object[h] # "valid" => minhook[h] = "none"

\* An installer at work is the one at the head of the plan, and VirtualProtect
\* is not hooked without a copy.
PlanShape ==
  /\ step # "start" => plan # <<>>
  /\ step = "copy" => Guard = "pristine"
  /\ step \in {"publish", "enable", "reset"} => Guard \in Hooks
  /\ plan = <<"virtualProtect">> => copy # None
  /\ minhook["virtualProtect"] # "none" => copy # None

\* Both flags are set together, before anything is late.
BlockedAllows ==
  /\ blocked = vehAllowed
  /\ \A t \in Threads : late[t] => blocked

\* A thread is in a detour only of a hook that is, and stays, enabled.
DetoursEnabled ==
  \A t \in Threads :
    /\ pc[t] \in InVirtualProtect => minhook["virtualProtect"] = "enabled"
    /\ pc[t] \in InAddVeh => minhook["veh"] = "enabled"

\* A thread that changed the protection knows what it was.
SavedProtection ==
  \A t \in Threads : pc[t] \in {"rewrite", "reprotect"} => oldProtect[t] \in Protections

GuardsInv == /\ TypeOK /\ HookSteps /\ PlanShape /\ BlockedAllows
             /\ DetoursEnabled /\ SavedProtection /\ OnlyFirstBlocked

USE GuardsAssumption
-----------------------------------------------------------------------------
\* What is left of a plan is left of a plan; only the last guard stands alone.
LEMMA TailOfPlan ==
  ASSUME plan \in Plans, plan # <<>>
  PROVE  /\ Tail(plan) \in Plans
         /\ Head(plan) \in Hooks \cup {"pristine"}
         /\ Tail(plan) = <<"virtualProtect">> => Head(plan) = "pristine"
         /\ Head(plan) = "virtualProtect" => plan = <<"virtualProtect">>
<1> USE DEF Plans, Hooks, EnsureCommonEarlyGuards, PostLoad
<1>1. CASE plan = <<"exit">>
  BY <1>1
<1>2. CASE plan = <<"veh", "exit">>
  BY <1>2
<1>3. CASE plan = <<"pristine", "veh", "exit">>
  BY <1>3
<1>4. CASE plan = <<"virtualProtect">>
  BY <1>4
<1>5. CASE plan = <<"pristine", "virtualProtect">>
  BY <1>5
<1>6. CASE plan = <<"exit", "pristine", "virtualProtect">>
  BY <1>6
<1>7. CASE plan = <<"veh", "exit", "pristine", "virtualProtect">>
  BY <1>7
<1>8. CASE plan = <<"pristine", "veh", "exit", "pristine", "virtualProtect">>
  BY <1>8
<1> QED
  BY <1>1, <1>2, <1>3, <1>4, <1>5, <1>6, <1>7, <1>8

\* The empty plan is one, and is not that of a guard.
LEMMA NothingLeft == <<>> \in Plans /\ <<>> # <<"virtualProtect">>
BY DEF Plans

\* The invariant at first.
LEMMA GuardsInvInit == Init => GuardsInv
<1> SUFFICES ASSUME Init
             PROVE  GuardsInv
  OBVIOUS
<1> USE DEF Init
<1>1. TypeOK
  <2>1. plan \in Plans
    BY DEF Plans
  <2>2. calls \in 0..MaxCalls /\ meddling \in 0..MaxMeddling
    OBVIOUS
  <2>3. /\ minhook \in [Hooks -> {"none", "created", "enabled"}]
        /\ object \in [Hooks -> {"null", "valid", "invalid"}]
        /\ pc \in [Threads -> {"idle"} \cup InVirtualProtect \cup InAddVeh]
        /\ oldProtect \in [Threads -> Protections \cup {None}]
        /\ late \in [Threads -> BOOLEAN] /\ approved \in [Threads -> BOOLEAN]
    OBVIOUS
  <2> QED
    BY <2>1, <2>2, <2>3 DEF TypeOK, Contents, Protections
<1>2. HookSteps
  BY DEF HookSteps
<1>3. PlanShape
  BY DEF PlanShape, EnsureCommonEarlyGuards, Hooks
<1>4. BlockedAllows /\ DetoursEnabled /\ SavedProtection /\ OnlyFirstBlocked
  BY DEF BlockedAllows, DetoursEnabled, SavedProtection, OnlyFirstBlocked, InVirtualProtect, InAddVeh
<1> QED
  BY <1>1, <1>2, <1>3, <1>4 DEF GuardsInv

\* The installer's steps.
LEMMA InstallStep ==
  ASSUME GuardsInv, Install
  PROVE  GuardsInv'
<1> USE DEF GuardsInv
<1>1. CASE PostLoadInitialize
  <2> USE <1>1 DEF PostLoadInitialize, At, Guard, Proceed, live, detours, veh, TypeOK
  <2>1. TypeOK'
    BY DEF PostLoad, Plans, Contents, Protections
  <2>2. HookSteps'
    BY DEF HookSteps, PlanShape
  <2>3. PlanShape'
    BY DEF PlanShape, HookSteps, Contents, Hooks, PostLoad
  <2>4. BlockedAllows' /\ DetoursEnabled' /\ SavedProtection' /\ OnlyFirstBlocked'
    BY DEF BlockedAllows, DetoursEnabled, SavedProtection, OnlyFirstBlocked, PlanShape, HookSteps
  <2> QED
    BY <2>1, <2>2, <2>3, <2>4
<1>2. CASE AlreadyInstalled
  <2> USE <1>2 DEF AlreadyInstalled, At, Guard, Proceed, live, detours, veh, TypeOK
  <2>0. plan # <<>> /\ Tail(plan) \in Plans /\ Head(plan) \in Hooks \cup {"pristine"}
    BY TailOfPlan
  <2>1. TypeOK'
    BY <2>0 DEF Contents, Protections, PlanShape
  <2>2. HookSteps'
    BY <2>0 DEF HookSteps, PlanShape
  <2>3. PlanShape'
    BY <2>0, TailOfPlan DEF PlanShape, HookSteps, Contents, Hooks
  <2>4. BlockedAllows' /\ DetoursEnabled' /\ SavedProtection' /\ OnlyFirstBlocked'
    BY <2>0 DEF BlockedAllows, DetoursEnabled, SavedProtection, OnlyFirstBlocked, PlanShape, HookSteps
  <2> QED
    BY <2>1, <2>2, <2>3, <2>4
<1>3. CASE MarkWritable
  <2> USE <1>3 DEF MarkWritable, At, Guard, Proceed, live, detours, veh, TypeOK
  <2>1. TypeOK'
    BY DEF Contents, Protections, PlanShape
  <2>2. HookSteps'
    BY DEF HookSteps, PlanShape
  <2>3. PlanShape'
    BY DEF PlanShape, HookSteps, Contents, Hooks
  <2>4. BlockedAllows' /\ DetoursEnabled' /\ SavedProtection' /\ OnlyFirstBlocked'
    BY DEF BlockedAllows, DetoursEnabled, SavedProtection, OnlyFirstBlocked, PlanShape, HookSteps
  <2> QED
    BY <2>1, <2>2, <2>3, <2>4
<1>4. CASE SetupPristine
  <2> USE <1>4 DEF SetupPristine, At, Guard, Proceed, live, detours, veh, TypeOK
  <2>0. plan # <<>> /\ Tail(plan) \in Plans /\ Head(plan) \in Hooks \cup {"pristine"}
    BY TailOfPlan
  <2>1. TypeOK'
    BY <2>0, NothingLeft DEF Contents, Protections, PlanShape
  <2>2. HookSteps'
    BY <2>0 DEF HookSteps, PlanShape
  <2>3. PlanShape'
    BY <2>0, TailOfPlan, NothingLeft DEF PlanShape, HookSteps, Contents, Hooks
  <2>4. BlockedAllows' /\ DetoursEnabled' /\ SavedProtection' /\ OnlyFirstBlocked'
    BY <2>0 DEF BlockedAllows, DetoursEnabled, SavedProtection, OnlyFirstBlocked, PlanShape, HookSteps
  <2> QED
    BY <2>1, <2>2, <2>3, <2>4
<1>5. CASE CreateHook
  <2> USE <1>5 DEF CreateHook, At, Guard, Proceed, live, detours, veh, TypeOK
  <2>0. plan # <<>> /\ Tail(plan) \in Plans /\ Head(plan) \in Hooks \cup {"pristine"}
    BY TailOfPlan
  <2>1. TypeOK'
    <3>1. minhook' \in [Hooks -> {"none", "created", "enabled"}]
      OBVIOUS
    <3>2. plan' \in Plans /\ step' \in {"start", "copy", "publish", "enable", "reset"}
      BY <2>0
    <3> QED
      BY <3>1, <3>2
  <2>2. HookSteps'
    BY <2>0 DEF HookSteps, PlanShape
  <2>3. PlanShape'
    BY <2>0, TailOfPlan DEF PlanShape, HookSteps, Contents, Hooks
  <2>4. \A h \in Hooks : minhook[h] = "enabled" => minhook'[h] = "enabled"
    BY <2>0 DEF HookSteps
  <2>5. BlockedAllows' /\ SavedProtection' /\ OnlyFirstBlocked'
    BY DEF BlockedAllows, SavedProtection, OnlyFirstBlocked
  <2>6. DetoursEnabled'
    BY <2>4 DEF DetoursEnabled, Hooks
  <2> QED
    BY <2>1, <2>2, <2>3, <2>5, <2>6
<1>6. CASE Publish
  <2> USE <1>6 DEF Publish, At, Guard, Proceed, live, detours, veh, TypeOK
  <2>1. TypeOK'
    BY DEF Contents, Protections, PlanShape
  <2>2. HookSteps'
    BY DEF HookSteps, PlanShape
  <2>3. PlanShape'
    BY DEF PlanShape, HookSteps, Contents, Hooks
  <2>4. BlockedAllows' /\ DetoursEnabled' /\ SavedProtection' /\ OnlyFirstBlocked'
    BY DEF BlockedAllows, DetoursEnabled, SavedProtection, OnlyFirstBlocked, PlanShape, HookSteps
  <2> QED
    BY <2>1, <2>2, <2>3, <2>4
<1>7. CASE Enable
  <2> USE <1>7 DEF Enable, At, Guard, Proceed, live, detours, veh, TypeOK
  <2>0. plan # <<>> /\ Tail(plan) \in Plans /\ Head(plan) \in Hooks \cup {"pristine"}
    BY TailOfPlan
  <2>1. TypeOK'
    BY <2>0 DEF Contents, Protections, PlanShape
  <2>2. HookSteps'
    BY <2>0 DEF HookSteps, PlanShape
  <2>3. PlanShape'
    BY <2>0, TailOfPlan DEF PlanShape, HookSteps, Contents, Hooks
  <2>4. \A h \in Hooks : minhook[h] = "enabled" => minhook'[h] = "enabled"
    BY <2>0 DEF HookSteps
  <2>5. BlockedAllows' /\ SavedProtection' /\ OnlyFirstBlocked'
    BY DEF BlockedAllows, SavedProtection, OnlyFirstBlocked
  <2>6. DetoursEnabled'
    BY <2>4 DEF DetoursEnabled, Hooks
  <2> QED
    BY <2>1, <2>2, <2>3, <2>5, <2>6
<1>8. CASE Reset
  <2> USE <1>8 DEF Reset, At, Guard, Proceed, live, detours, veh, TypeOK
  <2>0. plan # <<>> /\ Tail(plan) \in Plans /\ Head(plan) \in Hooks \cup {"pristine"}
    BY TailOfPlan
  <2>1. TypeOK'
    BY <2>0 DEF Contents, Protections, PlanShape
  <2>2. HookSteps'
    BY <2>0 DEF HookSteps, PlanShape
  <2>3. PlanShape'
    BY <2>0, TailOfPlan DEF PlanShape, HookSteps, Contents, Hooks
  <2>4. BlockedAllows' /\ DetoursEnabled' /\ SavedProtection' /\ OnlyFirstBlocked'
    BY <2>0 DEF BlockedAllows, DetoursEnabled, SavedProtection, OnlyFirstBlocked, PlanShape, HookSteps
  <2> QED
    BY <2>1, <2>2, <2>3, <2>4
<1> QED
  BY <1>1, <1>2, <1>3, <1>4, <1>5, <1>6, <1>7, <1>8 DEF Install

\* The detours' steps and the game's.
LEMMA VirtualProtectStep ==
  ASSUME GuardsInv, NEW t \in Threads, CallVirtualProtect(t) \/ VirtualProtectHook(t)
  PROVE  GuardsInv'
<1> USE DEF GuardsInv, install, veh, Goto, CallVirtualProtect, VirtualProtectHook, Compare,
            Restore, Verify, Unprotect, Rewrite, PutBack, Return, Denied
<1>1. TypeOK'
  <2>1. pc[t] \in InVirtualProtect => copy \in Contents
    BY DEF TypeOK, DetoursEnabled, PlanShape
  <2>2. pc' \in [Threads -> {"idle"} \cup InVirtualProtect \cup InAddVeh]
    BY DEF TypeOK, InVirtualProtect
  <2>3. entry' \in Contents
    BY <2>1 DEF TypeOK, live, InVirtualProtect
  <2>4. /\ protection' \in Protections
        /\ meddling' \in 0..MaxMeddling
        /\ oldProtect' \in [Threads -> Protections \cup {None}]
    <3>1. CASE Unprotect(t)
      BY <3>1 DEF TypeOK, Protections
    <3>2. CASE PutBack(t)
      BY <3>2 DEF TypeOK, SavedProtection
    <3>3. CASE ~Unprotect(t) /\ ~PutBack(t)
      BY <3>3 DEF TypeOK, live
    <3> QED
      BY <3>1, <3>2, <3>3
  <2> QED
    BY <2>2, <2>3, <2>4 DEF TypeOK
<1>2. HookSteps' /\ PlanShape' /\ BlockedAllows'
  BY DEF HookSteps, PlanShape, BlockedAllows, Guard, live
<1>3. DetoursEnabled' /\ SavedProtection' /\ OnlyFirstBlocked'
  BY DEF DetoursEnabled, SavedProtection, OnlyFirstBlocked, TypeOK, InVirtualProtect, InAddVeh
<1> QED
  BY <1>1, <1>2, <1>3

\* Registrations keep their part of the invariant.
LEMMA AddVehStep ==
  ASSUME GuardsInv, NEW t \in Threads,
         CallAddVectoredExceptionHandler(t) \/ AddVectoredExceptionHandlerHook(t)
  PROVE  GuardsInv'
<1> USE DEF GuardsInv, install, live, veh, Goto, Leave, CallAddVectoredExceptionHandler,
            AddVectoredExceptionHandlerHook, CheckCaller, Block, Register
<1>1. TypeOK'
  BY DEF TypeOK, InAddVeh
<1>2. HookSteps' /\ PlanShape'
  BY DEF HookSteps, PlanShape, Guard
<1>3. BlockedAllows'
  BY DEF BlockedAllows, TypeOK
<1>4. DetoursEnabled' /\ SavedProtection' /\ OnlyFirstBlocked'
  BY DEF DetoursEnabled, SavedProtection, OnlyFirstBlocked, BlockedAllows, TypeOK, InVirtualProtect, InAddVeh
<1> QED
  BY <1>1, <1>2, <1>3, <1>4

\* Every step keeps the invariant of the guards.
LEMMA GuardsStep ==
  ASSUME GuardsInv, [Next]_vars
  PROVE  GuardsInv'
<1>1. CASE Install
  BY <1>1, InstallStep
<1>2. CASE Tamper \/ Reprotect
  BY <1>2 DEF Tamper, Reprotect, install, detours, veh, GuardsInv, TypeOK, HookSteps, PlanShape,
              BlockedAllows, DetoursEnabled, SavedProtection, OnlyFirstBlocked, Guard, Contents, Protections
<1>3. CASE UNCHANGED vars
  BY <1>3 DEF vars, live, install, detours, veh, GuardsInv, TypeOK, HookSteps, PlanShape,
              BlockedAllows, DetoursEnabled, SavedProtection, OnlyFirstBlocked, Guard
<1> QED
  BY <1>1, <1>2, <1>3, VirtualProtectStep, AddVehStep DEF Next

\* What the guards' code relies on, at any time.
THEOREM GuardsInvariant == Spec => []GuardsInv
<1> QED
  BY GuardsInvInit, GuardsStep, PTL DEF Spec

\* Type correctness.
THEOREM TypeCorrect == Spec => []TypeOK
<1>1. GuardsInv => TypeOK
  BY DEF GuardsInv
<1> QED
  BY <1>1, GuardsInvariant, PTL

\* A detour that runs finds its original, and the one of VirtualProtect a copy:
\* publication precedes enabling through every failure and retry.
THEOREM DetoursFindOriginalHolds == Spec => []DetoursFindOriginal
<1>1. GuardsInv => DetoursFindOriginal
  BY DEF GuardsInv, DetoursFindOriginal, DetoursEnabled, HookSteps, PlanShape, Hooks
<1> QED
  BY <1>1, GuardsInvariant, PTL

\* A failed installation leaves nothing behind that a retry would trip over.
THEOREM RetriesCanSucceedHolds == Spec => []RetriesCanSucceed
<1>1. GuardsInv => RetriesCanSucceed
  BY DEF GuardsInv, RetriesCanSucceed, HookSteps
<1> QED
  BY <1>1, GuardsInvariant, PTL

\* One block opens the way for every registration that begins later.
THEOREM OnlyFirstBlockedHolds == Spec => []OnlyFirstBlocked
<1>1. GuardsInv => OnlyFirstBlocked
  BY DEF GuardsInv
<1> QED
  BY <1>1, GuardsInvariant, PTL
=============================================================================
