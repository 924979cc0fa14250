---------------------------- MODULE RuntimeGuards ----------------------------
(***************************************************************************)
(* antitamper/RuntimeGuards.cpp over hooking/MinHookInlineHook.cpp.  The   *)
(* loader's thread installs the guards, first under the loader lock and    *)
(* again from InitializeASI; an installation may fail at every step and is *)
(* retried by the next call.  As soon as a hook is enabled, any thread of  *)
(* the game may be in its detour.                                          *)
(*                                                                         *)
(* NtProtectVirtualMemory's first bytes are "pristine", "tampered" with in *)
(* a way that lets calls through, or "refusing": calls of it may do        *)
(* nothing.  The page they lie in may be writable or not.                  *)
(***************************************************************************)
EXTENDS Naturals, Sequences

CONSTANTS Threads,      \* threads of the game
          None,
          MaxCalls,     \* bound on the calls of InitializeASI
          MaxMeddling   \* bound on what the game does to the entry

Contents == {"pristine", "tampered", "refusing"}
Protections == {"ReadExecute", "ReadWriteExecute"}

ASSUME GuardsAssumption ==
  MaxCalls \in Nat /\ MaxMeddling \in Nat /\ None \notin Contents \cup Protections

Hooks == {"veh", "exit", "virtualProtect"}

VARIABLES
  plan,        \* what is left of EarlyInitialize or PostLoadInitialize
  step,        \* the next step of the installer at the head of the plan
  calls,       \* calls of InitializeASI
  minhook,     \* hook -> "none", "created" or "enabled" in MinHook
  object,      \* hook -> the global unique_ptr: "null", "valid" or "invalid"
  copy,        \* what g_pristineNtProtect holds, or None
  entry,       \* what NtProtectVirtualMemory holds
  protection,  \* of its page
  meddling,    \* what the game has done to the two
  pc,          \* thread -> its next step
  oldProtect,  \* thread -> the restoration's local
  vehAllowed,  \* g_vehAllowed
  blocked,     \* history: a blocked registration has returned
  late,        \* history: thread -> it entered the VEH detour after that
  approved     \* thread -> its module is an approved caller

install == <<plan, step, calls, minhook, object, copy>>
live == <<entry, protection, meddling>>
veh == <<vehAllowed, blocked, late, approved>>
detours == <<pc, oldProtect, veh>>
vars == <<install, live, detours>>
-----------------------------------------------------------------------------
(* Installation.                                                           *)

EnsureCommonEarlyGuards == <<"pristine", "veh", "exit">>
PostLoad == <<"pristine", "veh", "exit", "pristine", "virtualProtect">>

At(s) == plan # <<>> /\ step = s
Guard == Head(plan)

\* On to the next installer; without a pristine copy the VirtualProtect guard,
\* which ends the plan of PostLoadInitialize, is left out.
Proceed(rest) == plan' = rest /\ step' = "start"

\* InitializeASI, once the module is loaded and perhaps again.
PostLoadInitialize ==
  /\ plan = <<>>
  /\ calls < MaxCalls
  /\ calls' = calls + 1
  /\ Proceed(PostLoad)
  /\ UNCHANGED <<minhook, object, copy, live, detours>>

\* What is in place already is not installed again.
AlreadyInstalled ==
  /\ At("start")
  /\ IF Guard = "pristine" THEN copy # None ELSE object[Guard] = "valid"
  /\ Proceed(Tail(plan))
  /\ UNCHANGED <<calls, minhook, object, copy, live, detours>>

\* The entry is marked writable, whether that succeeds or not.
MarkWritable ==
  /\ At("start") /\ Guard = "pristine" /\ copy = None
  /\ protection' \in {protection, "ReadWriteExecute"}
  /\ step' = "copy"
  /\ UNCHANGED <<plan, calls, minhook, object, copy, entry, meddling, detours>>

\* 256 bytes of the entry are copied, unless there is no memory for them.
SetupPristine ==
  /\ At("copy")
  /\ \/ copy' = entry /\ Proceed(Tail(plan))
     \/ /\ UNCHANGED copy
        /\ Proceed(IF Tail(plan) = <<"virtualProtect">> THEN <<>> ELSE Tail(plan))
  /\ UNCHANGED <<calls, minhook, object, live, detours>>

\* MH_CreateHook, after MH_Initialize: fails for a target that has a hook, and
\* may fail otherwise.
CreateHook ==
  /\ At("start") /\ Guard \in Hooks /\ object[Guard] # "valid"
  /\ \/ /\ minhook[Guard] = "none"
        /\ minhook' = [minhook EXCEPT ![Guard] = "created"]
        /\ step' = "publish"
        /\ UNCHANGED plan
     \/ Proceed(Tail(plan)) /\ UNCHANGED minhook
  /\ UNCHANGED <<calls, object, copy, live, detours>>

\* "Publish before enabling": the global is set.
Publish ==
  /\ At("publish")
  /\ object' = [object EXCEPT ![Guard] = "valid"]
  /\ step' = "enable"
  /\ UNCHANGED <<plan, calls, minhook, copy, live, detours>>

\* Mutated Enable: a hook that cannot be enabled is left in MinHook's list.
EnableOrKeep ==
  /\ At("enable")
  /\ \/ /\ minhook' = [minhook EXCEPT ![Guard] = "enabled"]
        /\ Proceed(Tail(plan))
        /\ UNCHANGED object
     \/ /\ object' = [object EXCEPT ![Guard] = "invalid"]
        /\ step' = "reset"
        /\ UNCHANGED <<plan, minhook>>
  /\ UNCHANGED <<calls, copy, live, detours>>

\* MH_EnableHook; when it fails the hook, which is not enabled, is removed from
\* MinHook's list (MH_RemoveHook fails for one it cannot disable only).
Enable ==
  /\ At("enable")
  /\ \/ /\ minhook' = [minhook EXCEPT ![Guard] = "enabled"]
        /\ Proceed(Tail(plan))
        /\ UNCHANGED object
     \/ /\ minhook' = [minhook EXCEPT ![Guard] = "none"]
        /\ object' = [object EXCEPT ![Guard] = "invalid"]
        /\ step' = "reset"
        /\ UNCHANGED plan
  /\ UNCHANGED <<calls, copy, live, detours>>

\* The object of the failed hook is destroyed.
Reset ==
  /\ At("reset")
  /\ object' = [object EXCEPT ![Guard] = "null"]
  /\ Proceed(Tail(plan))
  /\ UNCHANGED <<calls, minhook, copy, live, detours>>

\* Mutated Install: the hook is enabled, and the global is set afterwards.
EnableFirst ==
  /\ At("publish")
  /\ minhook' = [minhook EXCEPT ![Guard] = "enabled"]
  /\ step' = "enable"
  /\ UNCHANGED <<plan, calls, object, copy, live, detours>>

PublishLate ==
  /\ At("enable")
  /\ object' = [object EXCEPT ![Guard] = "valid"]
  /\ Proceed(Tail(plan))
  /\ UNCHANGED <<calls, minhook, copy, live, detours>>

InstallEnablingFirst ==
  \/ PostLoadInitialize \/ AlreadyInstalled \/ MarkWritable \/ SetupPristine
  \/ CreateHook \/ EnableFirst \/ PublishLate

Install == \/ PostLoadInitialize \/ AlreadyInstalled \/ MarkWritable \/ SetupPristine
           \/ CreateHook \/ Publish \/ Enable \/ Reset
-----------------------------------------------------------------------------
(* The game and NtProtectVirtualMemory.                                    *)

Writable == protection = "ReadWriteExecute"

\* The game writes the entry, or takes back what it wrote.
Tamper == /\ meddling < MaxMeddling
          /\ entry' \in Contents \ {entry}
          /\ meddling' = meddling + 1
          /\ UNCHANGED <<protection, install, detours>>

Reprotect == /\ meddling < MaxMeddling /\ Writable
             /\ protection' = "ReadExecute"
             /\ meddling' = meddling + 1
             /\ UNCHANGED <<entry, install, detours>>
-----------------------------------------------------------------------------
(* VirtualProtectHook in thread t.                                         *)

Goto(t, s) == pc' = [pc EXCEPT ![t] = s]

CallVirtualProtect(t) ==
  /\ pc[t] = "idle" /\ minhook["virtualProtect"] = "enabled"
  /\ Goto(t, "compare")
  /\ UNCHANGED <<oldProtect, veh, install, live>>

Intact == entry = copy

\* MaybeRestoreNtProtectIntegrity: the entry is compared with the copy,
Compare(t) ==
  /\ pc[t] = "compare"
  /\ Goto(t, IF Intact THEN "call" ELSE "restore")
  /\ UNCHANGED <<oldProtect, veh, install, live>>

\* written, which faults if the page is not writable,
Restore(t) ==
  /\ pc[t] = "restore"
  /\ entry' = IF Writable THEN copy ELSE entry
  /\ Goto(t, IF Writable THEN "verify" ELSE "unprotect")
  /\ UNCHANGED <<protection, meddling, oldProtect, veh, install>>

\* and compared again.
Verify(t) ==
  /\ pc[t] = "verify"
  /\ Goto(t, IF Intact THEN "call" ELSE "unprotect")
  /\ UNCHANGED <<oldProtect, veh, install, live>>

\* Mutated Unprotect: the second stage is given up.
GiveUp(t) ==
  /\ pc[t] = "unprotect"
  /\ Goto(t, "call")
  /\ UNCHANGED <<oldProtect, veh, install, live>>

\* VirtualProtectImpl calls the live NtProtectVirtualMemory, not the copy: one
\* that refuses may do so every time.
Denied == entry = "refusing" /\ UNCHANGED protection

\* Mutated Unprotect: the old protection is not asked for.
UnprotectBlindly(t) ==
  /\ pc[t] = "unprotect"
  /\ protection' = "ReadWriteExecute"
  /\ Goto(t, "rewrite")
  /\ UNCHANGED <<entry, meddling, oldProtect, veh, install>>

\* The second stage makes the page writable with NtProtectVirtualMemory itself,
Unprotect(t) ==
  /\ pc[t] = "unprotect"
  /\ \/ /\ oldProtect' = [oldProtect EXCEPT ![t] = protection]
        /\ protection' = "ReadWriteExecute"
        /\ Goto(t, "rewrite")
     \/ Denied /\ Goto(t, "call") /\ UNCHANGED oldProtect
  /\ UNCHANGED <<entry, meddling, veh, install>>

\* writes the entry again, which may fault again,
Rewrite(t) ==
  /\ pc[t] = "rewrite"
  /\ entry' = IF Writable THEN copy ELSE entry
  /\ Goto(t, IF Writable THEN "reprotect" ELSE "call")
  /\ UNCHANGED <<protection, meddling, oldProtect, veh, install>>

\* and puts the protection back that it found.
PutBack(t) ==
  /\ pc[t] = "reprotect"
  /\ protection' = oldProtect[t] \/ Denied
  /\ Goto(t, "call")
  /\ UNCHANGED <<entry, meddling, oldProtect, veh, install>>

\* VirtualProtectImpl does what the game asked for, elsewhere in memory; if it
\* raises an exception the hook's original does.
Return(t) ==
  /\ pc[t] = "call"
  /\ Goto(t, "idle")
  /\ oldProtect' = [oldProtect EXCEPT ![t] = None]
  /\ UNCHANGED <<veh, install, live>>

VirtualProtectHook(t) == \/ Compare(t) \/ Restore(t) \/ Verify(t) \/ Unprotect(t)
                         \/ Rewrite(t) \/ PutBack(t) \/ Return(t)
-----------------------------------------------------------------------------
(* AddVectoredExceptionHandlerHook in thread t.                            *)

\* The detour fetches the original from the global first.
CallAddVectoredExceptionHandler(t) ==
  /\ pc[t] = "idle" /\ minhook["veh"] = "enabled"
  /\ Goto(t, "check")
  /\ late' = [late EXCEPT ![t] = blocked]
  /\ approved' \in {[approved EXCEPT ![t] = b] : b \in BOOLEAN}
  /\ UNCHANGED <<oldProtect, vehAllowed, blocked, install, live>>

\* Mutated CheckCaller: the state is not looked at.
CheckModule(t) ==
  /\ pc[t] = "check"
  /\ Goto(t, IF approved[t] THEN "register" ELSE "block")
  /\ UNCHANGED <<oldProtect, veh, install, live>>

\* Once a registration was blocked every other is allowed, before that only
\* those of approved modules.
CheckCaller(t) ==
  /\ pc[t] = "check"
  /\ Goto(t, IF vehAllowed \/ approved[t] THEN "register" ELSE "block")
  /\ UNCHANGED <<oldProtect, veh, install, live>>

\* The thread is out of the detour.
Leave(t) == /\ Goto(t, "idle")
            /\ late' = [late EXCEPT ![t] = FALSE]
            /\ approved' = [approved EXCEPT ![t] = FALSE]
            /\ UNCHANGED <<oldProtect, install, live>>

\* The blocked caller gets a made-up handle.
Block(t) == /\ pc[t] = "block"
            /\ vehAllowed' = TRUE
            /\ blocked' = TRUE
            /\ Leave(t)

Register(t) == /\ pc[t] = "register"
               /\ UNCHANGED <<vehAllowed, blocked>>
               /\ Leave(t)

AddVectoredExceptionHandlerHook(t) ==
  CheckCaller(t) \/ Block(t) \/ Register(t)
-----------------------------------------------------------------------------
\* DLL_PROCESS_ATTACH has called EarlyInitialize.
Init ==
  /\ plan = EnsureCommonEarlyGuards
  /\ step = "start"
  /\ calls = 0
  /\ minhook = [h \in Hooks |-> "none"]
  /\ object = [h \in Hooks |-> "null"]
  /\ copy = None
  /\ entry = "pristine"
  /\ protection = "ReadExecute"
  /\ meddling = 0
  /\ pc = [t \in Threads |-> "idle"]
  /\ oldProtect = [t \in Threads |-> None]
  /\ vehAllowed = FALSE
  /\ blocked = FALSE
  /\ late = [t \in Threads |-> FALSE]
  /\ approved = [t \in Threads |-> FALSE]

Next ==
  \/ Install \/ Tamper \/ Reprotect
  \/ \E t \in Threads : \/ CallVirtualProtect(t) \/ VirtualProtectHook(t)
                        \/ CallAddVectoredExceptionHandler(t)
                        \/ AddVectoredExceptionHandlerHook(t)

Spec == Init /\ [][Next]_vars

\* Threads in a detour go on, and one of the threads keeps calling VirtualProtect.
FairSpec ==
  /\ Spec
  /\ \A t \in Threads : WF_vars(VirtualProtectHook(t) \/ AddVectoredExceptionHandlerHook(t))
  /\ SF_vars(\E t \in Threads : CallVirtualProtect(t))
-----------------------------------------------------------------------------
(* Properties.                                                             *)

InVirtualProtect == {"compare", "restore", "verify", "unprotect", "rewrite", "reprotect", "call"}
InAddVeh == {"check", "block", "register"}

Plans == {
  <<>>, <<"exit">>, <<"veh", "exit">>, EnsureCommonEarlyGuards,
  <<"virtualProtect">>, <<"pristine", "virtualProtect">>, <<"exit", "pristine", "virtualProtect">>,
  <<"veh", "exit", "pristine", "virtualProtect">>, PostLoad}

TypeOK ==
  /\ plan \in Plans
  /\ step \in {"start", "copy", "publish", "enable", "reset"}
  /\ calls \in 0..MaxCalls
  /\ minhook \in [Hooks -> {"none", "created", "enabled"}]
  /\ object \in [Hooks -> {"null", "valid", "invalid"}]
  /\ copy \in Contents \cup {None}
  /\ entry \in Contents
  /\ protection \in Protections
  /\ meddling \in 0..MaxMeddling
  /\ pc \in [Threads -> {"idle"} \cup InVirtualProtect \cup InAddVeh]
  /\ oldProtect \in [Threads -> Protections \cup {None}]
  /\ vehAllowed \in BOOLEAN
  /\ blocked \in BOOLEAN
  /\ late \in [Threads -> BOOLEAN]
  /\ approved \in [Threads -> BOOLEAN]

\* "Publish before enabling: once the patch is live the detour can run on
\* another thread and may need Original() through the global": whatever failed
\* and was retried before, a thread in a detour finds the original, and the one
\* of VirtualProtect finds a copy to compare with.
DetoursFindOriginal ==
  \A t \in Threads :
    /\ pc[t] \in InVirtualProtect => object["virtualProtect"] = "valid" /\ copy # None
    /\ pc[t] \in InAddVeh => object["veh"] = "valid"

\* "So a later retry does not hit MH_ERROR_ALREADY_CREATED": when an installer
\* is about to be tried, MinHook has a hook exactly where a global has one.
RetriesCanSucceed ==
  step = "start" => \A h \in Hooks :
    /\ object[h] = "valid" => minhook[h] = "enabled"
    /\ object[h] # "valid" => minhook[h] = "none"

\* "Blocked first unapproved VEH registration; subsequent registrations
\* allowed": no registration that begins after a blocked one has returned is
\* blocked, and no unapproved one passes before one is blocked.
OnlyFirstBlocked ==
  \A t \in Threads :
    /\ pc[t] = "block" => ~late[t]
    /\ pc[t] = "register" /\ ~approved[t] => blocked

\* As long as VirtualProtect is called, a modification of NtProtectVirtualMemory
\* is undone, in whatever way the callers' restorations and the protections they
\* save and put back are interleaved: unless the modified function, which the
\* restoration needs for a page that is not writable, refuses its calls.
EntryRestored ==
  (minhook["virtualProtect"] = "enabled" /\ ~Intact)
    ~> (Intact \/ (entry = "refusing" /\ ~Writable))
=============================================================================
