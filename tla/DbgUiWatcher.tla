---------------------------- MODULE DbgUiWatcher ----------------------------
(***************************************************************************)
(* The watcher of ntdll!DbgUiRemoteBreakin.  Every 500 ms it compares the  *)
(* function's first bytes with a baseline; a redirect (E9, or FF25 through *)
(* a pointer slot) into executable private memory is neutralised: the      *)
(* target's region is filled with RET and the baseline is copied back.     *)
(* The game installs, retargets and removes its redirects, allocates,      *)
(* reprotects and frees its payloads between any two of the watcher's      *)
(* steps; it does not rewrite a payload in place.                          *)
(*                                                                         *)
(* The entry is two cells that are written one after the other, by both    *)
(* sides; the watcher reads it with one ReadProcessMemory.                 *)
(***************************************************************************)
EXTENDS Naturals, FiniteSets

CONSTANTS Regions,     \* address ranges where the game allocates payloads
          Modules,     \* addresses in images, where other components hook to
          Nowhere,     \* an address that is neither
          MaxMoves,    \* bound on what the game does
          MaxFailures  \* bound on the system calls that fail

Targets == Regions \cup Modules

ASSUME TargetsAssumption ==
  /\ Regions \intersect Modules = {}
  /\ {Nowhere, "original", "slot"} \intersect Targets = {}
  /\ Nowhere \notin {"original", "slot"}
ASSUME BoundsAssumption == MaxMoves \in Nat /\ MaxFailures \in Nat

Entries == [opcode  : {"original", "e9", "ff25", "other"},
            operand : {"original", "slot"} \cup Targets]
Original == [opcode |-> "original", operand |-> "original"]

VARIABLES
  entry,     \* the first bytes of DbgUiRemoteBreakin
  writable,  \* are they
  slot,      \* the pointer an FF25 goes through
  region,    \* what is in each region
  writing,   \* cells the game has still to write
  moves, failures,
  pc,        \* the watcher's next step
  started,   \* g_started, and the worker it stands for
  baseline,  \* g_baseline
  hook,      \* the HookInfo of the check
  wrote,     \* NeutralizePayload's and RestoreEntry's local
  oldProtection,
  aims,      \* history: regions the entry led to since the check read it
  recycled,  \* history: the target was freed since the watcher saw it led to
  raced      \* history: the game wrote the entry since it was compared

game == <<slot, writing, moves>>
history == <<aims, recycled, raced>>
watcher == <<pc, started, baseline, hook, wrote, oldProtection>>
vars == <<entry, writable, region, failures, game, watcher, history>>

Free == [state |-> "free", protection |-> "NoAccess", code |-> "payload"]
Payload == [state |-> "private", protection |-> "ExecuteRead", code |-> "payload"]
NoHook == [observed |-> Original, target |-> Nowhere]
-----------------------------------------------------------------------------
(* Redirects.                                                              *)

\* Mutated Resolved: the displacement is taken for an address.
ResolvedBlindly(e, s) == e.operand

\* Where the redirect in e leads, if the slot holds s.  A displacement that was
\* not written for its opcode leads nowhere in particular.
Resolved(e, s) ==
  CASE e.opcode = "e9" /\ e.operand \in Targets -> e.operand
    [] e.opcode = "ff25" /\ e.operand = "slot"  -> s
    [] OTHER -> Nowhere

\* Mutated BaselineLooksAlreadyHooked: any baseline will do.
TrustsBaseline(e) == FALSE

BaselineLooksAlreadyHooked(e) == e.opcode \in {"e9", "ff25"}

\* The forms ResolveHook follows, an FF25 only if its displacement can be.
IsRedirect(e) == e.opcode = "e9" \/ (e.opcode = "ff25" /\ e.operand = "slot")

Allocated(t) == t \in Regions /\ region[t].state = "private"

PrivateExecutable(t) ==
  /\ Allocated(t)
  /\ region[t].protection \in {"ExecuteRead", "ExecuteReadWrite"}

FitsToWrite(t) ==
  /\ Allocated(t)
  /\ region[t].protection \in {"ReadWrite", "ExecuteReadWrite"}
-----------------------------------------------------------------------------
(* One check.  Whatever it finds changed ends it until the next one.       *)

At(p) == pc = p
Goto(p) == pc' = p /\ UNCHANGED <<started, baseline, hook, wrote, oldProtection>>
Fail == failures < MaxFailures /\ failures' = failures + 1

\* The first check runs in Initialize, before there is a worker.
EndCheck == /\ pc' = IF started THEN "sleep" ELSE "spawn"
            /\ hook' = NoHook /\ wrote' = TRUE /\ oldProtection' = "NoAccess"
            /\ UNCHANGED <<started, baseline>>

\* ReadBytes and the first half of ResolveHook.
ReadEntry ==
  /\ At("read")
  /\ IF entry = baseline \/ ~IsRedirect(entry)
     THEN EndCheck /\ aims' = {}
     ELSE /\ hook' = [observed |-> entry,
                      target |-> IF entry.opcode = "e9" THEN Resolved(entry, slot) ELSE Nowhere]
          /\ pc' = IF entry.opcode = "e9" THEN "revalidate" ELSE "slot"
          /\ aims' = {Resolved(entry, slot)}
          /\ UNCHANGED <<started, baseline, wrote, oldProtection>>
  /\ recycled' = FALSE /\ raced' = FALSE
  /\ UNCHANGED <<entry, writable, region, failures, game>>

\* The slot is read after the entry.
ReadSlot ==
  /\ At("slot")
  /\ hook' = [hook EXCEPT !.target = slot]
  /\ pc' = "revalidate"
  /\ UNCHANGED <<entry, writable, region, failures, game, history>>
  /\ UNCHANGED <<started, baseline, wrote, oldProtection>>

\* Mutated Revalidate: the observed bytes are trusted.
TrustBytes(here, slotStep, next) ==
  /\ At(here)
  /\ Goto(next)
  /\ UNCHANGED <<entry, writable, region, failures, game, history>>

\* RevalidateHook: the entry again, then the slot again.
Revalidate(here, slotStep, next) ==
  /\ At(here)
  /\ IF entry # hook.observed THEN EndCheck
     ELSE Goto(IF entry.opcode = "ff25" THEN slotStep ELSE next)
  /\ recycled' = IF entry.opcode = "ff25" THEN recycled ELSE FALSE
  /\ UNCHANGED <<entry, writable, region, failures, game, aims, raced>>

RevalidateSlot(here, next) ==
  /\ At(here)
  /\ IF slot = hook.target THEN Goto(next) ELSE EndCheck
  /\ UNCHANGED <<entry, writable, region, failures, game, history>>

\* QueryPrivateExecutableTarget.  NeutralizePayload asks again, with SameRegion:
\* a region of the model is one address range.
Query(here, next) ==
  /\ At(here)
  /\ IF PrivateExecutable(hook.target) THEN Goto(next) ELSE EndCheck
  /\ UNCHANGED <<entry, writable, region, failures, game, history>>

(* The rest of NeutralizePayload.                                          *)

UnprotectPayload ==
  /\ At("unprotect")
  /\ \/ /\ Allocated(hook.target)
        /\ oldProtection' = region[hook.target].protection
        /\ region' = [region EXCEPT ![hook.target].protection = "ExecuteReadWrite"]
        /\ pc' = "fill"
        /\ UNCHANGED <<started, baseline, hook, wrote, failures>>
     \/ ~Allocated(hook.target) /\ EndCheck /\ UNCHANGED <<region, failures>>
     \/ Fail /\ EndCheck /\ UNCHANGED region
  /\ UNCHANGED <<entry, writable, game, history>>

\* memset, in two parts; either may fault.
Fill(here, code, next) ==
  /\ At(here)
  /\ IF FitsToWrite(hook.target)
     THEN /\ region' = [region EXCEPT ![hook.target].code = code]
          /\ Goto(next)
     ELSE /\ wrote' = FALSE
          /\ pc' = "protect"
          /\ UNCHANGED <<region, started, baseline, hook, oldProtection>>
  /\ UNCHANGED <<entry, writable, failures, game, history>>

\* Mutated ProtectPayload: an aborted memset is not noticed.
ForgetsFault ==
  /\ At("protect")
  /\ region' = IF ~Allocated(hook.target) THEN region
               ELSE [region EXCEPT ![hook.target].protection = oldProtection]
  /\ Goto("compare")
  /\ UNCHANGED <<entry, writable, failures, game, history>>

\* Mutated ProtectPayload: the protection of a filled payload is not put back.
LeavesProtection ==
  /\ At("protect")
  /\ IF wrote THEN Goto("compare") ELSE EndCheck
  /\ UNCHANGED <<entry, writable, region, failures, game, history>>

\* The second VirtualProtect and the flush; what has failed by now ends the check.
ProtectPayload ==
  /\ At("protect")
  /\ LET putBack == [region EXCEPT ![hook.target].protection = oldProtection]
     IN  \/ /\ Allocated(hook.target)
            /\ region' = putBack
            /\ IF wrote THEN Goto("compare") ELSE EndCheck
            /\ UNCHANGED failures
         \/ ~Allocated(hook.target) /\ EndCheck /\ UNCHANGED <<region, failures>>
         \/ /\ Fail /\ EndCheck
            /\ region' \in {region} \cup {r \in {putBack} : Allocated(hook.target)}
  /\ UNCHANGED <<entry, writable, game, history>>

(* RestoreEntry.                                                           *)

CompareEntry ==
  /\ At("compare")
  /\ IF entry = hook.observed THEN Goto("unprotectEntry") ELSE EndCheck
  /\ raced' = FALSE
  /\ UNCHANGED <<entry, writable, region, failures, game, aims, recycled>>

\* The entry is executable whenever it is queried.
UnprotectEntry ==
  /\ At("unprotectEntry")
  /\ \/ /\ oldProtection' = IF writable THEN "ExecuteReadWrite" ELSE "ExecuteRead"
        /\ writable' = TRUE
        /\ pc' = "copyOpcode"
        /\ UNCHANGED <<started, baseline, hook, wrote, failures>>
     \/ Fail /\ EndCheck /\ UNCHANGED writable
  /\ UNCHANGED <<entry, region, game, history>>

\* Where the redirect of the entry leads may be noted by the history.
Note(places) == aims' = IF hook = NoHook THEN {} ELSE places

\* memcpy of the baseline, a cell at a time; it may fault.
CopyCell(here, cell, next) ==
  /\ At(here)
  /\ IF writable
     THEN entry' = [entry EXCEPT ![cell] = baseline[cell]] /\ Goto(next)
     ELSE Goto("protectEntry") /\ UNCHANGED entry
  /\ Note(aims \cup {Resolved(entry', slot)})
  /\ UNCHANGED <<writable, region, failures, game, recycled, raced>>

ProtectEntry ==
  /\ At("protectEntry")
  /\ \/ writable' = (oldProtection = "ExecuteReadWrite") /\ UNCHANGED failures
     \/ Fail /\ UNCHANGED writable
  /\ EndCheck
  /\ UNCHANGED <<entry, region, game, history>>

Check ==
  \/ ReadEntry \/ ReadSlot
  \/ Revalidate("revalidate", "revalidateSlot", "query")
  \/ RevalidateSlot("revalidateSlot", "query")
  \/ Query("query", "revalidateAgain")
  \/ Revalidate("revalidateAgain", "revalidateSlotAgain", "queryAgain")
  \/ RevalidateSlot("revalidateSlotAgain", "queryAgain")
  \/ Query("queryAgain", "unprotect")
  \/ UnprotectPayload
  \/ Fill("fill", "half", "fillRest") \/ Fill("fillRest", "filled", "protect")
  \/ ProtectPayload
  \/ CompareEntry \/ UnprotectEntry
  \/ CopyCell("copyOpcode", "opcode", "copyOperand")
  \/ CopyCell("copyOperand", "operand", "protectEntry")
  \/ ProtectEntry
-----------------------------------------------------------------------------
(* The life of the watcher.                                                *)

\* Initialize up to its own check.  A second call after a success does nothing,
\* one after a failure starts again.
Capture ==
  /\ At("off")
  /\ ~BaselineLooksAlreadyHooked(entry)
  /\ baseline' = entry
  /\ \/ pc' = "read" /\ UNCHANGED failures
     \/ Fail /\ UNCHANGED pc
  /\ UNCHANGED <<entry, writable, region, game, history, started, hook, wrote, oldProtection>>

\* The end of Initialize: std::thread throws or the worker runs.
Spawn ==
  /\ At("spawn")
  /\ \/ pc' = "read" /\ started' = TRUE /\ UNCHANGED failures
     \/ pc' = "off" /\ Fail /\ UNCHANGED started
  /\ UNCHANGED <<entry, writable, region, game, history, baseline, hook, wrote, oldProtection>>

WatchLoop ==
  /\ At("sleep")
  /\ Goto("read")
  /\ UNCHANGED <<entry, writable, region, failures, game, history>>

Watch == Check \/ WatchLoop
-----------------------------------------------------------------------------
(* The game, and other components that hook into images.                   *)

Move == moves < MaxMoves /\ moves' = moves + 1

Idle == [cells |-> {}, value |-> Original]

\* A redirect is installed, retargeted or removed: the slot is stored first and
\* only for a redirect through it, the page made writable, the cells written.
BeginWrite(e, t) ==
  /\ Move
  /\ writing = Idle
  /\ writing' = [cells |-> {"opcode", "operand"}, value |-> e]
  /\ slot' = IF e.opcode = "ff25" THEN t ELSE slot
  /\ writable' = TRUE
  /\ Note(aims \cup {Resolved(entry, slot')})
  /\ UNCHANGED <<entry, region, failures, watcher, recycled, raced>>

Written(t) == {[opcode |-> "e9", operand |-> t], [opcode |-> "ff25", operand |-> "slot"],
               [opcode |-> "other", operand |-> "original"], Original}

\* After the last cell the page is protected again.  Who writes to a page that
\* is protected already faults and goes no further.
WriteCell(cell) ==
  /\ cell \in writing.cells /\ writable
  /\ entry' = [entry EXCEPT ![cell] = writing.value[cell]]
  /\ writing' = IF writing.cells = {cell} THEN Idle
                ELSE [writing EXCEPT !.cells = @ \ {cell}]
  /\ writable' = (writing.cells # {cell})
  /\ raced' = (hook # NoHook)
  /\ Note(aims \cup {Resolved(entry', slot)})
  /\ UNCHANGED <<region, failures, watcher, slot, moves, recycled>>

Allocate(r) ==
  /\ Move
  /\ region[r] = Free
  /\ region' = [region EXCEPT ![r] = [Payload EXCEPT !.protection = "ReadWrite"]]
  /\ Note(aims \cup {Resolved(entry, slot)})
  /\ UNCHANGED <<entry, writable, failures, watcher, slot, writing, recycled, raced>>

\* A payload that is complete becomes executable, or is no longer.
Reprotect(r, p) ==
  /\ Move
  /\ region[r].state = "private" /\ region[r].protection # p
  /\ region' = [region EXCEPT ![r].protection = p]
  /\ UNCHANGED <<entry, writable, failures, watcher, slot, writing, history>>

\* A payload is freed when no redirect leads to it any more.
Release(r) ==
  /\ Move
  /\ region[r].state = "private" /\ Resolved(entry, slot) # r
  /\ region' = [region EXCEPT ![r] = Free]
  /\ Note(aims \ {r})
  /\ recycled' = (recycled \/ r = hook.target)
  /\ UNCHANGED <<entry, writable, failures, watcher, slot, writing, raced>>

Game == \/ \E t \in Targets : \E e \in Written(t) : BeginWrite(e, t)
        \/ \E cell \in {"opcode", "operand"} : WriteCell(cell)
        \/ \E r \in Regions : \/ Allocate(r) \/ Release(r)
                              \/ \E p \in {"ReadWrite", "ExecuteRead"} : Reprotect(r, p)
-----------------------------------------------------------------------------
Init ==
  /\ entry = Original /\ writable = FALSE
  /\ slot = Nowhere
  /\ region \in [Regions -> {Free, Payload}]
  /\ writing = Idle
  /\ moves = 0 /\ failures = 0
  /\ pc = "off" /\ started = FALSE /\ baseline = Original
  /\ hook = NoHook /\ wrote = TRUE /\ oldProtection = "NoAccess"
  /\ aims = {} /\ recycled = FALSE /\ raced = FALSE

Next == Check \/ Capture \/ Spawn \/ WatchLoop \/ Game

Spec == Init /\ [][Next]_vars

\* The worker is a thread of its own; nobody is bound to call Initialize, or the
\* game to finish a write.
FairSpec == Spec /\ WF_vars(Watch)
-----------------------------------------------------------------------------
(* Properties.                                                             *)

Steps == {"off", "read", "slot", "revalidate", "revalidateSlot", "query", "revalidateAgain",
          "revalidateSlotAgain", "queryAgain", "unprotect", "fill", "fillRest", "protect",
          "compare", "unprotectEntry", "copyOpcode", "copyOperand", "protectEntry",
          "spawn", "sleep"}
Protections == {"NoAccess", "ReadWrite", "ExecuteRead", "ExecuteReadWrite"}

WorldTypeOK ==
  /\ entry \in Entries
  /\ writable \in BOOLEAN
  /\ slot \in Targets \cup {Nowhere}
  /\ region \in [Regions -> [state : {"free", "private"}, protection : Protections,
                             code : {"payload", "half", "filled"}]]
  /\ writing \in [cells : SUBSET {"opcode", "operand"}, value : Entries]
  /\ moves \in 0..MaxMoves /\ failures \in 0..MaxFailures

WatcherTypeOK ==
  /\ pc \in Steps
  /\ started \in BOOLEAN
  /\ baseline \in Entries
  /\ hook \in [observed : Entries, target : Targets \cup {Nowhere}]
  /\ wrote \in BOOLEAN
  /\ oldProtection \in Protections

HistoryTypeOK == /\ aims \subseteq Targets \cup {Nowhere}
                 /\ recycled \in BOOLEAN /\ raced \in BOOLEAN

TypeOK == WorldTypeOK /\ WatcherTypeOK /\ HistoryTypeOK

\* NeutralizePayload fills a region only if the entry has led there during this
\* very check, through the slot's value at that moment where it is an FF25: not
\* where a slot read too early or too late points.  What no check can see is a
\* region that is freed, and perhaps allocated again, after the last look at it.
FillsOnlyAimed ==
  pc \in {"fill", "fillRest"} => hook.target \in aims \/ recycled

\* "Only restore the captured baseline if the current 32 bytes still match the
\* exact observed hook snapshot that was neutralized": the bytes overwritten are
\* the observed ones, unless they change after the comparison, and their
\* payload has been filled to its end, unless it was freed, whatever step of the
\* neutralisation faulted or failed.
RestoresWhatItNeutralized ==
  /\ pc \in {"unprotectEntry", "copyOpcode"} => entry = hook.observed \/ raced
  /\ pc \in {"unprotectEntry", "copyOpcode", "copyOperand"} =>
       region[hook.target].code = "filled" \/ recycled

\* No payload region is left writable and executable by a check, whatever the
\* game did to it meanwhile, unless the system refused a call.
NothingLeftWritable ==
  pc \notin {"fill", "fillRest", "protect"} /\ failures = 0 =>
    \A r \in Regions : region[r].protection # "ExecuteReadWrite"

Redirected == PrivateExecutable(Resolved(entry, slot))

\* Once the watcher runs and the game has come to rest, the entry leads to no
\* executable private memory: no sequence of redirects, half-written ones and
\* aborted checks included, leaves the watcher blind to the last one.
RedirectRemoved == <>[](started => ~Redirected)
=============================================================================
