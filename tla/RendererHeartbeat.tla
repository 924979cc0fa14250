-------------------------- MODULE RendererHeartbeat --------------------------
(***************************************************************************)
(* The heartbeat worker (antitamper/RendererHeartbeatBypass.cpp) beside    *)
(* the engine it races with.  The worker resolves the renderer singleton,  *)
(* asks the engine for the frame number, looks for the one offset whose    *)
(* dwords look like a heartbeat cluster in several frames, and from then   *)
(* on writes the frame number there.  The engine advances or resets its    *)
(* frame counter, and destroys or replaces the renderer, between any two   *)
(* of the worker's steps.                                                  *)
(*                                                                         *)
(* The renderer's memory belongs to the game and can hold anything at any  *)
(* read, so a scan may accept any set of offsets, the sentinels may read   *)
(* right or wrong, and a write may fault.                                  *)
(***************************************************************************)
EXTENDS Naturals, BridgeAnswers

CONSTANTS Offsets,              \* the 4-aligned starts in the scan window
          kConfirmationsNeeded, \* scans an offset must survive (3)
          Warmup,               \* no scan at or below this frame (100)
          FaultLimit,           \* getter faults that reset discovery (10)
          MaxFrame              \* bound on the engine's frame counter

ASSUME NoneAssumption ==
  None \notin Renderers /\ None \notin Offsets /\ None \notin Renderers \X Offsets
ASSUME NumbersAssumption ==
  /\ kConfirmationsNeeded \in Nat /\ kConfirmationsNeeded > 1
  /\ Warmup \in Nat
  /\ FaultLimit \in Nat /\ FaultLimit > 0
  /\ MaxFrame \in Nat

Frames == 0..MaxFrame

VARIABLES
  frame,          \* engine: what get_RenderFrame returns
  pc,             \* worker: the call it makes next
  fs,             \* worker: the renderer the bridge resolved last
  forceResolve,   \* worker: resolve before anything else
  frameCount,     \* worker: this iteration's frame number
  trackedRenderer,
  discovery,      \* worker: the Confirmation object
  lastScanFrame, lastSyncFrame, lastIdentityCheckFrame,
  lastObservedFrame,  \* 0 as long as haveObservedFrame is false
  getterFaults,
  scanned,        \* history: renderer and frame of the latest scan
  run,            \* history: how many scans in a row accepted each offset,
                  \*   all of one renderer and in increasing frames
  staleWrites     \* history: writes to a renderer since it was replaced

engine == <<renderer, frame, tdb>>
marks == <<lastScanFrame, lastSyncFrame, lastIdentityCheckFrame, lastObservedFrame>>
history == <<scanned, run, staleWrites>>
vars == <<renderer, frame, tdb, pc, fs, forceResolve, frameCount, trackedRenderer,
          discovery, lastScanFrame, lastSyncFrame, lastIdentityCheckFrame,
          lastObservedFrame, getterFaults, scanned, run, staleWrites>>
-----------------------------------------------------------------------------
(* Candidate intersection: class Confirmation.  m_seeded is count > 0.     *)

Unseeded == [candidates |-> {}, count |-> 0, confirmed |-> None]

Confirmed == discovery.confirmed # None

\* Mutated Settled: one scan short.
SettledTooEarly(candidates, count) ==
  count + 1 >= kConfirmationsNeeded /\ \E o \in candidates : candidates = {o}

\* What confirms a candidate: to be the only one left after enough scans.
Settled(candidates, count) ==
  count >= kConfirmationsNeeded /\ \E o \in candidates : candidates = {o}

\* Mutated Narrow: an empty candidate set is kept.
NarrowWithoutRestart(d, accepted) ==
  LET left == d.candidates \intersect accepted
      n == d.count + 1
  IN  [candidates |-> left,
       count |-> n,
       confirmed |-> IF Settled(left, n) THEN CHOOSE o \in left : TRUE ELSE None]

\* The candidates one more scan leaves; discovery starts over without any.
Narrow(d, accepted) ==
  LET left == d.candidates \intersect accepted
      n == d.count + 1
  IN  IF left = {} THEN Unseeded
      ELSE [candidates |-> left,
            count |-> n,
            confirmed |-> IF Settled(left, n) THEN CHOOSE o \in left : TRUE ELSE None]

Observe(d, accepted) ==
  IF d.confirmed # None THEN d
  ELSE IF d.count = 0 THEN [Unseeded EXCEPT !.candidates = accepted, !.count = 1]
  ELSE Narrow(d, accepted)
-----------------------------------------------------------------------------
(* The engine.                                                             *)

\* A frame is rendered.
Tick == /\ frame < MaxFrame
        /\ frame' = frame + 1
        /\ UNCHANGED <<renderer, tdb, pc, fs, forceResolve, frameCount, trackedRenderer,
                       discovery, marks, getterFaults, history>>

\* A device reset, or the 32-bit wrap, makes the counter fall.
Regress == /\ frame' \in {f \in Frames : f < frame}
           /\ UNCHANGED <<renderer, tdb, pc, fs, forceResolve, frameCount, trackedRenderer,
                          discovery, marks, getterFaults, history>>

\* The singleton is created, destroyed, or replaced, possibly at an address
\* an earlier renderer had.  The old allocation may stay committed.
Replace == /\ renderer' \in (Renderers \cup {None}) \ {renderer}
           /\ staleWrites' = [r \in Renderers |-> IF r = renderer' THEN 0 ELSE staleWrites[r]]
           /\ UNCHANGED <<frame, tdb, pc, fs, forceResolve, frameCount, trackedRenderer,
                          discovery, marks, getterFaults, scanned, run>>

\* The game builds its type database, of the version the profile expects or not.
BuildTdb == /\ tdb = "absent"
            /\ tdb' \in {"expected", "mismatch"}
            /\ UNCHANGED <<renderer, frame, pc, fs, forceResolve, frameCount, trackedRenderer,
                           discovery, marks, getterFaults, history>>

Engine == Tick \/ Regress \/ Replace \/ BuildTdb
-----------------------------------------------------------------------------
(* The worker: WorkerLoop, one action per call that reaches the engine.    *)

\* fullReset: nothing learnt about the renderer or the frame is kept.
FullReset ==
  /\ discovery' = Unseeded
  /\ trackedRenderer' = None
  /\ fs' = None
  /\ forceResolve' = TRUE
  /\ lastScanFrame' = 0
  /\ lastSyncFrame' = 0
  /\ lastIdentityCheckFrame' = 0
  /\ lastObservedFrame' = 0
  /\ pc' = "top"

\* tryResolve, called from step `at` and going on to `next` when Ready.
TryResolve(at, status, next) ==
  /\ pc = at
  /\ CanAnswer(status)
  /\ \/ /\ status = "UnsupportedLayout"
        /\ pc' = "stopped"
        /\ UNCHANGED <<fs, forceResolve>>
     \/ /\ status = "NotReadyYet"
        /\ pc' = "top"
        /\ fs' = None
        /\ forceResolve' = TRUE
     \/ /\ status = "Ready"
        /\ pc' = next
        /\ fs' = renderer
        /\ forceResolve' = FALSE
  /\ UNCHANGED <<engine, frameCount, trackedRenderer, discovery, marks, getterFaults, history>>

MustResolve == forceResolve \/ fs = None

\* The resolution at the head of the loop.
Resolve(status) == MustResolve /\ TryResolve("top", status, "resolved")

\* get_RenderFrame is called next, with or without a resolution before it.
AtGetter == pc = "resolved" \/ (pc = "top" /\ ~MustResolve)

\* Mutated FaultsExhausted: off by one.
FaultsOverrun(faults) == faults > FaultLimit

FaultsExhausted(faults) == faults >= FaultLimit

\* get_RenderFrame faults; every FaultLimit-th fault in a row forgets the cluster.
GetterFault ==
  /\ AtGetter
  /\ pc' = "top"
  /\ forceResolve' = TRUE
  /\ IF FaultsExhausted(getterFaults + 1)
     THEN /\ getterFaults' = 0
          /\ discovery' = Unseeded
          /\ trackedRenderer' = None
     ELSE /\ getterFaults' = getterFaults + 1
          /\ UNCHANGED <<discovery, trackedRenderer>>
  /\ UNCHANGED <<engine, fs, frameCount, marks, history>>

\* Mutated FrameRegressed: a falling counter goes unnoticed.
NeverRegressed(last, current) == FALSE

FrameRegressed(last, current) == current < last

\* Mutated NeedsIdentityCheck: the first resolution is used for ever.
IdentityNeverChecked(current) == FALSE

\* A resolution is at most one frame old when the renderer is next used.
NeedsIdentityCheck(current) == pc = "top" /\ current # lastIdentityCheckFrame

GetRenderFrame ==
  /\ AtGetter
  /\ getterFaults' = 0
  /\ IF FrameRegressed(lastObservedFrame, frame)
     THEN FullReset /\ UNCHANGED frameCount
     ELSE /\ frameCount' = frame
          /\ lastObservedFrame' = frame
          /\ pc' = IF NeedsIdentityCheck(frame) THEN "identity" ELSE "adopt"
          /\ UNCHANGED <<fs, forceResolve, trackedRenderer, discovery,
                         lastScanFrame, lastSyncFrame, lastIdentityCheckFrame>>
  /\ UNCHANGED <<engine, history>>

RevalidateIdentity(status) == TryResolve("identity", status, "adopt")

\* What the rest of the iteration does with the confirmation state d: write,
\* scan, or nothing more for this frame.
Choice(d, scan, sync) ==
  CASE d.confirmed # None /\ frameCount # sync -> "read"
    [] d.confirmed = None /\ frameCount > Warmup /\ frameCount # scan -> "scan"
    [] OTHER -> "top"

\* Mutated Adopt: a new renderer inherits the discovery of the old one.
KeepDiscovery ==
  /\ pc = "adopt"
  /\ lastIdentityCheckFrame' = frameCount
  /\ trackedRenderer' = fs
  /\ UNCHANGED <<discovery, lastScanFrame, lastSyncFrame>>
  /\ pc' = Choice(discovery', lastScanFrame', lastSyncFrame')
  /\ UNCHANGED <<engine, fs, forceResolve, frameCount, lastObservedFrame, getterFaults, history>>

\* Discovery starts over for a renderer not tracked so far.
Adopt ==
  /\ pc = "adopt"
  /\ lastIdentityCheckFrame' = frameCount
  /\ trackedRenderer' = fs
  /\ IF fs # trackedRenderer
     THEN discovery' = Unseeded /\ lastScanFrame' = 0 /\ lastSyncFrame' = 0
     ELSE UNCHANGED <<discovery, lastScanFrame, lastSyncFrame>>
  /\ pc' = Choice(discovery', lastScanFrame', lastSyncFrame')
  /\ UNCHANGED <<engine, fs, forceResolve, frameCount, lastObservedFrame, getterFaults, history>>

\* One pass over the scan window, which accepts some offsets.
Scan(accepted) ==
  /\ pc = "scan"
  /\ discovery' = Observe(discovery, accepted)
  /\ run' = [o \in Offsets |->
               IF o \notin accepted THEN 0
               ELSE IF fs = scanned.renderer /\ frameCount > scanned.frame
                    THEN run[o] + 1 ELSE 1]
  /\ scanned' = [renderer |-> fs, frame |-> frameCount]
  /\ lastScanFrame' = frameCount
  /\ pc' = "top"
  /\ UNCHANGED <<engine, fs, forceResolve, frameCount, trackedRenderer, lastSyncFrame,
                 lastIdentityCheckFrame, lastObservedFrame, getterFaults, staleWrites>>

\* The sentinels around the confirmed cluster are read: intact or lost.
ReadSentinels(intact) ==
  /\ pc = "read"
  /\ IF intact
     THEN /\ pc' = "write"
          /\ UNCHANGED <<fs, forceResolve, trackedRenderer, discovery, marks>>
     ELSE FullReset
  /\ UNCHANGED <<engine, frameCount, getterFaults, history>>

\* The frame number is stored in the cluster; a fault half-way counts as a write.
WriteHeartbeats(stored) ==
  /\ pc = "write"
  /\ staleWrites' = IF fs = renderer THEN staleWrites
                    ELSE [staleWrites EXCEPT ![fs] = @ + 1]
  /\ IF stored
     THEN /\ lastSyncFrame' = frameCount
          /\ pc' = "top"
          /\ UNCHANGED <<fs, forceResolve, trackedRenderer, discovery, lastScanFrame,
                         lastIdentityCheckFrame, lastObservedFrame>>
     ELSE FullReset
  /\ UNCHANGED <<engine, frameCount, getterFaults, scanned, run>>

Statuses == {"Ready", "NotReadyYet", "UnsupportedLayout"}

Worker ==
  \/ \E status \in Statuses : Resolve(status) \/ RevalidateIdentity(status)
  \/ GetterFault
  \/ GetRenderFrame
  \/ Adopt
  \/ \E accepted \in SUBSET Offsets : Scan(accepted)
  \/ \E intact \in BOOLEAN : ReadSentinels(intact)
  \/ \E stored \in BOOLEAN : WriteHeartbeats(stored)
-----------------------------------------------------------------------------
Init ==
  /\ renderer = None
  /\ frame \in Frames
  /\ tdb = "absent"
  /\ pc = "top"
  /\ fs = None
  /\ forceResolve = TRUE
  /\ frameCount = 0
  /\ trackedRenderer = None
  /\ discovery = Unseeded
  /\ lastScanFrame = 0
  /\ lastSyncFrame = 0
  /\ lastIdentityCheckFrame = 0
  /\ lastObservedFrame = 0
  /\ getterFaults = 0
  /\ scanned = [renderer |-> None, frame |-> 0]
  /\ run = [o \in Offsets |-> 0]
  /\ staleWrites = [r \in Renderers |-> 0]

Next == Engine \/ Worker

Spec == Init /\ [][Next]_vars
-----------------------------------------------------------------------------
(* Properties.                                                             *)

Optional(S) == S \cup {None}

\* The types of the worker's, the engine's and the history variables.
TypeOK ==
  /\ renderer \in Optional(Renderers)
  /\ frame \in Frames
  /\ tdb \in {"absent", "expected", "mismatch"}
  /\ pc \in {"top", "resolved", "identity", "adopt", "scan", "read", "write", "stopped"}
  /\ fs \in Optional(Renderers)
  /\ forceResolve \in BOOLEAN
  /\ frameCount \in Frames
  /\ trackedRenderer \in Optional(Renderers)
  /\ discovery \in [candidates : SUBSET Offsets, count : Nat, confirmed : Optional(Offsets)]
  /\ lastScanFrame \in Frames
  /\ lastSyncFrame \in Frames
  /\ lastIdentityCheckFrame \in Frames
  /\ lastObservedFrame \in Frames
  /\ getterFaults \in 0..FaultLimit - 1
  /\ scanned \in [renderer : Optional(Renderers), frame : Frames]
  /\ run \in [Offsets -> Nat]
  /\ staleWrites \in [Renderers -> Nat]

\* A confirmed offset was accepted by the latest kConfirmationsNeeded scans or
\* more, one after the other, all of the renderer it is tracked in and each in
\* a later frame than the one before, whatever resolution failures, renderer
\* replacements, getter faults and counter resets came between.
ConfirmedByScans ==
  Confirmed => /\ run[discovery.confirmed] >= kConfirmationsNeeded
               /\ scanned.renderer = trackedRenderer
               /\ trackedRenderer # None

\* "A replaced renderer whose old allocation is still committed" receives at
\* most one write after the engine replaced it, however the replacement falls
\* between the worker's resolution, frame read, sentinel read and write.
AtMostOneStaleWrite == \A r \in Renderers : staleWrites[r] <= 1

\* The worker writes only where it looked: in the renderer the confirmation
\* is about, for a frame it has not written yet and not one before it.
WritesConfirmedCluster ==
  pc \in {"read", "write"} =>
    /\ Confirmed
    /\ fs = trackedRenderer
    /\ lastSyncFrame < frameCount

Target == IF Confirmed THEN <<trackedRenderer, discovery.confirmed>> ELSE None

\* The abstract specification: one target at a time, only dropped targets are
\* replaced, and the frame numbers written to a target increase.
Sync == INSTANCE HeartbeatSync
          WITH NoTarget <- None,
               target <- Target,
               beat <- IF Confirmed THEN lastSyncFrame ELSE 0

ImplementsSync == Sync!SyncSpec
=============================================================================
