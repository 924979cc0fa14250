----------------------- MODULE RendererHeartbeatProofs -----------------------
(* Proofs about RendererHeartbeat, for every value of its constants.       *)
EXTENDS RendererHeartbeat, TLAPS

\* The frames the worker remembers are not after the one it observed last.
FrameOrder ==
  /\ lastScanFrame <= lastObservedFrame
  /\ lastSyncFrame <= lastObservedFrame
  /\ pc \in {"identity", "adopt", "scan", "read", "write"} => frameCount = lastObservedFrame

\* What holds of the renderer in hand at each step.
RendererInHand ==
  /\ pc \in {"resolved", "identity", "adopt", "scan", "read", "write"} =>
       fs # None /\ ~forceResolve
  /\ pc \in {"scan", "read", "write"} =>
       fs = trackedRenderer /\ lastIdentityCheckFrame = frameCount
  /\ pc = "scan" => ~Confirmed /\ frameCount > Warmup /\ frameCount # lastScanFrame
  /\ pc \in {"read", "write"} => Confirmed /\ frameCount # lastSyncFrame

\* Every candidate was accepted by all the scans since discovery was seeded.
CandidatesSurvived ==
  /\ discovery.count = 0 => discovery = Unseeded
  /\ discovery.count > 0 =>
       /\ trackedRenderer # None
       /\ scanned = [renderer |-> trackedRenderer, frame |-> lastScanFrame]
       /\ \A o \in discovery.candidates : run[o] >= discovery.count
  /\ Confirmed => /\ discovery.candidates = {discovery.confirmed}
                  /\ discovery.count >= kConfirmationsNeeded
  /\ trackedRenderer # None /\ ~Confirmed => lastSyncFrame = 0

\* A renderer that was written to after it was replaced is not written again:
\* it is resolved anew before any step that could lead to a write.
StaleRendererSpent ==
  /\ renderer # None => staleWrites[renderer] = 0
  /\ \A r \in Renderers : staleWrites[r] <= 1
  /\ fs # None /\ staleWrites[fs] # 0 =>
       \/ forceResolve
       \/ /\ Confirmed
          /\ fs = trackedRenderer
          /\ lastSyncFrame = lastIdentityCheckFrame
          /\ pc \in {"top", "adopt", "identity", "stopped"}
          /\ pc = "adopt" => frameCount = lastIdentityCheckFrame

IInv == TypeOK /\ FrameOrder /\ RendererInHand /\ CandidatesSurvived /\ StaleRendererSpent

USE NoneAssumption, NumbersAssumption
-----------------------------------------------------------------------------
\* The types at first.
LEMMA TypeCorrectInit == Init => TypeOK
BY DEF Init, TypeOK, Optional, Frames, Unseeded

\* Every step keeps the types.
LEMMA TypeCorrectStep ==
  ASSUME TypeOK, [Next]_vars
  PROVE  TypeOK'
<1> USE DEF TypeOK, Optional, Frames
<1>0. FullReset =>
        /\ pc' = "top" /\ fs' = None /\ forceResolve' = TRUE /\ trackedRenderer' = None
        /\ discovery' \in [candidates : SUBSET Offsets, count : Nat, confirmed : Optional(Offsets)]
        /\ lastScanFrame' \in Frames /\ lastSyncFrame' \in Frames
        /\ lastIdentityCheckFrame' \in Frames /\ lastObservedFrame' \in Frames
  BY DEF FullReset, Unseeded
<1>1. CASE Engine
  BY <1>1 DEF Engine, Tick, Regress, Replace, BuildTdb, marks, history
<1>2. ASSUME NEW status \in Statuses, Resolve(status) \/ RevalidateIdentity(status)
      PROVE TypeOK'
  BY <1>2 DEF Resolve, RevalidateIdentity, TryResolve, CanAnswer, MustResolve, engine, marks, history
<1>3. CASE GetterFault
  BY <1>3 DEF GetterFault, FaultsExhausted, AtGetter, engine, marks, history, Unseeded
<1>4. CASE GetRenderFrame
  <2>1. CASE FrameRegressed(lastObservedFrame, frame)
    BY <1>4, <2>1, <1>0 DEF GetRenderFrame, engine, history
  <2>2. CASE ~FrameRegressed(lastObservedFrame, frame)
    BY <1>4, <2>2 DEF GetRenderFrame, engine, history
  <2> QED
    BY <2>1, <2>2
<1>5. CASE Adopt
  BY <1>5 DEF Adopt, Choice, engine, history, Unseeded
<1>6. ASSUME NEW accepted \in SUBSET Offsets, Scan(accepted)
      PROVE TypeOK'
  <2>1. \A left : left # {} => (CHOOSE o \in left : TRUE) \in left
    OBVIOUS
  <2>2. Narrow(discovery, accepted) \in
          [candidates : SUBSET Offsets, count : Nat, confirmed : Optional(Offsets)]
    <3> DEFINE left == discovery.candidates \intersect accepted
    <3>1. CASE left = {}
      BY <3>1 DEF Narrow, Unseeded
    <3>2. CASE left # {}
      <4>1. (CHOOSE o \in left : TRUE) \in Offsets
        BY <2>1, <3>2
      <4> QED
        BY <3>2, <4>1 DEF Narrow
    <3> QED
      BY <3>1, <3>2
  <2>3. Observe(discovery, accepted) \in
          [candidates : SUBSET Offsets, count : Nat, confirmed : Optional(Offsets)]
    BY <2>2 DEF Observe, Unseeded
  <2> QED
    BY <1>6, <2>3 DEF Scan, engine
<1>7. ASSUME NEW intact \in BOOLEAN, ReadSentinels(intact)
      PROVE TypeOK'
  <2>1. CASE intact
    BY <1>7, <2>1 DEF ReadSentinels, engine, marks, history
  <2>2. CASE ~intact
    BY <1>7, <2>2, <1>0 DEF ReadSentinels, engine, history
  <2> QED
    BY <2>1, <2>2
<1>8. ASSUME NEW stored \in BOOLEAN, WriteHeartbeats(stored)
      PROVE TypeOK'
  <2>1. staleWrites' \in [Renderers -> Nat]
    <3>1. \A r \in Renderers : staleWrites[r] + 1 \in Nat
      OBVIOUS
    <3>2. CASE fs = renderer
      BY <1>8, <3>2 DEF WriteHeartbeats
    <3>3. CASE fs # renderer
      BY <1>8, <3>1, <3>3 DEF WriteHeartbeats
    <3> QED
      BY <3>2, <3>3
  <2>2. CASE stored
    BY <1>8, <2>1, <2>2 DEF WriteHeartbeats, engine
  <2>3. CASE ~stored
    BY <1>8, <2>1, <2>3, <1>0 DEF WriteHeartbeats, engine
  <2> QED
    BY <2>2, <2>3
<1>9. CASE UNCHANGED vars
  BY <1>9 DEF vars
<1> QED
  BY <1>1, <1>2, <1>3, <1>4, <1>5, <1>6, <1>7, <1>8, <1>9 DEF Next, Worker

\* The type invariant of the worker beside the engine.
THEOREM TypeCorrect == Spec => []TypeOK
BY TypeCorrectInit, TypeCorrectStep, PTL DEF Spec
-----------------------------------------------------------------------------
(* IInv is inductive: one lemma per conjunct.                              *)

\* Every step keeps the order of the frames.
LEMMA FrameOrderStep ==
  ASSUME TypeOK, FrameOrder, RendererInHand, [Next]_vars
  PROVE  FrameOrder'
<1> USE DEF TypeOK, FrameOrder, RendererInHand, Frames
<1>0. FullReset => FrameOrder'
  BY DEF FullReset
<1>1. CASE Engine
  BY <1>1 DEF Engine, Tick, Regress, Replace, BuildTdb, marks
<1>2. ASSUME NEW status \in Statuses, Resolve(status) \/ RevalidateIdentity(status)
      PROVE FrameOrder'
  BY <1>2 DEF Resolve, RevalidateIdentity, TryResolve, marks
<1>3. CASE GetterFault
  BY <1>3 DEF GetterFault, marks
<1>4. CASE GetRenderFrame
  <2>1. CASE FrameRegressed(lastObservedFrame, frame)
    BY <1>4, <1>0, <2>1 DEF GetRenderFrame
  <2>2. CASE ~FrameRegressed(lastObservedFrame, frame)
    BY <1>4, <2>2 DEF GetRenderFrame, FrameRegressed
  <2> QED
    BY <2>1, <2>2
<1>5. CASE Adopt
  BY <1>5 DEF Adopt
<1>6. ASSUME NEW accepted \in SUBSET Offsets, Scan(accepted)
      PROVE FrameOrder'
  BY <1>6 DEF Scan
<1>7. ASSUME NEW intact \in BOOLEAN, ReadSentinels(intact)
      PROVE FrameOrder'
  BY <1>7, <1>0 DEF ReadSentinels, marks
<1>8. ASSUME NEW stored \in BOOLEAN, WriteHeartbeats(stored)
      PROVE FrameOrder'
  BY <1>8, <1>0 DEF WriteHeartbeats
<1>9. CASE UNCHANGED vars
  BY <1>9 DEF vars
<1> QED
  BY <1>1, <1>2, <1>3, <1>4, <1>5, <1>6, <1>7, <1>8, <1>9 DEF Next, Worker

\* Every step keeps what the worker knows of its renderer.
LEMMA RendererInHandStep ==
  ASSUME TypeOK, RendererInHand, [Next]_vars
  PROVE  RendererInHand'
<1> USE DEF TypeOK, RendererInHand, Confirmed, Optional
<1>0. FullReset => RendererInHand'
  BY DEF FullReset
<1>1. CASE Engine
  BY <1>1 DEF Engine, Tick, Regress, Replace, BuildTdb, marks
<1>2. ASSUME NEW status \in Statuses, Resolve(status) \/ RevalidateIdentity(status)
      PROVE RendererInHand'
  BY <1>2 DEF Resolve, RevalidateIdentity, TryResolve, CanAnswer, Statuses
<1>3. CASE GetterFault
  BY <1>3 DEF GetterFault
<1>4. CASE GetRenderFrame
  <2>1. CASE FrameRegressed(lastObservedFrame, frame)
    BY <1>4, <1>0, <2>1 DEF GetRenderFrame
  <2>2. CASE ~FrameRegressed(lastObservedFrame, frame)
    BY <1>4, <2>2 DEF GetRenderFrame, AtGetter, MustResolve
  <2> QED
    BY <2>1, <2>2
<1>5. CASE Adopt
  <2>1. /\ fs' = fs /\ forceResolve' = forceResolve /\ frameCount' = frameCount
        /\ fs # None /\ ~forceResolve
        /\ trackedRenderer' = fs /\ lastIdentityCheckFrame' = frameCount
        /\ pc' = Choice(discovery', lastScanFrame', lastSyncFrame')
    BY <1>5 DEF Adopt
  <2>2. CASE discovery'.confirmed # None /\ frameCount # lastSyncFrame'
    BY <2>1, <2>2 DEF Choice
  <2>3. CASE discovery'.confirmed = None /\ frameCount > Warmup /\ frameCount # lastScanFrame'
    BY <2>1, <2>3 DEF Choice
  <2>4. CASE /\ ~(discovery'.confirmed # None /\ frameCount # lastSyncFrame')
             /\ ~(discovery'.confirmed = None /\ frameCount > Warmup /\ frameCount # lastScanFrame')
    BY <2>1, <2>4 DEF Choice
  <2> QED
    BY <2>2, <2>3, <2>4
<1>6. ASSUME NEW accepted \in SUBSET Offsets, Scan(accepted)
      PROVE RendererInHand'
  BY <1>6 DEF Scan
<1>7. ASSUME NEW intact \in BOOLEAN, ReadSentinels(intact)
      PROVE RendererInHand'
  BY <1>7, <1>0 DEF ReadSentinels, marks
<1>8. ASSUME NEW stored \in BOOLEAN, WriteHeartbeats(stored)
      PROVE RendererInHand'
  BY <1>8, <1>0 DEF WriteHeartbeats
<1>9. CASE UNCHANGED vars
  BY <1>9 DEF vars
<1> QED
  BY <1>1, <1>2, <1>3, <1>4, <1>5, <1>6, <1>7, <1>8, <1>9 DEF Next, Worker

\* Every step keeps only candidates that survived every scan.
LEMMA CandidatesSurvivedStep ==
  ASSUME TypeOK, FrameOrder, RendererInHand, CandidatesSurvived, [Next]_vars
  PROVE  CandidatesSurvived'
<1> USE DEF TypeOK, CandidatesSurvived, Confirmed, Optional
<1>0. FullReset => CandidatesSurvived'
  BY DEF FullReset, Unseeded
<1>1. CASE Engine
  BY <1>1 DEF Engine, Tick, Regress, Replace, BuildTdb, marks, history
<1>2. ASSUME NEW status \in Statuses, Resolve(status) \/ RevalidateIdentity(status)
      PROVE CandidatesSurvived'
  BY <1>2 DEF Resolve, RevalidateIdentity, TryResolve, marks, history
<1>3. CASE GetterFault
  BY <1>3 DEF GetterFault, Unseeded, marks, history
<1>4. CASE GetRenderFrame
  <2>1. CASE FrameRegressed(lastObservedFrame, frame)
    BY <1>4, <1>0, <2>1 DEF GetRenderFrame, history
  <2>2. CASE ~FrameRegressed(lastObservedFrame, frame)
    BY <1>4, <2>2 DEF GetRenderFrame, history
  <2> QED
    BY <2>1, <2>2
<1>5. CASE Adopt
  <2>1. CASE fs # trackedRenderer
    BY <1>5, <2>1 DEF Adopt, Unseeded
  <2>2. CASE fs = trackedRenderer
    BY <1>5, <2>2 DEF Adopt, history
  <2> QED
    BY <2>1, <2>2
<1>6. ASSUME NEW accepted \in SUBSET Offsets, Scan(accepted)
      PROVE CandidatesSurvived'
  <2>1. /\ discovery' = Observe(discovery, accepted)
        /\ scanned' = [renderer |-> trackedRenderer, frame |-> frameCount]
        /\ lastScanFrame' = frameCount
        /\ trackedRenderer' = trackedRenderer /\ trackedRenderer # None
        /\ lastSyncFrame' = lastSyncFrame
        /\ ~Confirmed
    BY <1>6 DEF Scan, RendererInHand
  <2>2. frameCount > lastScanFrame
    BY <1>6 DEF Scan, RendererInHand, FrameOrder, Frames
  <2>3. \A o \in accepted : run'[o] >= 1
    BY <1>6 DEF Scan
  <2>4. discovery.count > 0 => \A o \in accepted : run'[o] = run[o] + 1
    BY <1>6, <2>2 DEF Scan, RendererInHand
  <2>5. CASE discovery.count = 0
    <3>1. discovery' = [Unseeded EXCEPT !.candidates = accepted, !.count = 1]
      BY <2>1, <2>5 DEF Observe
    <3> QED
      BY <3>1, <2>1, <2>3 DEF Unseeded
  <2>6. CASE discovery.count > 0
    <3> DEFINE left == discovery.candidates \intersect accepted
               n == discovery.count + 1
    <3>1. discovery' = Narrow(discovery, accepted)
      BY <2>1, <2>6 DEF Observe
    <3>2. CASE left = {}
      BY <3>1, <3>2, <2>1 DEF Narrow, Unseeded
    <3>3. CASE left # {}
      <4>1. /\ discovery'.candidates = left /\ discovery'.count = n
            /\ discovery'.confirmed = IF Settled(left, n) THEN CHOOSE o \in left : TRUE ELSE None
        BY <3>1, <3>3 DEF Narrow
      <4>2. \A o \in left : run'[o] >= n
        BY <2>4, <2>6
      <4>3. ASSUME discovery'.confirmed # None
            PROVE  left = {discovery'.confirmed} /\ n >= kConfirmationsNeeded
        <5>1. Settled(left, n)
          BY <4>1, <4>3
        <5>2. PICK o \in left : left = {o}
          BY <5>1 DEF Settled
        <5>3. (CHOOSE x \in left : TRUE) = o
          BY <5>2
        <5> QED
          BY <4>1, <5>1, <5>2, <5>3 DEF Settled
      <4> QED
        BY <4>1, <4>2, <4>3, <2>1, <2>6
    <3> QED
      BY <3>2, <3>3
  <2> QED
    BY <2>5, <2>6
<1>7. ASSUME NEW intact \in BOOLEAN, ReadSentinels(intact)
      PROVE CandidatesSurvived'
  BY <1>7, <1>0 DEF ReadSentinels, marks, history
<1>8. ASSUME NEW stored \in BOOLEAN, WriteHeartbeats(stored)
      PROVE CandidatesSurvived'
  BY <1>8, <1>0 DEF WriteHeartbeats, RendererInHand
<1>9. CASE UNCHANGED vars
  BY <1>9 DEF vars
<1> QED
  BY <1>1, <1>2, <1>3, <1>4, <1>5, <1>6, <1>7, <1>8, <1>9 DEF Next, Worker

\* Every step keeps a replaced renderer to its one write.
LEMMA StaleRendererSpentStep ==
  ASSUME TypeOK, RendererInHand, StaleRendererSpent, [Next]_vars
  PROVE  StaleRendererSpent'
<1> USE DEF TypeOK, StaleRendererSpent, Confirmed, Optional
<1>0. ASSUME FullReset, staleWrites' = staleWrites, renderer' = renderer
      PROVE  StaleRendererSpent'
  BY <1>0 DEF FullReset
<1>1. CASE Engine
  <2>1. CASE Replace
    BY <1>1, <2>1 DEF Replace, marks
  <2>2. CASE Tick \/ Regress \/ BuildTdb
    BY <2>2 DEF Tick, Regress, BuildTdb, marks, history
  <2> QED
    BY <1>1, <2>1, <2>2 DEF Engine
<1>2. ASSUME NEW status \in Statuses, Resolve(status) \/ RevalidateIdentity(status)
      PROVE StaleRendererSpent'
  BY <1>2 DEF Resolve, RevalidateIdentity, TryResolve, CanAnswer, MustResolve, Statuses, engine, marks, history
<1>3. CASE GetterFault
  BY <1>3 DEF GetterFault, engine, marks, history
<1>4. CASE GetRenderFrame
  <2>1. CASE FrameRegressed(lastObservedFrame, frame)
    BY <1>4, <1>0, <2>1 DEF GetRenderFrame, engine, history
  <2>2. CASE ~FrameRegressed(lastObservedFrame, frame)
    BY <1>4, <2>2 DEF GetRenderFrame, AtGetter, MustResolve, NeedsIdentityCheck, RendererInHand, engine, history
  <2> QED
    BY <2>1, <2>2
<1>5. CASE Adopt
  BY <1>5 DEF Adopt, Choice, RendererInHand, engine, history
<1>6. ASSUME NEW accepted \in SUBSET Offsets, Scan(accepted)
      PROVE StaleRendererSpent'
  BY <1>6 DEF Scan, RendererInHand, engine
<1>7. ASSUME NEW intact \in BOOLEAN, ReadSentinels(intact)
      PROVE StaleRendererSpent'
  <2>1. CASE intact
    BY <1>7, <2>1 DEF ReadSentinels, RendererInHand, engine, marks, history
  <2>2. CASE ~intact
    BY <1>7, <1>0, <2>2 DEF ReadSentinels, engine, history
  <2> QED
    BY <2>1, <2>2
<1>8. ASSUME NEW stored \in BOOLEAN, WriteHeartbeats(stored)
      PROVE StaleRendererSpent'
  <2>1. /\ fs \in Renderers /\ staleWrites[fs] = 0
        /\ fs = trackedRenderer /\ Confirmed /\ lastIdentityCheckFrame = frameCount
        /\ renderer' = renderer
    BY <1>8 DEF WriteHeartbeats, RendererInHand, engine
  <2>2. /\ \A r \in Renderers : staleWrites'[r] <= 1
        /\ renderer # None => staleWrites'[renderer] = 0
    BY <1>8, <2>1 DEF WriteHeartbeats
  <2>3. CASE stored
    BY <1>8, <2>1, <2>2, <2>3 DEF WriteHeartbeats
  <2>4. CASE ~stored
    BY <1>8, <2>1, <2>2, <2>4 DEF WriteHeartbeats, FullReset
  <2> QED
    BY <2>3, <2>4
<1>9. CASE UNCHANGED vars
  BY <1>9 DEF vars
<1> QED
  BY <1>1, <1>2, <1>3, <1>4, <1>5, <1>6, <1>7, <1>8, <1>9 DEF Next, Worker
-----------------------------------------------------------------------------
\* The inductive invariant holds in every reachable state.
THEOREM InvariantHolds == Spec => []IInv
<1>1. Init => IInv
  <2> SUFFICES ASSUME Init PROVE FrameOrder /\ RendererInHand /\ CandidatesSurvived /\ StaleRendererSpent
    BY TypeCorrectInit DEF IInv
  <2> QED
    BY DEF Init, FrameOrder, RendererInHand, CandidatesSurvived, StaleRendererSpent,
           Confirmed, Unseeded
<1>2. IInv /\ [Next]_vars => IInv'
  BY TypeCorrectStep, FrameOrderStep, RendererInHandStep, CandidatesSurvivedStep,
     StaleRendererSpentStep DEF IInv
<1> QED
  BY <1>1, <1>2, PTL DEF Spec

\* No cluster is confirmed by fewer than kConfirmationsNeeded consecutive scans
\* of one renderer in increasing frames (Confirmation::Observe and its resets).
THEOREM ConfirmedByScansHolds == Spec => []ConfirmedByScans
<1>1. IInv => ConfirmedByScans
  <2> SUFFICES ASSUME IInv, Confirmed
               PROVE  /\ run[discovery.confirmed] >= kConfirmationsNeeded
                      /\ scanned.renderer = trackedRenderer
                      /\ trackedRenderer # None
    BY DEF ConfirmedByScans
  <2>1. discovery.count > 0
    BY DEF IInv, CandidatesSurvived, TypeOK
  <2> QED
    BY <2>1 DEF IInv, CandidatesSurvived, TypeOK, Confirmed, Optional
<1> QED
  BY <1>1, InvariantHolds, PTL

\* A replaced renderer receives at most one more write (the identity check of
\* WorkerLoop, once per new engine frame).
THEOREM AtMostOneStaleWriteHolds == Spec => []AtMostOneStaleWrite
<1>1. IInv => AtMostOneStaleWrite
  BY DEF IInv, StaleRendererSpent, AtMostOneStaleWrite
<1> QED
  BY <1>1, InvariantHolds, PTL

\* A write goes to the confirmed renderer, with a frame later than the last.
THEOREM WritesConfirmedClusterHolds == Spec => []WritesConfirmedCluster
<1>1. IInv => WritesConfirmedCluster
  BY DEF IInv, TypeOK, Frames, FrameOrder, RendererInHand, WritesConfirmedCluster
<1> QED
  BY <1>1, InvariantHolds, PTL
-----------------------------------------------------------------------------
\* The worker implements HeartbeatSync: each of its steps leaves the target
\* alone, acquires one, drops it, or writes a later frame number to it.
LEMMA SyncStep ==
  ASSUME IInv, IInv', [Next]_vars
  PROVE  [Sync!SyncNext]_(Sync!syncVars)
<1> USE DEF Sync!SyncNext, Sync!syncVars, Target, Confirmed
<1>0. ASSUME UNCHANGED <<discovery, lastSyncFrame, trackedRenderer>>
      PROVE  UNCHANGED Sync!syncVars
  BY <1>0
<1>1. ASSUME discovery' = Unseeded
      PROVE  Sync!Drop
  BY <1>1 DEF Sync!Drop, Unseeded
<1>2. CASE Engine
  BY <1>2, <1>0 DEF Engine, Tick, Regress, Replace, BuildTdb, marks
<1>3. ASSUME NEW status \in Statuses, Resolve(status) \/ RevalidateIdentity(status)
      PROVE  [Sync!SyncNext]_(Sync!syncVars)
  BY <1>3, <1>0 DEF Resolve, RevalidateIdentity, TryResolve, marks
<1>4. CASE GetterFault
  BY <1>4, <1>0, <1>1 DEF GetterFault, marks
<1>5. CASE GetRenderFrame
  BY <1>5, <1>0, <1>1 DEF GetRenderFrame, FullReset
<1>6. CASE Adopt
  BY <1>6, <1>0, <1>1 DEF Adopt
<1>7. ASSUME NEW accepted \in SUBSET Offsets, Scan(accepted)
      PROVE  [Sync!SyncNext]_(Sync!syncVars)
  <2>1. /\ ~Confirmed /\ trackedRenderer # None /\ lastSyncFrame = 0
        /\ lastSyncFrame' = 0 /\ trackedRenderer' = trackedRenderer
    BY <1>7 DEF Scan, IInv, RendererInHand, CandidatesSurvived
  <2>2. CASE ~Confirmed'
    BY <2>1, <2>2
  <2>3. CASE Confirmed'
    <3>1. trackedRenderer \in Renderers /\ discovery'.confirmed \in Offsets
      BY <2>1, <2>3 DEF IInv, TypeOK, Optional
    <3> QED
      BY <2>1, <2>3, <3>1 DEF Sync!Acquire
  <2> QED
    BY <2>2, <2>3
<1>8. ASSUME NEW intact \in BOOLEAN, ReadSentinels(intact)
      PROVE  [Sync!SyncNext]_(Sync!syncVars)
  BY <1>8, <1>0, <1>1 DEF ReadSentinels, FullReset, marks
<1>9. ASSUME NEW stored \in BOOLEAN, WriteHeartbeats(stored)
      PROVE  [Sync!SyncNext]_(Sync!syncVars)
  <2>1. CASE stored
    <3>1. /\ Confirmed /\ trackedRenderer # None
          /\ trackedRenderer \in Renderers /\ discovery.confirmed \in Offsets
      BY <1>9 DEF WriteHeartbeats, IInv, RendererInHand, TypeOK, Optional
    <3>2. lastSyncFrame' = frameCount /\ frameCount \in Nat /\ frameCount > lastSyncFrame
      BY <1>9, <2>1 DEF WriteHeartbeats, IInv, RendererInHand, FrameOrder, TypeOK, Frames
    <3> QED
      BY <1>9, <2>1, <3>1, <3>2 DEF WriteHeartbeats, Sync!Beat
  <2>2. CASE ~stored
    BY <1>9, <1>1, <2>2 DEF WriteHeartbeats, FullReset
  <2> QED
    BY <2>1, <2>2
<1>10. CASE UNCHANGED vars
  BY <1>10, <1>0 DEF vars
<1> QED
  BY <1>2, <1>3, <1>4, <1>5, <1>6, <1>7, <1>8, <1>9, <1>10 DEF Next, Worker

\* The heartbeat worker holds one target at a time, lets go of it before it
\* takes another, and writes increasing frame numbers to it.
THEOREM HeartbeatRefinement == Spec => ImplementsSync
<1>1. Init => Sync!SyncInit
  BY DEF Init, Unseeded, Sync!SyncInit, Target, Confirmed
<1> QED
  BY <1>1, SyncStep, InvariantHolds, PTL DEF Spec, ImplementsSync, Sync!SyncSpec
=============================================================================
