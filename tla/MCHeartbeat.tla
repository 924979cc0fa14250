----------------------------- MODULE MCHeartbeat -----------------------------
(* A small instance of RendererHeartbeat for TLC.                          *)
EXTENDS RendererHeartbeat
-----------------------------------------------------------------------------
(* A game that calms down.  Above frame Calm the renderer, the type         *)
(* database and the cluster at Beats stay, nothing faults, no other offset  *)
(* looks like a cluster, and a frame lasts at least one worker iteration    *)
(* (1 ms, when a frame takes several).  Below, anything happens.            *)
CONSTANTS Calm, Beats

Handled == /\ lastIdentityCheckFrame = frame
           /\ IF Confirmed THEN lastSyncFrame = frame ELSE lastScanFrame = frame

CalmTick == Handled /\ Tick

CalmWorker ==
  \/ Resolve("Ready") \/ RevalidateIdentity("Ready")
  \/ GetRenderFrame
  \/ Adopt
  \/ Scan({Beats})
  \/ ReadSentinels(discovery.confirmed = Beats)
  \/ WriteHeartbeats(TRUE)

\* The game is only calm once its renderer and type database exist.
EntersCalm == frame = Calm /\ frame' > frame => tdb = "expected" /\ renderer # None

CalmingNext == IF frame > Calm THEN CalmTick \/ CalmWorker ELSE Next /\ EntersCalm

CalmingInit == Init /\ frame <= Calm

\* The worker thread keeps being scheduled, and frames keep being rendered.
CalmingSpec ==
  /\ CalmingInit
  /\ [][CalmingNext]_vars
  /\ WF_vars(frame > Calm /\ CalmWorker)
  /\ WF_vars(frame > Calm /\ CalmTick)

\* Whatever discovery, tracking and resolution state the turbulent part left,
\* once the game is calm the worker ends up synchronizing the real cluster
\* with every frame: a wrong or half-made discovery is given up.
EventuallySynchronized ==
  (frame > Calm) ~> (discovery.confirmed = Beats /\ lastSyncFrame = MaxFrame)
=============================================================================
