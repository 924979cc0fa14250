---------------------------- MODULE HeartbeatSync ----------------------------
(***************************************************************************)
(* What the heartbeat bypass promises, with no mention of how it finds its *)
(* target: at any time it holds at most one target, a heartbeat cluster of *)
(* one renderer; a target is only ever replaced by first being dropped;    *)
(* and the frame numbers written to a held target strictly increase.       *)
(***************************************************************************)
EXTENDS Naturals

CONSTANTS Renderers,  \* renderer objects (addresses)
          Offsets,    \* renderer-relative cluster offsets
          NoTarget    \* no cluster is held

VARIABLES target,  \* the cluster being synchronized, or NoTarget
          beat     \* the last frame number written to it, 0 when none was

syncVars == <<target, beat>>

SyncInit == target = NoTarget /\ beat = 0

Acquire == /\ target = NoTarget
           /\ target' \in Renderers \X Offsets
           /\ beat' = 0

Beat == /\ target # NoTarget
        /\ beat' \in Nat
        /\ beat' > beat
        /\ UNCHANGED target

Drop == target' = NoTarget /\ beat' = 0

SyncNext == Acquire \/ Beat \/ Drop

SyncSpec == SyncInit /\ [][SyncNext]_syncVars
=============================================================================
