---------------------------- MODULE BridgeAnswers ----------------------------
(* What the heartbeat worker expects of RendererBridge.Resolve, and the    *)
(* engine's state it answers about: the bridge's promise and the worker's  *)
(* assumption.                                                             *)

CONSTANTS Renderers,  \* addresses a renderer can be allocated at
          None        \* nullptr / an empty optional

VARIABLES renderer,   \* engine: the singleton's value
          tdb         \* engine: "absent", "expected" or "mismatch" type database

\* What Resolve can answer now.  Ready hands out the singleton; a type database
\* of another version is UnsupportedLayout for good; and any stage of the
\* resolution may fail for now.
CanAnswer(status) ==
  CASE status = "UnsupportedLayout" -> tdb = "mismatch"
    [] status = "Ready" -> tdb = "expected" /\ renderer # None
    [] status = "NotReadyYet" -> TRUE
=============================================================================
