--------------------------- MODULE MCRuntimeGuards ---------------------------
(* Small instances of RuntimeGuards for TLC.                               *)
EXTENDS RuntimeGuards
=============================================================================
