------------------------- MODULE MCThreadSuspension -------------------------
(* Small instances of ThreadSuspension for TLC: the cfg files give values  *)
(* to its constants.                                                       *)
EXTENDS ThreadSuspension
=============================================================================
