--------------------------- MODULE MCDbgUiWatcher ---------------------------
(* One payload region and one module to hook to; enough moves for redirects *)
(* to be installed, removed and installed elsewhere within one check.       *)
EXTENDS DbgUiWatcher
=============================================================================
