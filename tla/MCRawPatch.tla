----------------------------- MODULE MCRawPatch -----------------------------
(* Suspension windows for TLC.  Either nothing is committed in them, in a   *)
(* process whose threads start, use the heap and are suspended by others;   *)
(* or candidates are, beside one thread that changes bytes and protections. *)
EXTENDS RawPatch

VARIABLE client  \* what enters the windows: a scope alone, or a commit

(* A site of three bytes across two pages, a one-byte site on a third page, *)
(* and one byte past the image.                                             *)
MCCells == 1..5
MCImage == 1..4
MCPageOf == <<1, 2, 2, 3, 3>>

\* A function entry, two bytes of which are replaced; a site that turns out to
\* be no entry; and one that is not in the image.
Entry == [expected |-> {1, 2, 3}, replacement |-> {1, 2},
          requireUnwindFunctionStart |-> TRUE, isFunctionStart |-> TRUE]
NotAnEntry == [expected |-> {4}, replacement |-> {4},
               requireUnwindFunctionStart |-> TRUE, isFunctionStart |-> FALSE]
Outside == [expected |-> {5}, replacement |-> {5},
            requireUnwindFunctionStart |-> FALSE, isFunctionStart |-> FALSE]

AllSites == <<Outside, Entry, NotAnEntry>>

WindowInit ==
  /\ PatchInit
  /\ client \in {"scope", "commit"}
  /\ client = "scope" => \A p \in Pages : protection[p] = "ExecuteRead"
  /\ client = "commit" => alive \cap HeapUsers = {} /\ alive # Patchers

WindowNext ==
  /\ \/ /\ client = "scope"
        /\ \/ (Process \/ \E p \in Patchers : Enter(p)) /\ UNCHANGED patchVars
           \/ SuspendOthers
           \/ CloseWindow
     \/ /\ client = "commit"
        /\ PatchNext
        /\ alive' \subseteq alive /\ outside' = outside
  /\ UNCHANGED client

\* The scope gets on, and with it the commit in its window.
WindowSpec == WindowInit /\ [][WindowNext]_<<client, vars, patchVars>> /\ Fairness
=============================================================================
