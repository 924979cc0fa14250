------------------------------- MODULE Startup -------------------------------
(***************************************************************************)
(* InitializeASI (dllmain.cpp) and the layers it runs, in its order, for   *)
(* the profile of the game: the DD2-family and RE9-family layers, the      *)
(* PE-header redirection, the stack-destroyer mitigation and the two       *)
(* workers.  The loader may call it more than once; every layer discovers  *)
(* what to do afresh, before it opens a suspension window and commits.     *)
(* The game goes on rewriting its image outside the windows.               *)
(*                                                                         *)
(* The image is a set of sites a scan may find.  A site is "original", as  *)
(* the scan looks for it, "replaced", as a layer leaves it, or "other".    *)
(* What RawPatch shows of a window is one step here; PostLoadInitialize,   *)
(* which InitializeASI calls first, is in RuntimeGuards.                   *)
(***************************************************************************)
EXTENDS Naturals, Sequences, FiniteSets, Functions

CONSTANTS Dd2Constants,  \* sites of the suspicious constant the DD2-family layer finds
          Re9Constants,  \* and those the RE9-family layer finds: the sets may overlap
          Scanner,       \* the MHW scanner function
          Crashers,      \* matches of the MHW crasher branch, in path order
          Selectors,     \* slow-path selectors, in the order they are decoded
          Headers,       \* matches of the PE-header anchor, by address
          Destroyers,    \* matches of the stack-destroyer signature
          CallSites,     \* job queue call sites
          MaxCalls,      \* bound on the calls of InitializeASI
          MaxRewrites    \* bound on what the game rewrites

FamilySites == UNION {Dd2Constants, Re9Constants, {Scanner}, Range(Crashers), Range(Selectors)}
Sites == UNION {FamilySites, CallSites, Range(Headers), Destroyers}

\* The signatures of the layers differ in their bytes: no site matches two of
\* them, but for the two of the constant.
ASSUME StartupAssumption ==
  /\ MaxCalls \in Nat /\ MaxRewrites \in Nat
  /\ \A S \in {Dd2Constants, Re9Constants, Destroyers, CallSites} : IsFiniteSet(S)
  /\ Headers \in Seq(Range(Headers)) /\ Crashers \in Seq(Range(Crashers)) /\ Selectors \in Seq(Range(Selectors))
  /\ FamilySites \cap (Range(Headers) \cup Destroyers) = {}
  /\ Range(Headers) \cap Destroyers = {}

\* The capability matrix; every supported game has the DD2-family layer, the
\* stack-destroyer mitigation and the DbgUi watcher.
Game(scannerCrasher, re9Family, slowPath) ==
  [dd2Family |-> TRUE, dd2ScannerCrasher |-> scannerCrasher, re9Family |-> re9Family,
   re9SlowPath |-> slowPath, stackDestroyer |-> TRUE, heartbeat |-> re9Family, dbgUiWatcher |-> TRUE]

Unsupported == [dd2Family |-> FALSE, dd2ScannerCrasher |-> FALSE, re9Family |-> FALSE,
                re9SlowPath |-> FALSE, stackDestroyer |-> FALSE, heartbeat |-> FALSE,
                dbgUiWatcher |-> FALSE]

\* MHW; RE9; DD2, PRAGMATA, Onimusha and MHS3; any other executable.
Profiles == {Game(TRUE, FALSE, FALSE), Game(FALSE, TRUE, TRUE), Game(FALSE, TRUE, FALSE), Unsupported}

VARIABLES
  profile,   \* the game
  resolves,  \* the references to QueryPerformance* lead to the scanner function
  image,     \* site -> what it holds
  layers,    \* layers the current call has not finished
  step,      \* next step of the layer at the head
  found,     \* its candidates: site -> the bytes captured
  state,     \* g_state of the two one-shot layers
  copies,    \* header copies allocated
  hooked,    \* call sites with a mid-hook
  started,   \* g_started of the two workers
  workers,   \* worker threads that exist
  calls,     \* calls of InitializeASI
  rewrites,  \* what the game has rewritten
  clean,     \* history: no patch or hook of the family layers has failed
  writes     \* history: site -> writes of its replacement

outcome == <<state, copies, hooked, started, workers>>
vars == <<profile, resolves, image, layers, step, found, outcome, calls, rewrites, clean, writes>>
-----------------------------------------------------------------------------
(* InitializeASI.                                                          *)

\* Mutated Layers: the RE9-family layer is taken for the slow path only.
LayersOfSlowPath ==
  LET Where(enabled, layer) == IF enabled THEN <<layer>> ELSE <<>>
  IN  Where(profile.dd2Family, "dd2") \o Where(profile.re9SlowPath, "re9") \o
      Where(profile.re9Family, "peHeader") \o Where(profile.stackDestroyer, "stackDestroyer") \o
      Where(profile.heartbeat, "heartbeat") \o Where(profile.dbgUiWatcher, "dbgUi")

Layers ==
  LET Where(enabled, layer) == IF enabled THEN <<layer>> ELSE <<>>
  IN  Where(profile.dd2Family, "dd2") \o Where(profile.re9Family, "re9") \o
      Where(profile.re9Family, "peHeader") \o Where(profile.stackDestroyer, "stackDestroyer") \o
      Where(profile.heartbeat, "heartbeat") \o Where(profile.dbgUiWatcher, "dbgUi")

InitializeASI ==
  /\ layers = <<>>
  /\ calls < MaxCalls
  /\ calls' = calls + 1
  /\ layers' = Layers
  /\ UNCHANGED <<profile, resolves, image, step, found, outcome, rewrites, clean, writes>>

At(layer, s) == layers # <<>> /\ Head(layers) = layer /\ step = s

Goto(s) == step' = s /\ UNCHANGED layers

\* The layer is finished.
Done == layers' = Tail(layers) /\ step' = "discover"

Original(S) == {s \in S : image[s] = "original"}

\* What a search that stops at its first match finds in s.
FirstMatch(s) ==
  LET hits == {i \in DOMAIN s : image[s[i]] = "original"}
  IN  {s[i] : i \in {j \in hits : \A k \in hits : j <= k}}

Capture(S) == [s \in S |-> image[s]]

\* Mutated Commit: bytes that are the replacement already are written again.
CommitAgain ==
  LET due == {s \in DOMAIN found : image[s] = found[s]}
  IN  \E written \in SUBSET due :
        /\ image' = [s \in Sites |-> IF s \in written THEN "replaced" ELSE image[s]]
        /\ writes' = [s \in Sites |-> IF s \in written THEN writes[s] + 1 ELSE writes[s]]
        /\ clean' = (clean /\ written = due)

\* Mutated Commit: what the sites hold is not compared with what was captured.
CommitUnchecked ==
  LET due == {s \in DOMAIN found : image[s] # "replaced"}
  IN  \E written \in SUBSET due :
        /\ image' = [s \in Sites |-> IF s \in written THEN "replaced" ELSE image[s]]
        /\ writes' = [s \in Sites |-> IF s \in written THEN writes[s] + 1 ELSE writes[s]]
        /\ clean' = (clean /\ written = due)

\* CommitPatch, for every candidate, in a window: the replacement is written
\* where the bytes are those captured and are not the replacement already,
\* unless writing fails.  A window may also be refused.
Commit ==
  LET due == {s \in DOMAIN found : image[s] = found[s] /\ image[s] # "replaced"}
  IN  \E written \in SUBSET due :
        /\ image' = [s \in Sites |-> IF s \in written THEN "replaced" ELSE image[s]]
        /\ writes' = [s \in Sites |-> IF s \in written THEN writes[s] + 1 ELSE writes[s]]
        /\ clean' = (clean /\ written = due)
-----------------------------------------------------------------------------
(* The family layers.                                                      *)

DiscoverDd2 ==
  /\ At("dd2", "discover")
  /\ found' = Capture(Original(Dd2Constants) \cup
                      (IF profile.dd2ScannerCrasher /\ resolves
                       THEN {Scanner} \cup FirstMatch(Crashers) ELSE {}))
  /\ Goto("commit")
  /\ UNCHANGED <<profile, resolves, image, outcome, calls, rewrites, clean, writes>>

\* The createBLAS hook that follows is a guard of its own.
CommitDd2 ==
  /\ At("dd2", "commit")
  /\ Commit
  /\ found' = <<>>
  /\ Done
  /\ UNCHANGED <<profile, resolves, outcome, calls, rewrites>>

\* A selector that was replaced no longer stops the search for one.
DiscoverRe9 ==
  /\ At("re9", "discover")
  /\ found' = Capture(Original(Re9Constants) \cup
                      (IF profile.re9SlowPath THEN FirstMatch(Selectors) ELSE {}))
  /\ Goto("commit")
  /\ UNCHANGED <<profile, resolves, image, outcome, calls, rewrites, clean, writes>>

CommitRe9 ==
  /\ At("re9", "commit")
  /\ Commit
  /\ found' = <<>>
  /\ Goto("hooks")
  /\ UNCHANGED <<profile, resolves, outcome, calls, rewrites>>

\* A mid-hook rewrites the code of its call site.
InstallJobCallsiteGuards ==
  /\ At("re9", "hooks")
  /\ \E failed \in SUBSET (Original(CallSites) \ hooked) :
       LET installed == (Original(CallSites) \ hooked) \ failed
       IN  /\ hooked' = hooked \cup installed
           /\ image' = [s \in Sites |-> IF s \in installed THEN "replaced" ELSE image[s]]
           /\ clean' = (clean /\ failed = {})
  /\ Done
  /\ UNCHANGED <<profile, resolves, found, state, copies, started, workers, calls, rewrites, writes>>
-----------------------------------------------------------------------------
(* The one-shot layers.                                                    *)

\* Mutated Terminal: only a success is remembered.
Retried(layer, s) == /\ state' = [state EXCEPT ![layer] = IF s = "Patched" THEN s ELSE @]
                     /\ found' = <<>>
                     /\ Done

\* Mutated Terminal: the candidate is kept.
TerminalKeeping(layer, s) == /\ state' = [state EXCEPT ![layer] = s]
                             /\ found' = found
                             /\ Done

\* g_state becomes terminal and the layer is finished.
Terminal(layer, s) == /\ state' = [state EXCEPT ![layer] = s]
                      /\ found' = <<>>
                      /\ Done

\* Patched, NotFound, Ambiguous and Failed are all terminal.
AlreadyTerminal ==
  /\ At("peHeader", "discover") \/ At("stackDestroyer", "discover")
  /\ state[Head(layers)] # "Uninitialized"
  /\ Done
  /\ UNCHANGED <<profile, resolves, image, found, outcome, calls, rewrites, clean, writes>>

\* The first anchor with a proven structure is completed, or the search fails.
DiscoverHeader ==
  /\ At("peHeader", "discover")
  /\ state["peHeader"] = "Uninitialized"
  /\ \/ /\ FirstMatch(Headers) # {}
        /\ found' = Capture(FirstMatch(Headers))
        /\ Goto("copy")
        /\ UNCHANGED state
     \/ Terminal("peHeader", "NotFound")
  /\ UNCHANGED <<profile, resolves, image, copies, hooked, started, workers, calls, rewrites, clean, writes>>

CreateHeaderCopy ==
  /\ At("peHeader", "copy")
  /\ \/ copies' = copies + 1 /\ Goto("commit") /\ UNCHANGED <<state, found>>
     \/ Terminal("peHeader", "Failed") /\ UNCHANGED copies
  /\ UNCHANGED <<profile, resolves, image, hooked, started, workers, calls, rewrites, clean, writes>>

\* Refused, changed since it was found or not written, the candidate has
\* failed for good; so it has when it was written and the protection of its page
\* could not be put back.
CommitOneShot(layer) ==
  /\ At(layer, "commit")
  /\ \E written \in SUBSET {s \in DOMAIN found : image[s] = found[s]} :
       /\ image' = [s \in Sites |-> IF s \in written THEN "replaced" ELSE image[s]]
       /\ writes' = [s \in Sites |-> IF s \in written THEN writes[s] + 1 ELSE writes[s]]
       /\ \/ written # {} /\ Terminal(layer, "Patched")
          \/ Terminal(layer, "Failed")
  /\ UNCHANGED <<profile, resolves, copies, hooked, started, workers, calls, rewrites, clean>>

DiscoverDestroyer ==
  /\ At("stackDestroyer", "discover")
  /\ state["stackDestroyer"] = "Uninitialized"
  /\ LET matches == Original(Destroyers)
     IN  IF Cardinality(matches) = 1
         THEN found' = Capture(matches) /\ Goto("again") /\ UNCHANGED state
         ELSE Terminal("stackDestroyer", IF matches = {} THEN "NotFound" ELSE "Ambiguous")
  /\ UNCHANGED <<profile, resolves, image, copies, hooked, started, workers, calls, rewrites, clean, writes>>

\* "Pre-suspension uniqueness re-check".
DiscoverAgain ==
  /\ At("stackDestroyer", "again")
  /\ IF Original(Destroyers) = DOMAIN found
     THEN Goto("commit") /\ UNCHANGED <<state, found>>
     ELSE Terminal("stackDestroyer", "Failed")
  /\ UNCHANGED <<profile, resolves, image, copies, hooked, started, workers, calls, rewrites, clean, writes>>
-----------------------------------------------------------------------------
(* The workers, under their g_lifecycleMutex.                              *)

\* The thread may fail to start.
Initialize(w) ==
  /\ At(w, "discover")
  /\ \/ /\ ~started[w]
        /\ workers' = [workers EXCEPT ![w] = @ + 1]
        /\ started' = [started EXCEPT ![w] = TRUE]
     \/ UNCHANGED <<workers, started>>
  /\ Done
  /\ UNCHANGED <<profile, resolves, image, found, state, copies, hooked, calls, rewrites, clean, writes>>
-----------------------------------------------------------------------------
\* The sites a layer of this profile looks at; what the others hold makes no
\* difference.
Visible ==
  (IF profile.dd2Family THEN Dd2Constants \cup Destroyers ELSE {}) \cup
  (IF profile.dd2ScannerCrasher THEN {Scanner} \cup Range(Crashers) ELSE {}) \cup
  (IF profile.re9Family THEN UNION {Re9Constants, CallSites, Range(Headers)} ELSE {}) \cup
  (IF profile.re9SlowPath THEN Range(Selectors) ELSE {})

\* The game rewrites one of the sites.
Rewrite(s) ==
  /\ rewrites < MaxRewrites
  /\ rewrites' = rewrites + 1
  /\ image' \in {[image EXCEPT ![s] = b] : b \in {"original", "other"}}
  /\ UNCHANGED <<profile, resolves, layers, step, found, outcome, calls, clean, writes>>

Init ==
  /\ profile \in Profiles
  /\ resolves \in {profile.dd2ScannerCrasher, FALSE}
  /\ image \in [Sites -> {"original", "other"}]
  /\ \A s \in Sites \ Visible : image[s] = "other"
  /\ layers = <<>>
  /\ step = "discover"
  /\ found = <<>>
  /\ state = [l \in {"peHeader", "stackDestroyer"} |-> "Uninitialized"]
  /\ copies = 0
  /\ hooked = {}
  /\ started = [w \in {"heartbeat", "dbgUi"} |-> FALSE]
  /\ workers = [w \in {"heartbeat", "dbgUi"} |-> 0]
  /\ calls = 0
  /\ rewrites = 0
  /\ clean = TRUE
  /\ writes = [s \in Sites |-> 0]

Next ==
  \/ InitializeASI
  \/ DiscoverDd2 \/ CommitDd2
  \/ DiscoverRe9 \/ CommitRe9 \/ InstallJobCallsiteGuards
  \/ AlreadyTerminal \/ DiscoverHeader \/ CreateHeaderCopy \/ DiscoverDestroyer \/ DiscoverAgain
  \/ \E l \in {"peHeader", "stackDestroyer"} : CommitOneShot(l)
  \/ \E w \in {"heartbeat", "dbgUi"} : Initialize(w)
  \/ \E s \in Visible : Rewrite(s)

Spec == Init /\ [][Next]_vars
-----------------------------------------------------------------------------
(* Properties.                                                             *)

\* One layer runs at a time, and it has candidates just when it has found
\* and not yet committed them.
TypeOK ==
  /\ profile \in Profiles /\ resolves \in BOOLEAN
  /\ image \in [Sites -> {"original", "replaced", "other"}]
  /\ layers \in {<<>>} \cup {SubSeq(Layers, i, Len(Layers)) : i \in 1..Len(Layers)}
  /\ step \in {"discover", "copy", "again", "commit", "hooks"}
  /\ DOMAIN found \subseteq Sites /\ \A s \in DOMAIN found : found[s] \in {"original", "replaced", "other"}
  /\ DOMAIN found # {} => layers # <<>> /\ step \in {"copy", "again", "commit"}
  /\ state \in [{"peHeader", "stackDestroyer"} ->
                 {"Uninitialized", "Patched", "NotFound", "Ambiguous", "Failed"}]
  /\ hooked \subseteq CallSites
  /\ started \in [{"heartbeat", "dbgUi"} -> BOOLEAN] /\ workers \in [{"heartbeat", "dbgUi"} -> 0..MaxCalls]
  /\ calls \in 0..MaxCalls /\ copies \in 0..MaxCalls /\ rewrites \in 0..MaxRewrites /\ clean \in BOOLEAN
  /\ writes \in [Sites -> Nat]

AtMostOneWrite(S) ==
  /\ \A s \in S : writes[s] <= 1
  /\ \A s, t \in S : s # t => writes[s] = 0 \/ writes[t] = 0

\* However often InitializeASI is called, and whatever failed in a call or was
\* put back by the game since, there is at most one copy of the header, one
\* redirection, which has a copy, one patched stack destroyer, and one worker
\* of each kind: the one-shot layers never try again (g_state of
\* PeHeaderIntegrityBypass and StackDestroyerBypass, g_started of the
\* workers).
OneShot ==
  /\ copies <= 1
  /\ AtMostOneWrite(Range(Headers))
  /\ (\E s \in Range(Headers) : writes[s] > 0) => copies = 1
  /\ AtMostOneWrite(Destroyers)
  /\ \A w \in DOMAIN workers : workers[w] <= 1

\* InitializeASI is "safe to call more than once": if nothing failed and the
\* game has not touched its image, a further call writes nothing
\* (RE9FamilyBypass.h, DD2FamilyBypass.h: "Idempotent").
IdempotentCalls ==
  [][calls > 1 /\ clean /\ clean' /\ rewrites' = 0 => image' = image /\ writes' = writes]_vars

\* When a call in which nothing failed has ended, no site that either family
\* layer has to replace is left: neither of a constant, which two layers look
\* for in their own ways, nor of a call of a job.
Complete ==
  calls > 0 /\ layers = <<>> /\ clean /\ rewrites = 0 =>
    /\ profile.dd2Family => Original(Dd2Constants) = {}
    /\ profile.dd2ScannerCrasher /\ resolves => image[Scanner] = "replaced"
    /\ profile.re9Family => Original(Re9Constants \cup CallSites) = {}

\* The sites that are found by their signatures and replaced by CommitPatch: the
\* scanner function is found by its callers, and captured as it is.
Signed == Sites \ (CallSites \cup {Scanner})

Patched == INSTANCE PatchedSites WITH Sites <- Signed, site <- [s \in Signed |-> image[s]]

\* What a window does to the image (PatchedSites, which RawPatch implements) is
\* all that start-up does to these sites, though the game may rewrite them
\* between discovery and commit and layers look for sites of one another.
ReplacesOnlyOriginals == Patched!SitesSpec
=============================================================================
