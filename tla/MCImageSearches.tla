--------------------------- MODULE MCImageSearches ---------------------------
(* A small image for TLC, searched by one of three clients: the renderer    *)
(* bridge, the discovery of constants, and the walk along a path of code.   *)
EXTENDS RendererBridge, ConstantDiscovery, PathWalk

VARIABLE client

searchVars == <<client, bridgeVars, discoveryVars, walkVars>>

\* Four pages of four bytes.  M d and M x refer to two slots of the module, M s
\* to none; x b s holds the encoded function base; s q is a site, the second
\* across a page boundary, the last in the margin.
MCImage == <<"M", "s", "q", "s",  "q", "M", "d", "M",  "x", "s", "q", "M",  "x", "b", "s", "q">>
MCContextPattern == <<"M", "?">>
MCEncodedPattern == <<"x", "?", "s">>
MCInModule == {"d", "x", "b"}
MCSignature == <<"s", "q">>
MCPatterns == {MCContextPattern, MCEncodedPattern, MCSignature}

MCAddresses == 1..4
MCCode == 1..3

WalkIdle ==
  /\ insn = [a \in Code |-> [kind |-> "stop", target |-> 0]]
  /\ entry = 1 /\ matches = {} /\ walk = "none" /\ worklist = <<>> /\ visited = {}
  /\ cursor = 1 /\ steps = 0 /\ budget = globalBudget /\ cut = FALSE

\* At most one page cannot be read at first.
SearchInit ==
  /\ client \in {"bridge", "discovery", "walk"}
  /\ MemoryInit /\ BridgeIdle /\ DiscoveryInit
  /\ IF client = "walk"
     THEN WalkInit /\ protection = [p \in Pages |-> "ReadOnly"]
     ELSE /\ WalkIdle
          /\ \E p \in 0..4 :
               protection = [q \in Pages |-> IF q = p THEN "NoAccess" ELSE "ExecuteRead"]

SearchNext ==
  /\ \/ client = "bridge" /\ BridgeStep /\ UNCHANGED <<discoveryVars, walkVars>>
     \/ client = "discovery" /\ DiscoveryStep /\ UNCHANGED <<engine, bridge, allowed, walkVars>>
     \/ client = "walk" /\ WalkStep /\ UNCHANGED <<bridgeVars, discoveryVars>>
  /\ UNCHANGED client

\* The worker thread keeps being scheduled.
SearchSpec ==
  /\ SearchInit /\ [][SearchNext]_searchVars
  /\ WF_searchVars(client = "bridge" /\ ResolveStep /\ UNCHANGED <<client, discoveryVars, walkVars>>)
=============================================================================
