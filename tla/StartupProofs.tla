---------------------------- MODULE StartupProofs ----------------------------
(***************************************************************************)
(* The properties of Startup, for every game, set of sites, number of      *)
(* calls and rewriting by the game.                                        *)
(*                                                                         *)
(* OneShot: the invariant follows a layer from its discovery to its        *)
(* commit: while a one-shot layer is on its way g_state is Uninitialized,  *)
(* so nothing of it has been written, and its header has been copied only  *)
(* between the copy and the commit; its candidates are of its own kind and *)
(* at most one.                                                            *)
(*                                                                         *)
(* Complete: a layer that is no longer on the list of layers has done what *)
(* it was to do.  IdempotentCalls: from the second call on, all is done,   *)
(* so nothing a layer finds is due.                                        *)
(*                                                                         *)
(* ReplacesOnlyOriginals: what waits for a commit was original when it was *)
(* found, and a commit compares.                                           *)
(***************************************************************************)
EXTENDS Startup, FiniteSetTheorems, SequenceTheorems, TLAPS

OneShotLayers == {"peHeader", "stackDestroyer"}
Workers == {"heartbeat", "dbgUi"}

Typed ==
  /\ state \in [OneShotLayers -> {"Uninitialized", "Patched", "NotFound", "Ambiguous", "Failed"}]
  /\ started \in [Workers -> BOOLEAN]
  /\ workers \in [Workers -> Nat]
  /\ writes \in [Sites -> Nat]
  /\ copies \in Nat

Within(S) == DOMAIN found \subseteq S /\ \A s, t \in DOMAIN found : s = t

\* What each step of a layer has at hand.
Candidates ==
  /\ layers = <<>> => step = "discover"
  /\ At("dd2", "commit") \/ At("re9", "commit") => DOMAIN found \subseteq FamilySites
  /\ At("peHeader", "copy") \/ At("peHeader", "commit") => Within(Range(Headers))
  /\ At("stackDestroyer", "again") \/ At("stackDestroyer", "commit") => Within(Destroyers)

\* A layer that has begun is not terminal.
Begun ==
  \A l \in OneShotLayers : layers # <<>> /\ Head(layers) = l /\ step # "discover" => state[l] = "Uninitialized"

Unwritten ==
  /\ state["peHeader"] = "Uninitialized" =>
       /\ \A s \in Range(Headers) : writes[s] = 0
       /\ copies = IF At("peHeader", "commit") THEN 1 ELSE 0
  /\ state["stackDestroyer"] = "Uninitialized" => \A s \in Destroyers : writes[s] = 0

StartedOnce == \A w \in Workers : workers[w] = IF started[w] THEN 1 ELSE 0

OneShotInv == Typed /\ Candidates /\ Begun /\ Unwritten /\ StartedOnce /\ OneShot

-----------------------------------------------------------------------------
\* A search that stops at its first match finds at most one, among those it
\* searches.
LEMMA FirstMatchIsOne ==
  ASSUME NEW s, s \in Seq(Range(s))
  PROVE  FirstMatch(s) \subseteq Range(s) /\ \A x, y \in FirstMatch(s) : x = y
<1>1. DOMAIN s = 1..Len(s) /\ Len(s) \in Nat
  OBVIOUS
<1>. QED
  BY <1>1 DEF FirstMatch, Range

\* A set of one element has only one.
LEMMA Singleton ==
  ASSUME NEW S, IsFiniteSet(S), Cardinality(S) = 1
  PROVE  \A x, y \in S : x = y
BY FS_Singleton

\* Steps that leave what OneShot is about alone, and leave the layer they are
\* in with candidates it may have, keep the invariant.
LEMMA Elsewhere ==
  ASSUME OneShotInv, UNCHANGED <<state, copies, started, workers, writes>>,
         Candidates',
         \A l \in OneShotLayers :
           layers' # <<>> /\ Head(layers') = l /\ step' # "discover" =>
             state[l] = "Uninitialized",
         At("peHeader", "commit")' <=> At("peHeader", "commit")
  PROVE  OneShotInv'
BY DEF OneShotInv, Typed, Begun, Unwritten, StartedOnce, OneShot, AtMostOneWrite, Workers

\* A one-shot layer that ends without a write keeps the invariant.
LEMMA Ended ==
  ASSUME OneShotInv, NEW l \in OneShotLayers, NEW s \in {"NotFound", "Ambiguous", "Failed"},
         layers # <<>>, Head(layers) = l, Terminal(l, s), UNCHANGED <<copies, started, workers, writes>>
  PROVE  OneShotInv'
<1>1. step' = "discover" /\ state' = [state EXCEPT ![l] = s] BY DEF Terminal, Done
<1>2. Candidates' /\ Begun' /\ ~At("peHeader", "commit")' BY <1>1 DEF Candidates, Begun, At
<1>3. Typed' BY <1>1 DEF OneShotInv, Typed
<1>4. state'[l] # "Uninitialized" /\ \A k \in OneShotLayers \ {l} : state'[k] = state[k]
  BY <1>1 DEF OneShotInv, Typed
<1>5. Unwritten'
  <2>1. CASE l = "peHeader" BY <1>4, <2>1 DEF OneShotInv, Unwritten, OneShotLayers
  <2>2. CASE l = "stackDestroyer"
    <3>1. ~At("peHeader", "commit") BY <2>2 DEF At
    <3>. QED BY <1>2, <1>4, <2>2, <3>1 DEF OneShotInv, Unwritten, OneShotLayers
  <2>. QED BY <2>1, <2>2 DEF OneShotLayers
<1>6. StartedOnce' /\ OneShot' BY DEF OneShotInv, StartedOnce, OneShot, AtMostOneWrite
<1>. QED BY <1>2, <1>3, <1>5, <1>6 DEF OneShotInv

-----------------------------------------------------------------------------
\* Nothing was done before the first call.
LEMMA InitOneShot == Init => OneShotInv
<1>. SUFFICES ASSUME Init PROVE OneShotInv
  OBVIOUS
<1>1. Typed BY DEF Init, Typed, OneShotLayers, Workers
<1>2. Candidates /\ Begun /\ ~At("peHeader", "commit") BY DEF Init, Candidates, Begun, At
<1>3. \A s \in Range(Headers) \cup Destroyers : writes[s] = 0 BY DEF Init, Sites
<1>4. Unwritten BY <1>2, <1>3 DEF Init, Unwritten
<1>5. StartedOnce BY DEF Init, StartedOnce, Workers
<1>6. OneShot BY <1>3 DEF Init, OneShot, AtMostOneWrite
<1>. QED BY <1>1, <1>2, <1>4, <1>5, <1>6 DEF OneShotInv

\* The steps of the family layers, of the discoveries and of the game.
LEMMA StepsElsewhere ==
  ASSUME OneShotInv,
         \/ InitializeASI \/ DiscoverDd2 \/ DiscoverRe9 \/ InstallJobCallsiteGuards \/ AlreadyTerminal
         \/ \E s \in Visible : Rewrite(s)
  PROVE  OneShotInv'
<1>1. CASE InitializeASI
  <2>1. Candidates' BY <1>1 DEF InitializeASI, OneShotInv, Candidates, At, outcome
  <2>. QED BY <1>1, <2>1, Elsewhere DEF InitializeASI, outcome, At, OneShotInv, Candidates
<1>2. CASE DiscoverDd2
  <2>1. DOMAIN found' \subseteq FamilySites
    <3>1. FirstMatch(Crashers) \subseteq Range(Crashers) BY FirstMatchIsOne, StartupAssumption
    <3>. QED BY <1>2, <3>1 DEF DiscoverDd2, Capture, Original, FamilySites
  <2>2. Candidates' BY <1>2, <2>1 DEF DiscoverDd2, Candidates, At, Goto
  <2>. QED BY <1>2, <2>2, Elsewhere DEF DiscoverDd2, Goto, outcome, At, OneShotLayers
<1>3. CASE DiscoverRe9
  <2>1. DOMAIN found' \subseteq FamilySites
    <3>1. FirstMatch(Selectors) \subseteq Range(Selectors) BY FirstMatchIsOne, StartupAssumption
    <3>. QED BY <1>3, <3>1 DEF DiscoverRe9, Capture, Original, FamilySites
  <2>2. Candidates' BY <1>3, <2>1 DEF DiscoverRe9, Candidates, At, Goto
  <2>. QED BY <1>3, <2>2, Elsewhere DEF DiscoverRe9, Goto, outcome, At, OneShotLayers
<1>4. CASE InstallJobCallsiteGuards
  <2>1. Candidates' BY <1>4 DEF InstallJobCallsiteGuards, Candidates, At, Done
  <2>. QED BY <1>4, <2>1, Elsewhere DEF InstallJobCallsiteGuards, Done, At
<1>5. CASE AlreadyTerminal
  <2>1. Candidates' BY <1>5 DEF AlreadyTerminal, Candidates, At, Done
  <2>. QED BY <1>5, <2>1, Elsewhere DEF AlreadyTerminal, Done, At, outcome
<1>6. CASE \E s \in Visible : Rewrite(s)
  <2>1. UNCHANGED <<layers, step, found, outcome, writes>> BY <1>6 DEF Rewrite
  <2>2. Candidates' BY <2>1 DEF OneShotInv, Candidates, At, Within
  <2>. QED BY <2>1, <2>2, Elsewhere DEF outcome, At, OneShotInv, Begun
<1>. QED BY <1>1, <1>2, <1>3, <1>4, <1>5, <1>6

\* What the commit of a family layer writes is none of a one-shot layer's.
LEMMA FamilyCommit ==
  ASSUME OneShotInv, CommitDd2 \/ CommitRe9
  PROVE  OneShotInv'
<1>1. Commit /\ UNCHANGED <<state, copies, started, workers>> /\ found' = <<>>
  BY DEF CommitDd2, CommitRe9, outcome
<1>2. DOMAIN found \subseteq FamilySites
  BY DEF CommitDd2, CommitRe9, OneShotInv, Candidates
<1>3. /\ writes' \in [Sites -> Nat]
      /\ \A s \in Range(Headers) \cup Destroyers : writes'[s] = writes[s]
  <2>1. PICK written \in SUBSET DOMAIN found :
          writes' = [s \in Sites |-> IF s \in written THEN writes[s] + 1 ELSE writes[s]]
    BY <1>1 DEF Commit
  <2>. QED BY <1>2, <2>1, StartupAssumption DEF OneShotInv, Typed, Sites
<1>4. /\ layers # <<>> /\ Head(layers) \in {"dd2", "re9"} /\ step = "commit"
      /\ step' = "discover" \/ (step' = "hooks" /\ layers' = layers)
  <2>1. CASE CommitDd2
    <3>1. At("dd2", "commit") /\ Done BY <2>1 DEF CommitDd2
    <3>. QED BY <3>1 DEF At, Done
  <2>2. CASE CommitRe9 BY <2>2 DEF CommitRe9, At, Goto
  <2>. QED BY <2>1, <2>2
<1>5. Candidates' BY <1>4 DEF Candidates, At
<1>. QED
  BY <1>1, <1>3, <1>4, <1>5
  DEF OneShotInv, Typed, Begun, Unwritten, StartedOnce, OneShot, AtMostOneWrite, At, OneShotLayers, Workers

\* The header is copied for a candidate, once.
LEMMA HeaderSteps ==
  ASSUME OneShotInv, DiscoverHeader \/ CreateHeaderCopy
  PROVE  OneShotInv'
<1>1. CASE DiscoverHeader
  <2>1. CASE found' = Capture(FirstMatch(Headers)) /\ Goto("copy") /\ UNCHANGED state
    <3>1. FirstMatch(Headers) \subseteq Range(Headers) /\ \A x, y \in FirstMatch(Headers) : x = y
      BY FirstMatchIsOne, StartupAssumption
    <3>2. DOMAIN found' = FirstMatch(Headers) BY <2>1 DEF Capture
    <3>3. Candidates' BY <1>1, <2>1, <3>1, <3>2 DEF DiscoverHeader, Candidates, Within, At, Goto
    <3>. QED BY <1>1, <2>1, <3>3, Elsewhere DEF DiscoverHeader, Goto, At, OneShotLayers
  <2>2. CASE Terminal("peHeader", "NotFound")
    BY <1>1, <2>2, Ended DEF DiscoverHeader, At, OneShotLayers
  <2>. QED BY <1>1, <2>1, <2>2 DEF DiscoverHeader
<1>2. CASE CreateHeaderCopy
  <2>1. CASE copies' = copies + 1 /\ Goto("commit") /\ UNCHANGED <<state, found>>
    <3>1. Candidates' BY <1>2, <2>1 DEF CreateHeaderCopy, OneShotInv, Candidates, Within, At, Goto
    <3>. QED
      BY <1>2, <2>1, <3>1
      DEF CreateHeaderCopy, Goto, OneShotInv, Typed, Begun, Unwritten, StartedOnce, OneShot,
          AtMostOneWrite, At, OneShotLayers, Workers
  <2>2. CASE Terminal("peHeader", "Failed") /\ UNCHANGED copies
    BY <1>2, <2>2, Ended DEF CreateHeaderCopy, At, OneShotLayers
  <2>. QED BY <1>2, <2>1, <2>2 DEF CreateHeaderCopy
<1>. QED BY <1>1, <1>2

\* The stack destroyer has one candidate, found twice.
LEMMA DestroyerSteps ==
  ASSUME OneShotInv, DiscoverDestroyer \/ DiscoverAgain
  PROVE  OneShotInv'
<1>1. UNCHANGED <<copies, started, workers, writes>> /\ layers # <<>> /\ Head(layers) = "stackDestroyer"
  BY DEF DiscoverDestroyer, DiscoverAgain, At
<1>2. CASE \E s \in {"NotFound", "Ambiguous", "Failed"} : Terminal("stackDestroyer", s)
  BY <1>1, <1>2, Ended DEF OneShotLayers
<1>3. CASE DiscoverDestroyer /\ Goto("again") /\ UNCHANGED state /\ found' = Capture(Original(Destroyers))
           /\ Cardinality(Original(Destroyers)) = 1
  <2>1. \A x, y \in Original(Destroyers) : x = y
    <3>1. IsFiniteSet(Original(Destroyers)) BY StartupAssumption, FS_Subset DEF Original
    <3>. QED BY <1>3, <3>1, Singleton
  <2>2. DOMAIN found' = Original(Destroyers) BY <1>3 DEF Capture
  <2>3. Within(Destroyers)' BY <2>1, <2>2 DEF Within, Original
  <2>4. Candidates' BY <1>1, <1>3, <2>3 DEF Candidates, At, Goto
  <2>. QED BY <1>1, <1>3, <2>4, Elsewhere DEF DiscoverDestroyer, Goto, At, OneShotLayers
<1>4. CASE DiscoverAgain /\ Goto("commit") /\ UNCHANGED <<state, found>>
  <2>1. Candidates' BY <1>1, <1>4 DEF DiscoverAgain, OneShotInv, Candidates, Within, At, Goto
  <2>. QED BY <1>1, <1>4, <2>1, Elsewhere DEF DiscoverAgain, Goto, At, OneShotLayers, OneShotInv, Begun
<1>5. CASE DiscoverDestroyer
  <2>1. CASE Cardinality(Original(Destroyers)) = 1 BY <1>3, <1>5, <2>1 DEF DiscoverDestroyer
  <2>2. CASE Cardinality(Original(Destroyers)) # 1 BY <1>2, <1>5, <2>2 DEF DiscoverDestroyer
  <2>. QED BY <2>1, <2>2
<1>6. CASE DiscoverAgain
  BY <1>2, <1>4, <1>6 DEF DiscoverAgain
<1>. QED BY <1>5, <1>6

\* A commit writes at most one site of its layer, of which nothing had been
\* written, and is the last of its layer.
LEMMA OneShotCommit ==
  ASSUME OneShotInv, NEW l \in OneShotLayers, CommitOneShot(l)
  PROVE  OneShotInv'
<1>1. PICK written \in SUBSET DOMAIN found :
        /\ writes' = [s \in Sites |-> IF s \in written THEN writes[s] + 1 ELSE writes[s]]
        /\ Terminal(l, "Patched") \/ Terminal(l, "Failed")
  BY DEF CommitOneShot
<1>2. At(l, "commit") /\ state[l] = "Uninitialized" /\ UNCHANGED <<copies, started, workers>>
  BY DEF CommitOneShot, At, OneShotInv, Begun
<1>3. step' = "discover" BY <1>1 DEF Terminal, Done
<1>4. Candidates' BY <1>3 DEF Candidates, At
<1>5. \E r \in {"Patched", "Failed"} : state' = [state EXCEPT ![l] = r] BY <1>1 DEF Terminal
<1>6. writes' \in [Sites -> Nat] BY <1>1 DEF OneShotInv, Typed
<1>7. Typed' /\ StartedOnce' /\ Begun' /\ ~At("peHeader", "commit")'
  BY <1>2, <1>3, <1>5, <1>6 DEF OneShotInv, Typed, StartedOnce, Begun, At
<1>8. state'[l] # "Uninitialized" /\ \A k \in OneShotLayers \ {l} : state'[k] = state[k]
  BY <1>5 DEF OneShotInv, Typed
<1>9. CASE l = "peHeader"
  <2>1. (\A s \in Range(Headers) : writes[s] = 0) /\ copies = 1
    BY <1>2, <1>9 DEF OneShotInv, Unwritten
  <2>2. Within(Range(Headers)) BY <1>2, <1>9 DEF OneShotInv, Candidates
  <2>3. \A s \in Destroyers : writes'[s] = writes[s]
    BY <1>1, <2>2, StartupAssumption DEF Within, Sites, OneShotInv, Typed
  <2>4. AtMostOneWrite(Range(Headers))'
    BY <1>1, <2>1, <2>2 DEF AtMostOneWrite, Within, Sites
  <2>5. AtMostOneWrite(Destroyers)' BY <2>3 DEF AtMostOneWrite, OneShotInv, OneShot
  <2>6. Unwritten' BY <1>8, <1>9, <2>3 DEF OneShotInv, Unwritten, OneShotLayers
  <2>7. OneShot' BY <1>2, <2>1, <2>4, <2>5 DEF OneShotInv, OneShot
  <2>. QED BY <1>4, <1>7, <2>6, <2>7 DEF OneShotInv
<1>10. CASE l = "stackDestroyer"
  <2>1. \A s \in Destroyers : writes[s] = 0
    BY <1>2, <1>10 DEF OneShotInv, Unwritten
  <2>2. Within(Destroyers) BY <1>2, <1>10 DEF OneShotInv, Candidates
  <2>3. \A s \in Range(Headers) : writes'[s] = writes[s]
    BY <1>1, <2>2, StartupAssumption DEF Within, Sites, OneShotInv, Typed
  <2>4. AtMostOneWrite(Destroyers)'
    BY <1>1, <2>1, <2>2 DEF AtMostOneWrite, Within, Sites
  <2>5. AtMostOneWrite(Range(Headers))' BY <2>3 DEF AtMostOneWrite, OneShotInv, OneShot
  <2>6. ~At("peHeader", "commit") BY <1>2, <1>10 DEF At
  <2>7. Unwritten' BY <1>2, <1>7, <1>8, <1>10, <2>3, <2>6 DEF OneShotInv, Unwritten, OneShotLayers
  <2>8. OneShot' BY <1>2, <2>3, <2>4, <2>5 DEF OneShotInv, OneShot
  <2>. QED BY <1>4, <1>7, <2>7, <2>8 DEF OneShotInv
<1>. QED BY <1>9, <1>10 DEF OneShotLayers

\* A worker is started under the mutex, when started is not set.
LEMMA WorkerSteps ==
  ASSUME OneShotInv, NEW w \in Workers, Initialize(w)
  PROVE  OneShotInv'
<1>1. layers # <<>> /\ Head(layers) = w /\ step' = "discover" /\ UNCHANGED <<state, copies, writes>>
  BY DEF Initialize, At, Done
<1>2. Candidates' BY <1>1 DEF Candidates, At
<1>3. Typed' /\ StartedOnce' /\ \A v \in Workers : workers'[v] <= 1
  <2>1. CASE ~started[w] /\ workers' = [workers EXCEPT ![w] = @ + 1] /\ started' = [started EXCEPT ![w] = TRUE]
    <3>1. Typed' BY <1>1, <2>1 DEF OneShotInv, Typed
    <3>2. workers[w] = 0 BY <2>1 DEF OneShotInv, StartedOnce
    <3>. QED BY <2>1, <3>1, <3>2 DEF OneShotInv, Typed, StartedOnce
  <2>2. CASE UNCHANGED <<workers, started>>
    BY <1>1, <2>2 DEF OneShotInv, Typed, StartedOnce
  <2>. QED BY <2>1, <2>2 DEF Initialize
<1>. QED
  <2>1. ~At("peHeader", "commit") /\ ~At("peHeader", "commit")' BY <1>1 DEF At, Workers
  <2>2. Begun' /\ Unwritten' BY <1>1, <2>1 DEF OneShotInv, Begun, Unwritten
  <2>3. OneShot' BY <1>1, <1>3 DEF OneShotInv, OneShot, AtMostOneWrite, Typed, Workers
  <2>. QED BY <1>2, <1>3, <2>2, <2>3 DEF OneShotInv

-----------------------------------------------------------------------------
\* The invariant holds in every reachable state.
THEOREM OneShotInvariant == Spec => []OneShotInv
<1>1. Init => OneShotInv BY InitOneShot
<1>2. OneShotInv /\ [Next]_vars => OneShotInv'
  <2>1. ASSUME OneShotInv, Next PROVE OneShotInv'
    BY <2>1, StepsElsewhere, FamilyCommit, HeaderSteps, DestroyerSteps, OneShotCommit, WorkerSteps
    DEF Next, OneShotLayers, Workers
  <2>2. ASSUME OneShotInv, UNCHANGED vars PROVE OneShotInv'
    <3>1. Candidates' BY <2>2 DEF OneShotInv, Candidates, Within, At, vars
    <3>. QED BY <2>2, <3>1, Elsewhere DEF vars, outcome, At, OneShotInv, Begun
  <2>. QED BY <2>1, <2>2
<1>. QED BY <1>1, <1>2, PTL DEF Spec

\* However often InitializeASI is called, the one-shot layers write once and
\* each worker is started once.
THEOREM OneShotHolds == Spec => []OneShot
<1>1. OneShotInv => OneShot BY DEF OneShotInv
<1>. QED BY <1>1, OneShotInvariant, PTL

-----------------------------------------------------------------------------
(* Complete.                                                               *)

LayerNames == {"dd2", "re9", "peHeader", "stackDestroyer", "heartbeat", "dbgUi"}

\* What two sequences in a row hold.
LEMMA InConcat ==
  ASSUME NEW S, NEW s \in Seq(S), NEW t \in Seq(S)
  PROVE  s \o t \in Seq(S) /\ Range(s \o t) = Range(s) \cup Range(t)
<1>1. /\ s \o t \in Seq(S) /\ Len(s \o t) = Len(s) + Len(t)
      /\ \A i \in 1..Len(s) + Len(t) : (s \o t)[i] = IF i <= Len(s) THEN s[i] ELSE t[i - Len(s)]
  BY ConcatProperties
<1>2. /\ Len(s) \in Nat /\ Len(t) \in Nat
      /\ DOMAIN s = 1..Len(s) /\ DOMAIN t = 1..Len(t) /\ DOMAIN (s \o t) = 1..Len(s) + Len(t)
  BY <1>1, LenProperties
<1> DEFINE u == s \o t
           m == Len(s)
           n == Len(t)
<1>3. \A i \in 1..m : u[i] = s[i] /\ i \in 1..m + n
  BY <1>1, <1>2
<1>4. \A i \in 1..n : u[i + m] = t[i] /\ i + m \in 1..m + n
  BY <1>1, <1>2
<1>5. \A i \in 1..m + n : i \in 1..m \/ (i - m \in 1..n /\ u[i] = t[i - m])
  BY <1>1, <1>2
<1>6. DOMAIN u = 1..m + n
  BY <1>2
<1> HIDE DEF u, m, n
<1>7. Range(u) = Range(s) \cup Range(t)
  <2>1. Range(u) \subseteq Range(s) \cup Range(t)
    BY <1>2, <1>3, <1>5, <1>6 DEF Range, m, n
  <2>2. Range(s) \subseteq Range(u) /\ Range(t) \subseteq Range(u)
    BY <1>2, <1>3, <1>4, <1>6 DEF Range, m, n
  <2> QED
    BY <2>1, <2>2
<1> QED
  BY <1>1, <1>7 DEF u

\* What a sequence holds behind its head.
LEMMA InTail ==
  ASSUME NEW S, NEW s \in Seq(S), s # <<>>
  PROVE  Tail(s) \in Seq(S) /\ Range(s) = {Head(s)} \cup Range(Tail(s))
<1>1. Len(s) \in Nat \ {0} /\ DOMAIN s = 1..Len(s)
  BY LenProperties, EmptySeq
<1>2. Tail(s) \in Seq(S) /\ Len(Tail(s)) = Len(s) - 1 /\ \A i \in 1..Len(s) - 1 : Tail(s)[i] = s[i + 1]
  BY HeadTailProperties
<1>3. DOMAIN Tail(s) = 1..Len(s) - 1 /\ Head(s) = s[1]
  BY <1>2, LenProperties, HeadTailProperties
<1> DEFINE t == Tail(s)
           n == Len(s)
<1> HIDE DEF t, n
<1>4. \A i \in 1..n : i = 1 \/ (i - 1 \in 1..n - 1 /\ s[i] = t[i - 1])
  BY <1>1, <1>2 DEF t, n
<1>5. \A i \in 1..n - 1 : i + 1 \in 1..n /\ t[i] = s[i + 1]
  BY <1>1, <1>2 DEF t, n
<1>6. Range(s) = {s[1]} \cup Range(t)
  <2>1. 1 \in 1..n
    BY <1>1 DEF n
  <2>2. Range(s) = {s[i] : i \in 1..n} /\ Range(t) = {t[i] : i \in 1..n - 1}
    BY <1>1, <1>3 DEF Range, t, n
  <2> QED
    BY <1>4, <1>5, <2>1, <2>2
<1> QED
  BY <1>2, <1>3, <1>6 DEF t

\* The layers a call runs.
LEMMA LayersOfProfile ==
  /\ Layers \in Seq(LayerNames)
  /\ "dd2" \in Range(Layers) <=> profile.dd2Family
  /\ "re9" \in Range(Layers) <=> profile.re9Family
<1> DEFINE Where(enabled, layer) == IF enabled THEN <<layer>> ELSE <<>>
           Only(enabled, layer) == IF enabled THEN {layer} ELSE {}
<1>1. ASSUME NEW b, NEW l \in LayerNames
      PROVE  Where(b, l) \in Seq(LayerNames) /\ Range(Where(b, l)) = Only(b, l)
  <2>1. CASE b
    <3>1. Where(b, l) = <<l>> /\ <<l>> \in Seq(LayerNames) /\ DOMAIN <<l>> = {1} /\ <<l>>[1] = l
      BY <2>1
    <3> QED
      BY <2>1, <3>1 DEF Range
  <2>2. CASE ~b
    <3>1. Where(b, l) = <<>> /\ DOMAIN <<>> = {}
      BY <2>2
    <3> QED
      BY <2>2, <3>1 DEF Range
  <2> QED
    BY <2>1, <2>2
<1> DEFINE w1 == Where(profile.dd2Family, "dd2")
           w2 == Where(profile.re9Family, "re9")
           w3 == Where(profile.re9Family, "peHeader")
           w4 == Where(profile.stackDestroyer, "stackDestroyer")
           w5 == Where(profile.heartbeat, "heartbeat")
           w6 == Where(profile.dbgUiWatcher, "dbgUi")
<1>2. /\ w1 \in Seq(LayerNames) /\ Range(w1) = Only(profile.dd2Family, "dd2")
      /\ w2 \in Seq(LayerNames) /\ Range(w2) = Only(profile.re9Family, "re9")
      /\ w3 \in Seq(LayerNames) /\ Range(w3) = Only(profile.re9Family, "peHeader")
      /\ w4 \in Seq(LayerNames) /\ Range(w4) = Only(profile.stackDestroyer, "stackDestroyer")
      /\ w5 \in Seq(LayerNames) /\ Range(w5) = Only(profile.heartbeat, "heartbeat")
      /\ w6 \in Seq(LayerNames) /\ Range(w6) = Only(profile.dbgUiWatcher, "dbgUi")
  <2>1. /\ "dd2" \in LayerNames /\ "re9" \in LayerNames /\ "peHeader" \in LayerNames
        /\ "stackDestroyer" \in LayerNames /\ "heartbeat" \in LayerNames /\ "dbgUi" \in LayerNames
    BY DEF LayerNames
  <2> HIDE DEF Where, Only
  <2> QED
    BY <1>1, <2>1
<1>3. Layers = w1 \o w2 \o w3 \o w4 \o w5 \o w6
  BY DEF Layers
<1> HIDE DEF w1, w2, w3, w4, w5, w6, Where, Only
<1>13. /\ w1 \in Seq(LayerNames) /\ w2 \in Seq(LayerNames) /\ w3 \in Seq(LayerNames)
       /\ w4 \in Seq(LayerNames) /\ w5 \in Seq(LayerNames) /\ w6 \in Seq(LayerNames)
  BY <1>2
<1> DEFINE p2 == w1 \o w2
           p3 == p2 \o w3
           p4 == p3 \o w4
           p5 == p4 \o w5
<1>4. p2 \in Seq(LayerNames) /\ Range(p2) = Range(w1) \cup Range(w2)
  BY <1>13, InConcat
<1> HIDE DEF p2
<1>5. p3 \in Seq(LayerNames) /\ Range(p3) = Range(p2) \cup Range(w3)
  BY <1>13, <1>4, InConcat
<1> HIDE DEF p3
<1>6. p4 \in Seq(LayerNames) /\ Range(p4) = Range(p3) \cup Range(w4)
  BY <1>13, <1>5, InConcat
<1> HIDE DEF p4
<1>7. p5 \in Seq(LayerNames) /\ Range(p5) = Range(p4) \cup Range(w5)
  BY <1>13, <1>6, InConcat
<1>8. Layers = p5 \o w6
  BY <1>3 DEF p4, p3, p2
<1> HIDE DEF p5
<1>9. Layers \in Seq(LayerNames) /\ Range(Layers) = Range(p5) \cup Range(w6)
  BY <1>13, <1>7, <1>8, InConcat
<1>10. \A l : l \in Range(Layers) <=>
         \/ l \in Only(profile.dd2Family, "dd2") \/ l \in Only(profile.re9Family, "re9")
         \/ l \in Only(profile.re9Family, "peHeader") \/ l \in Only(profile.stackDestroyer, "stackDestroyer")
         \/ l \in Only(profile.heartbeat, "heartbeat") \/ l \in Only(profile.dbgUiWatcher, "dbgUi")
  <2>1. \A l : l \in Range(Layers) <=> l \in Range(p4) \/ l \in Range(w5) \/ l \in Range(w6)
    BY <1>7, <1>9
  <2>2. \A l : l \in Range(p4) <=> \/ l \in Range(w1) \/ l \in Range(w2) \/ l \in Range(w3) \/ l \in Range(w4)
    BY <1>4, <1>5, <1>6
  <2> QED
    BY <1>2, <2>1, <2>2
<1>11. \A b, k, l : l \in Only(b, k) <=> b /\ l = k
  BY DEF Only
<1>12. /\ "dd2" \in Range(Layers) <=> profile.dd2Family
       /\ "re9" \in Range(Layers) <=> profile.re9Family
  BY <1>10, <1>11
<1> QED
  BY <1>9, <1>12

-----------------------------------------------------------------------------
Contents == {"original", "replaced", "other"}

\* Nothing has failed, and the game has not touched its image.
Undisturbed == clean /\ rewrites = 0

ScannerWanted == profile.dd2ScannerCrasher /\ resolves

Dd2Done == /\ profile.dd2Family => Original(Dd2Constants) = {}
           /\ ScannerWanted => image[Scanner] = "replaced"

Re9Done == profile.re9Family => Original(Re9Constants \cup CallSites) = {}

\* The candidates hold what was captured.
Fresh == \A s \in DOMAIN found : found[s] = image[s]

\* What the family layers have at hand,
AtHand ==
  /\ At("dd2", "commit") =>
       /\ Fresh
       /\ Original(Dd2Constants) \subseteq DOMAIN found
       /\ ScannerWanted => Scanner \in DOMAIN found
  /\ At("re9", "commit") => Fresh /\ Original(Re9Constants) \subseteq DOMAIN found
  /\ At("re9", "hooks") => Original(Re9Constants) = {}

\* what they have done,
DoneSoFar ==
  /\ calls > 0 /\ "dd2" \notin Range(layers) => Dd2Done
  /\ calls > 0 /\ "re9" \notin Range(layers) => Re9Done

\* and where a hook is, which is not looked for again.
Hooked == Original(CallSites) \cap hooked = {}

Progress == AtHand /\ DoneSoFar /\ Hooked

Frame ==
  /\ profile \in Profiles
  /\ calls \in Nat /\ rewrites \in Nat
  /\ layers \in Seq(LayerNames)
  /\ image \in [Sites -> Contents]

CompleteInv == Frame /\ (Undisturbed => Progress)

\* The scanner crasher is a matter of the DD2 family.
LEMMA ProfileFacts ==
  ASSUME profile \in Profiles
  PROVE  profile.dd2ScannerCrasher => profile.dd2Family
  BY DEF Profiles, Game, Unsupported

\* But for the game, a step only replaces what is in the image.
LEMMA Replaces ==
  ASSUME Frame, Next
  PROVE  /\ image' \in [Sites -> Contents]
         /\ Undisturbed' =>
              /\ Undisturbed
              /\ \A s \in Sites : image'[s] \in {image[s], "replaced"}
<1>2. ASSUME NEW written, image' = [s \in Sites |-> IF s \in written THEN "replaced" ELSE image[s]]
      PROVE  /\ image' \in [Sites -> Contents]
             /\ \A s \in Sites : image'[s] \in {image[s], "replaced"}
  BY <1>2 DEF Frame, Contents
<1>3. CASE CommitDd2 \/ CommitRe9
  <2>1. Commit /\ UNCHANGED rewrites
    BY <1>3 DEF CommitDd2, CommitRe9
  <2>2. PICK written \in SUBSET DOMAIN found :
          /\ image' = [s \in Sites |-> IF s \in written THEN "replaced" ELSE image[s]]
          /\ clean' => clean
    BY <2>1 DEF Commit
  <2> QED
    BY <1>2, <2>1, <2>2 DEF Undisturbed
<1>4. CASE InstallJobCallsiteGuards
  BY <1>2, <1>4 DEF InstallJobCallsiteGuards, Undisturbed
<1>5. CASE \E l \in {"peHeader", "stackDestroyer"} : CommitOneShot(l)
  <2>1. PICK written \in SUBSET DOMAIN found :
          /\ image' = [s \in Sites |-> IF s \in written THEN "replaced" ELSE image[s]]
          /\ UNCHANGED <<clean, rewrites>>
    BY <1>5 DEF CommitOneShot
  <2> QED
    BY <1>2, <2>1 DEF Undisturbed
<1>6. CASE \E s \in Visible : Rewrite(s)
  <2>1. PICK s \in Visible : Rewrite(s)
    BY <1>6
  <2>2. rewrites' # 0 /\ image' \in [Sites -> Contents]
    BY <2>1 DEF Rewrite, Frame, Contents
  <2> QED
    BY <2>2 DEF Undisturbed
<1>7. CASE UNCHANGED <<image, clean, rewrites>>
  BY <1>7 DEF Frame, Undisturbed
<1>8. CASE InitializeASI \/ DiscoverDd2 \/ DiscoverRe9 \/ AlreadyTerminal \/ DiscoverHeader
           \/ CreateHeaderCopy \/ DiscoverDestroyer \/ DiscoverAgain
           \/ \E w \in {"heartbeat", "dbgUi"} : Initialize(w)
  BY <1>7, <1>8 DEF InitializeASI, DiscoverDd2, DiscoverRe9, AlreadyTerminal, DiscoverHeader,
     CreateHeaderCopy, DiscoverDestroyer, DiscoverAgain, Initialize
<1> QED
  BY <1>3, <1>4, <1>5, <1>6, <1>8 DEF Next

\* What is left of the originals, when a step only replaces.
LEMMA Shrinks ==
  ASSUME Frame, \A s \in Sites : image'[s] \in {image[s], "replaced"}, UNCHANGED profile, UNCHANGED resolves
  PROVE  /\ \A S \in SUBSET Sites : Original(S)' \subseteq Original(S)
         /\ Dd2Done => Dd2Done'
         /\ Re9Done => Re9Done'
<1>1. \A S \in SUBSET Sites : {s \in S : image'[s] = "original"} \subseteq {s \in S : image[s] = "original"}
  OBVIOUS
<1>2. /\ Dd2Constants \subseteq Sites /\ Re9Constants \cup CallSites \subseteq Sites /\ Scanner \in Sites
  BY DEF Sites, FamilySites
<1>3. \A S \in SUBSET Sites : Original(S)' \subseteq Original(S)
  BY <1>1 DEF Original
<1>4. Dd2Done => Dd2Done'
  <2>1. image[Scanner] = "replaced" => image'[Scanner] = "replaced"
    BY <1>2
  <2>2. Original(Dd2Constants)' \subseteq Original(Dd2Constants)
    BY <1>2, <1>3
  <2> QED
    BY <2>1, <2>2 DEF Dd2Done, ScannerWanted
<1>5. Re9Done => Re9Done'
  <2>2. Original(Re9Constants \cup CallSites)' \subseteq Original(Re9Constants \cup CallSites)
    BY <1>2, <1>3
  <2> QED
    BY <2>2 DEF Re9Done
<1> QED
  BY <1>3, <1>4, <1>5

\* A layer that leaves the list was at its head.
LEMMA Finished ==
  ASSUME Frame, layers # <<>>, layers' = Tail(layers) \/ layers' = layers
  PROVE  /\ layers' \in Seq(LayerNames)
         /\ \A l : l \notin Range(layers') => l \notin Range(layers) \/ (l = Head(layers) /\ layers' = Tail(layers))
  BY InTail DEF Frame

\* Every step keeps the types that the lemmas rest on.
LEMMA FrameStep ==
  ASSUME Frame, Next
  PROVE  Frame'
<1>1. image' \in [Sites -> Contents]
  BY Replaces
<1>2. /\ UNCHANGED profile
      /\ calls' \in Nat /\ rewrites' \in Nat
      /\ \/ layers' = Layers
         \/ layers' = layers
         \/ layers # <<>> /\ layers' = Tail(layers)
  BY DEF Next, InitializeASI, DiscoverDd2, CommitDd2, DiscoverRe9, CommitRe9, InstallJobCallsiteGuards,
     AlreadyTerminal, DiscoverHeader, CreateHeaderCopy, DiscoverDestroyer, DiscoverAgain, CommitOneShot,
     Initialize, Rewrite, At, Goto, Done, Terminal, Frame
<1>3. layers' \in Seq(LayerNames)
  BY <1>2, LayersOfProfile, InTail DEF Frame
<1> QED
  BY <1>1, <1>2, <1>3 DEF Frame

\* Steps that neither start a call nor finish a family layer.
LEMMA KeepsDone ==
  ASSUME CompleteInv, Next, Undisturbed', UNCHANGED <<profile, resolves, calls>>,
         \/ layers' = layers
         \/ layers # <<>> /\ layers' = Tail(layers) /\ Head(layers) \notin {"dd2", "re9"}
  PROVE  /\ DoneSoFar' /\ Undisturbed /\ Progress
         /\ \A S \in SUBSET Sites : Original(S)' \subseteq Original(S)
<1>1. /\ Undisturbed /\ Progress /\ Frame
      /\ \A S \in SUBSET Sites : Original(S)' \subseteq Original(S)
      /\ Dd2Done => Dd2Done'
      /\ Re9Done => Re9Done'
  BY Replaces, Shrinks DEF CompleteInv
<1>2. \A l \in {"dd2", "re9"} : l \notin Range(layers') => l \notin Range(layers)
  BY <1>1, Finished
<1> QED
  BY <1>1, <1>2 DEF Progress, DoneSoFar

\* Call sites stay hooked while no original one comes up.
LEMMA KeepsHooked ==
  ASSUME Progress, UNCHANGED hooked, \A S \in SUBSET Sites : Original(S)' \subseteq Original(S)
  PROVE  Hooked'
<1>1. CallSites \in SUBSET Sites
  BY DEF Sites
<1> QED
  BY <1>1 DEF Progress, Hooked

\* A call begins with every layer still to do.
LEMMA BeginProgress ==
  ASSUME CompleteInv, OneShotInv, InitializeASI, Undisturbed'
  PROVE  Progress'
<1>1. /\ step' = "discover" /\ layers' = Layers /\ UNCHANGED <<profile, resolves, image, hooked>>
      /\ Undisturbed /\ Progress /\ profile \in Profiles
  BY DEF InitializeASI, OneShotInv, Candidates, outcome, Undisturbed, CompleteInv, Frame
<1>2. AtHand'
  BY <1>1 DEF AtHand, At
<1>3. DoneSoFar'
  <2>1. "dd2" \notin Range(layers') => Dd2Done'
    BY <1>1, LayersOfProfile, ProfileFacts DEF Dd2Done, ScannerWanted
  <2>2. "re9" \notin Range(layers') => Re9Done'
    BY <1>1, LayersOfProfile DEF Re9Done
  <2> QED
    BY <2>1, <2>2 DEF DoneSoFar
<1>4. Hooked'
  BY <1>1 DEF Progress, Hooked, Original
<1> QED
  BY <1>2, <1>3, <1>4 DEF Progress

\* A discovery puts what is there at hand.
LEMMA DiscoverProgress ==
  ASSUME CompleteInv, Next, DiscoverDd2 \/ DiscoverRe9, Undisturbed'
  PROVE  Progress'
<1>1. DoneSoFar' /\ Hooked'
  BY KeepsDone, KeepsHooked DEF DiscoverDd2, DiscoverRe9, Goto, outcome
<1>2. CASE DiscoverDd2
  <2>1. /\ UNCHANGED <<image, profile, resolves, layers>> /\ Head(layers) = "dd2" /\ step' = "commit"
        /\ found' = Capture(Original(Dd2Constants) \cup (IF ScannerWanted THEN {Scanner} \cup FirstMatch(Crashers) ELSE {}))
    BY <1>2 DEF DiscoverDd2, Goto, At, ScannerWanted
  <2>2. /\ DOMAIN found' = Original(Dd2Constants) \cup (IF ScannerWanted THEN {Scanner} \cup FirstMatch(Crashers) ELSE {})
        /\ \A s \in DOMAIN found' : found'[s] = image[s]
    BY <2>1 DEF Capture
  <2>3. AtHand'
    BY <2>1, <2>2 DEF AtHand, At, Fresh, Original, ScannerWanted
  <2> QED
    BY <1>1, <2>3 DEF Progress
<1>3. CASE DiscoverRe9
  <2>1. /\ UNCHANGED <<image, profile, layers>> /\ Head(layers) = "re9" /\ step' = "commit"
        /\ found' = Capture(Original(Re9Constants) \cup (IF profile.re9SlowPath THEN FirstMatch(Selectors) ELSE {}))
    BY <1>3 DEF DiscoverRe9, Goto, At
  <2>2. /\ DOMAIN found' = Original(Re9Constants) \cup (IF profile.re9SlowPath THEN FirstMatch(Selectors) ELSE {})
        /\ \A s \in DOMAIN found' : found'[s] = image[s]
    BY <2>1 DEF Capture
  <2>3. AtHand'
    BY <2>1, <2>2 DEF AtHand, At, Fresh, Original
  <2> QED
    BY <1>1, <2>3 DEF Progress
<1> QED
  BY <1>2, <1>3

\* A commit in which nothing fails leaves no original among fresh candidates.
LEMMA CommitReplaces ==
  ASSUME Frame, Fresh, Commit, clean', NEW S \in SUBSET Sites, Original(S) \subseteq DOMAIN found
  PROVE  /\ Original(S)' = {}
         /\ \A s \in DOMAIN found \cap Sites : image'[s] = "replaced"
<1> DEFINE due == {s \in DOMAIN found : image[s] = found[s] /\ image[s] # "replaced"}
<1>1. image' = [s \in Sites |-> IF s \in due THEN "replaced" ELSE image[s]]
  BY DEF Commit
<1>2. \A s \in DOMAIN found \cap Sites : image'[s] = "replaced"
  BY <1>1 DEF Fresh
<1>3. \A s \in S : image'[s] # "original"
  BY <1>1, <1>2 DEF Original
<1> QED
  BY <1>2, <1>3 DEF Original

\* What was at hand is replaced.
LEMMA CommitProgress ==
  ASSUME CompleteInv, Next, CommitDd2 \/ CommitRe9, Undisturbed'
  PROVE  Progress'
<1>1. /\ Frame /\ Undisturbed /\ Progress /\ clean' /\ Commit
      /\ UNCHANGED <<profile, resolves, calls, hooked>>
      /\ \A S \in SUBSET Sites : Original(S)' \subseteq Original(S)
      /\ Dd2Done => Dd2Done'
      /\ Re9Done => Re9Done'
  BY Replaces, Shrinks DEF CompleteInv, CommitDd2, CommitRe9, Undisturbed, outcome
<1>2. Hooked'
  BY <1>1, KeepsHooked
<1>3. Dd2Constants \in SUBSET Sites /\ Re9Constants \in SUBSET Sites /\ Scanner \in Sites
  BY DEF Sites, FamilySites
<1>4. CASE CommitDd2
  <2>1. At("dd2", "commit") /\ layers # <<>> /\ Head(layers) = "dd2" /\ layers' = Tail(layers) /\ step' = "discover"
    BY <1>4 DEF CommitDd2, Done, At
  <2>2. /\ Fresh /\ Original(Dd2Constants) \subseteq DOMAIN found
        /\ ScannerWanted => Scanner \in DOMAIN found
    BY <1>1, <2>1 DEF Progress, AtHand
  <2>3. Original(Dd2Constants)' = {} /\ (ScannerWanted => image'[Scanner] = "replaced")
    BY <1>1, <1>3, <2>2, CommitReplaces
  <2>4. Dd2Done'
    BY <1>1, <2>3 DEF Dd2Done, ScannerWanted
  <2>5. "re9" \notin Range(layers') => "re9" \notin Range(layers)
    BY <1>1, <2>1, Finished
  <2>6. DoneSoFar'
    BY <1>1, <2>4, <2>5 DEF Progress, DoneSoFar
  <2>7. AtHand'
    BY <2>1 DEF AtHand, At
  <2> QED
    BY <1>2, <2>6, <2>7 DEF Progress
<1>5. CASE CommitRe9
  <2>1. At("re9", "commit") /\ Head(layers) = "re9" /\ layers' = layers /\ step' = "hooks"
    BY <1>5 DEF CommitRe9, Goto, At
  <2>2. Fresh /\ Original(Re9Constants) \subseteq DOMAIN found
    BY <1>1, <2>1 DEF Progress, AtHand
  <2>3. Original(Re9Constants)' = {}
    BY <1>1, <1>3, <2>2, CommitReplaces
  <2>4. DoneSoFar'
    BY <1>1, <2>1 DEF Progress, DoneSoFar
  <2>5. AtHand'
    BY <2>1, <2>3 DEF AtHand, At
  <2> QED
    BY <1>2, <2>4, <2>5 DEF Progress
<1> QED
  BY <1>4, <1>5

\* The call sites that are there are hooked.
LEMMA HooksProgress ==
  ASSUME CompleteInv, Next, InstallJobCallsiteGuards, Undisturbed'
  PROVE  Progress'
<1>1. /\ Frame /\ Undisturbed /\ Progress
      /\ \A S \in SUBSET Sites : Original(S)' \subseteq Original(S)
      /\ Dd2Done => Dd2Done'
      /\ Re9Done => Re9Done'
  BY Replaces, Shrinks DEF CompleteInv, InstallJobCallsiteGuards
<1>2. /\ At("re9", "hooks") /\ layers # <<>> /\ Head(layers) = "re9" /\ layers' = Tail(layers)
      /\ step' = "discover" /\ UNCHANGED <<profile, resolves, calls>>
      /\ hooked' = hooked \cup Original(CallSites)
      /\ image' = [s \in Sites |-> IF s \in Original(CallSites) THEN "replaced" ELSE image[s]]
  <2>1. PICK failed \in SUBSET (Original(CallSites) \ hooked) :
          LET installed == (Original(CallSites) \ hooked) \ failed
          IN  /\ hooked' = hooked \cup installed
              /\ image' = [s \in Sites |-> IF s \in installed THEN "replaced" ELSE image[s]]
              /\ clean' = (clean /\ failed = {})
    BY DEF InstallJobCallsiteGuards
  <2>2. failed = {} /\ Original(CallSites) \ hooked = Original(CallSites)
    BY <1>1, <2>1 DEF Undisturbed, Progress, Hooked
  <2> QED
    BY <2>1, <2>2 DEF InstallJobCallsiteGuards, At, Done
<1>3. Original(CallSites)' = {}
  <2>1. \A s \in CallSites : s \in Sites
    BY DEF Sites
  <2> QED
    BY <1>2, <2>1 DEF Original
<1>4. Re9Done'
  <2>1. Re9Constants \in SUBSET Sites
    BY DEF Sites, FamilySites
  <2>2. Original(Re9Constants) = {}
    BY <1>1, <1>2 DEF Progress, AtHand
  <2>3. Original(Re9Constants)' = {}
    BY <1>1, <2>1, <2>2
  <2>4. Original(Re9Constants \cup CallSites)' = {}
    BY <1>3, <2>3 DEF Original
  <2> QED
    BY <2>4 DEF Re9Done
<1>5. "dd2" \notin Range(layers') => "dd2" \notin Range(layers)
  BY <1>1, <1>2, Finished
<1>6. DoneSoFar'
  BY <1>1, <1>2, <1>4, <1>5 DEF Progress, DoneSoFar
<1>7. AtHand' /\ Hooked'
  BY <1>2, <1>3 DEF AtHand, At, Hooked
<1> QED
  BY <1>6, <1>7 DEF Progress

\* The other layers disturb nothing the families have done.
LEMMA OneShotProgress ==
  ASSUME CompleteInv, Next, Undisturbed',
         \/ AlreadyTerminal \/ DiscoverHeader \/ CreateHeaderCopy \/ DiscoverDestroyer \/ DiscoverAgain
         \/ \E l \in {"peHeader", "stackDestroyer"} : CommitOneShot(l)
         \/ \E w \in {"heartbeat", "dbgUi"} : Initialize(w)
  PROVE  Progress'
<1>1. /\ UNCHANGED <<profile, resolves, calls, hooked>>
      /\ layers # <<>> /\ Head(layers) \notin {"dd2", "re9"}
      /\ layers' = layers \/ (layers' = Tail(layers) /\ step' = "discover")
  BY DEF AlreadyTerminal, DiscoverHeader, CreateHeaderCopy, DiscoverDestroyer, DiscoverAgain, CommitOneShot,
     Initialize, Terminal, Done, Goto, At, outcome
<1>2. DoneSoFar' /\ Hooked'
  BY <1>1, KeepsDone, KeepsHooked
<1>3. AtHand'
  BY <1>1 DEF AtHand, At
<1> QED
  BY <1>2, <1>3 DEF Progress

\* The invariant of the family layers.
THEOREM CompleteInvariant == Spec => []CompleteInv
<1>1. Init => CompleteInv
  <2> SUFFICES ASSUME Init PROVE CompleteInv
    OBVIOUS
  <2>1. Frame
    BY DEF Init, Frame, Contents
  <2>2. Progress
    BY DEF Init, Progress, AtHand, DoneSoFar, Hooked, At
  <2> QED
    BY <2>1, <2>2 DEF CompleteInv
<1>2. CompleteInv /\ OneShotInv /\ [Next]_vars => CompleteInv'
  <2>1. ASSUME CompleteInv, OneShotInv, Next PROVE CompleteInv'
    <3>1. Frame'
      BY <2>1, FrameStep DEF CompleteInv
    <3>2. ASSUME Undisturbed' PROVE Progress'
      <4>1. ~\E s \in Visible : Rewrite(s)
        <5> SUFFICES ASSUME NEW s \in Visible, Rewrite(s) PROVE FALSE
          OBVIOUS
        <5>1. rewrites' = rewrites + 1 /\ rewrites \in Nat
          BY <2>1 DEF Rewrite, CompleteInv, Frame
        <5> QED
          BY <3>2, <5>1 DEF Undisturbed
      <4> QED
        BY <2>1, <3>2, <4>1, BeginProgress, DiscoverProgress, CommitProgress, HooksProgress, OneShotProgress
        DEF Next
    <3> QED
      BY <3>1, <3>2 DEF CompleteInv
  <2>2. ASSUME CompleteInv, UNCHANGED vars PROVE CompleteInv'
    <3>1. Frame' /\ (Undisturbed' <=> Undisturbed)
      BY <2>2 DEF vars, CompleteInv, Frame, Undisturbed
    <3>2. AtHand => AtHand'
      BY <2>2 DEF vars, AtHand, At, Fresh, Original, ScannerWanted
    <3>3. DoneSoFar => DoneSoFar'
      BY <2>2 DEF vars, DoneSoFar, Dd2Done, Re9Done, ScannerWanted, Original
    <3>4. Hooked => Hooked'
      BY <2>2 DEF vars, Hooked, Original, outcome
    <3> QED
      BY <2>2, <3>1, <3>2, <3>3, <3>4 DEF CompleteInv, Progress
  <2> QED
    BY <2>1, <2>2
<1> QED
  BY <1>1, <1>2, OneShotInvariant, PTL DEF Spec

\* A call of InitializeASI in which nothing fails leaves no site that a family
\* layer has to replace.
THEOREM CompleteHolds == Spec => []Complete
<1>1. CompleteInv => Complete
  <2> SUFFICES ASSUME CompleteInv, calls > 0, layers = <<>>, clean, rewrites = 0
               PROVE  Dd2Done /\ Re9Done
    BY DEF Complete, Dd2Done, Re9Done, ScannerWanted
  <2>1. Progress
    BY DEF CompleteInv, Undisturbed
  <2>2. Range(layers) = {}
    BY DEF Range
  <2> QED
    BY <2>1, <2>2 DEF Progress, DoneSoFar
<1> QED
  BY <1>1, CompleteInvariant, PTL

-----------------------------------------------------------------------------
(* Further calls.                                                          *)

\* The searches that stop at their first match have at most one.
OneOfEach == /\ \A x, y \in Range(Crashers) : x = y
             /\ \A x, y \in Range(Selectors) : x = y

CrashersDone == ScannerWanted => Original(Range(Crashers)) = {}
SelectorsDone == profile.re9SlowPath => Original(Range(Selectors)) = {}
Tried(l) == state[l] # "Uninitialized"

\* After the first call nothing is left to do,
AllDone == /\ Dd2Done /\ Re9Done /\ CrashersDone /\ SelectorsDone
           /\ \A l \in OneShotLayers \cap Range(Layers) : Tried(l)

\* so that no candidate is due.
NothingDue == At("dd2", "commit") \/ At("re9", "commit") =>
                \A s \in DOMAIN found : image[s] = "replaced" \/ image[s] # found[s]

FirstCall ==
  /\ At("dd2", "commit") /\ ScannerWanted => Original(Range(Crashers)) \subseteq DOMAIN found
  /\ At("re9", "commit") /\ profile.re9SlowPath => Original(Range(Selectors)) \subseteq DOMAIN found
  /\ At("re9", "hooks") => SelectorsDone
  /\ calls > 0 /\ "dd2" \notin Range(layers) => CrashersDone
  /\ calls > 0 /\ "re9" \notin Range(layers) => SelectorsDone
  /\ calls > 0 => \A l \in OneShotLayers \cap Range(Layers) : l \notin Range(layers) => Tried(l)

IdempotentInv ==
  /\ Range(layers) \subseteq Range(Layers)
  /\ Undisturbed => FirstCall /\ (calls > 1 => AllDone /\ NothingDue)

\* Where all matches are one, the first is all of them.
LEMMA OneMatch ==
  ASSUME NEW s, s \in Seq(Range(s)), \A x, y \in Range(s) : x = y
  PROVE  FirstMatch(s) = Original(Range(s))
<1>1. DOMAIN s = 1..Len(s) /\ Len(s) \in Nat
  OBVIOUS
<1>2. FirstMatch(s) \subseteq Original(Range(s))
  BY DEF FirstMatch, Original, Range
<1>3. ASSUME NEW x \in Original(Range(s)) PROVE x \in FirstMatch(s)
  <2> DEFINE hits == {i \in DOMAIN s : image[s[i]] = "original"}
  <2>1. PICK n \in DOMAIN s : s[n] = x
    BY <1>3 DEF Original, Range
  <2>2. 1 \in DOMAIN s /\ s[1] = x
    <3>1. 1 \in DOMAIN s
      BY <1>1, <2>1
    <3>2. s[1] \in Range(s) /\ x \in Range(s)
      BY <2>1, <3>1 DEF Range
    <3> QED
      BY <3>1, <3>2
  <2>3. 1 \in hits /\ \A k \in hits : 1 <= k
    BY <1>1, <1>3, <2>2 DEF Original
  <2>4. FirstMatch(s) = {s[i] : i \in {j \in hits : \A k \in hits : j <= k}}
    BY DEF FirstMatch
  <2> HIDE DEF hits
  <2>5. s[1] \in FirstMatch(s)
    BY <2>3, <2>4
  <2> QED
    BY <2>2, <2>5
<1> QED
  BY <1>2, <1>3

\* The sets of the sites that the family layers look for are sites.
LEMMA AreSites ==
  /\ Dd2Constants \in SUBSET Sites /\ Re9Constants \in SUBSET Sites /\ CallSites \in SUBSET Sites
  /\ Range(Crashers) \in SUBSET Sites /\ Range(Selectors) \in SUBSET Sites
  /\ Scanner \in Sites
  BY DEF Sites, FamilySites

\* What every step but the game's keeps.
LEMMA DoneKept ==
  ASSUME Frame, Next, Undisturbed'
  PROVE  /\ Undisturbed /\ UNCHANGED <<profile, resolves>>
         /\ Layers' = Layers
         /\ Dd2Done => Dd2Done'
         /\ Re9Done => Re9Done'
         /\ CrashersDone => CrashersDone'
         /\ SelectorsDone => SelectorsDone'
<1>1. UNCHANGED <<profile, resolves>>
  BY DEF Next, InitializeASI, DiscoverDd2, CommitDd2, DiscoverRe9, CommitRe9, InstallJobCallsiteGuards,
     AlreadyTerminal, DiscoverHeader, CreateHeaderCopy, DiscoverDestroyer, DiscoverAgain, CommitOneShot,
     Initialize, Rewrite
<1>2. Layers' = Layers
  BY <1>1 DEF Layers
<1>3. /\ Undisturbed /\ \A S \in SUBSET Sites : Original(S)' \subseteq Original(S)
      /\ Dd2Done => Dd2Done'
      /\ Re9Done => Re9Done'
  BY <1>1, Replaces, Shrinks
<1>4. /\ Original(Range(Crashers))' \subseteq Original(Range(Crashers))
      /\ Original(Range(Selectors))' \subseteq Original(Range(Selectors))
  BY <1>3, AreSites
<1>5. /\ CrashersDone => CrashersDone'
      /\ SelectorsDone => SelectorsDone'
  BY <1>1, <1>4 DEF CrashersDone, SelectorsDone, ScannerWanted
<1> QED
  BY <1>1, <1>2, <1>3, <1>5

\* The one-shot layers never go back, and one that is finished was tried.
LEMMA TriedKept ==
  ASSUME OneShotInv, Frame, Next, UNCHANGED profile
  PROVE  /\ \A l \in OneShotLayers : Tried(l) => Tried(l)'
         /\ \A l \in OneShotLayers : layers # <<>> /\ Head(layers) = l /\ layers' # layers => Tried(l)'
<1>1. ASSUME NEW l \in OneShotLayers, NEW s, layers # <<>>, Head(layers) = l, Terminal(l, s), s # "Uninitialized"
      PROVE  /\ \A k \in OneShotLayers : Tried(k) => Tried(k)'
             /\ Tried(l)'
  BY <1>1 DEF Terminal, Tried, OneShotInv, Typed
<1>2. CASE \E l \in OneShotLayers, s \in {"NotFound", "Ambiguous", "Failed", "Patched"} :
             layers # <<>> /\ Head(layers) = l /\ Terminal(l, s)
  BY <1>1, <1>2
<1>3. CASE UNCHANGED state /\ (layers # <<>> /\ Head(layers) \in OneShotLayers =>
             layers' = layers \/ Tried(Head(layers)))
  BY <1>3 DEF Tried
<1>4. CASE InitializeASI
  BY <1>3, <1>4 DEF InitializeASI, outcome
<1>5. CASE DiscoverDd2 \/ CommitDd2 \/ DiscoverRe9 \/ CommitRe9 \/ InstallJobCallsiteGuards
  BY <1>3, <1>5 DEF DiscoverDd2, CommitDd2, DiscoverRe9, CommitRe9, InstallJobCallsiteGuards, At, outcome,
     OneShotLayers
<1>6. CASE AlreadyTerminal
  BY <1>3, <1>6 DEF AlreadyTerminal, Tried, outcome
<1>7. CASE DiscoverHeader \/ CreateHeaderCopy
  <2>1. layers # <<>> /\ Head(layers) = "peHeader"
    BY <1>7 DEF DiscoverHeader, CreateHeaderCopy, At
  <2>2. \/ UNCHANGED <<state, layers>>
        \/ \E s \in {"NotFound", "Failed"} : Terminal("peHeader", s)
    BY <1>7 DEF DiscoverHeader, CreateHeaderCopy, Goto
  <2> QED
    BY <1>2, <1>3, <2>1, <2>2 DEF OneShotLayers
<1>8. CASE DiscoverDestroyer \/ DiscoverAgain
  <2>1. layers # <<>> /\ Head(layers) = "stackDestroyer"
    BY <1>8 DEF DiscoverDestroyer, DiscoverAgain, At
  <2>2. \/ UNCHANGED <<state, layers>>
        \/ \E s \in {"NotFound", "Ambiguous", "Failed"} : Terminal("stackDestroyer", s)
    BY <1>8 DEF DiscoverDestroyer, DiscoverAgain, Goto
  <2> QED
    BY <1>2, <1>3, <2>1, <2>2 DEF OneShotLayers
<1>9. CASE \E l \in {"peHeader", "stackDestroyer"} : CommitOneShot(l)
  <2>1. PICK l \in {"peHeader", "stackDestroyer"} : CommitOneShot(l)
    BY <1>9
  <2>2. layers # <<>> /\ Head(layers) = l /\ \E s \in {"Patched", "Failed"} : Terminal(l, s)
    BY <2>1 DEF CommitOneShot, At
  <2> QED
    BY <1>2, <2>2 DEF OneShotLayers
<1>10. CASE \E w \in {"heartbeat", "dbgUi"} : Initialize(w)
  BY <1>3, <1>10 DEF Initialize, At, OneShotLayers
<1>11. CASE \E s \in Visible : Rewrite(s)
  BY <1>3, <1>11 DEF Rewrite, outcome
<1> QED
  BY <1>4, <1>5, <1>6, <1>7, <1>8, <1>9, <1>10, <1>11 DEF Next

\* What a step does to the layers and the calls.
LEMMA LayerStep ==
  ASSUME Frame, OneShotInv, Next
  PROVE  \/ InitializeASI /\ layers = <<>> /\ calls' = calls + 1 /\ layers' = Layers /\ step' = "discover"
         \/ calls' = calls /\ layers' = layers
         \/ calls' = calls /\ layers # <<>> /\ layers' = Tail(layers) /\ step' = "discover"
  BY DEF Next, InitializeASI, DiscoverDd2, CommitDd2, DiscoverRe9, CommitRe9, InstallJobCallsiteGuards,
     AlreadyTerminal, DiscoverHeader, CreateHeaderCopy, DiscoverDestroyer, DiscoverAgain, CommitOneShot,
     Initialize, Rewrite, At, Goto, Done, Terminal, OneShotInv, Candidates

\* What is left of a call belongs to its profile.
LEMMA WithinLayers ==
  ASSUME Frame, OneShotInv, Next, Range(layers) \subseteq Range(Layers), UNCHANGED profile
  PROVE  Range(layers') \subseteq Range(Layers')
<1>1. Layers' = Layers
  BY DEF Layers
<1>2. layers # <<>> => Range(Tail(layers)) \subseteq Range(layers)
  BY InTail DEF Frame
<1> QED
  BY <1>1, <1>2, LayerStep

\* When a call ends, all is done.
LEMMA EndOfCall ==
  ASSUME CompleteInv, IdempotentInv, Undisturbed, calls > 0, layers = <<>>
  PROVE  AllDone
<1>1. Range(layers) = {}
  BY DEF Range
<1>2. DoneSoFar /\ FirstCall
  BY DEF CompleteInv, Progress, IdempotentInv
<1> QED
  BY <1>1, <1>2 DEF AllDone, DoneSoFar, FirstCall

\* What the first call finished stays finished.
LEMMA AllDoneKept ==
  ASSUME CompleteInv, OneShotInv, IdempotentInv, Next, Undisturbed', calls' > 1
  PROVE  AllDone'
<1>1. /\ Frame /\ Undisturbed /\ UNCHANGED <<profile, resolves>> /\ Layers' = Layers
      /\ Dd2Done => Dd2Done'
      /\ Re9Done => Re9Done'
      /\ CrashersDone => CrashersDone'
      /\ SelectorsDone => SelectorsDone'
  BY DoneKept DEF CompleteInv
<1>2. \A l \in OneShotLayers : Tried(l) => Tried(l)'
  BY <1>1, TriedKept
<1>3. AllDone
  <2>1. CASE calls > 1
    BY <1>1, <2>1 DEF IdempotentInv
  <2>2. CASE ~(calls > 1)
    <3>1. calls \in Nat /\ calls > 0 /\ layers = <<>>
      BY <1>1, <2>2, LayerStep DEF Frame
    <3> QED
      BY <1>1, <3>1, EndOfCall
  <2> QED
    BY <2>1, <2>2
<1> QED
  BY <1>1, <1>2, <1>3 DEF AllDone

\* What a family layer finds when all is done is not due.
LEMMA NothingDueKept ==
  ASSUME OneOfEach, CompleteInv, OneShotInv, IdempotentInv, Next, Undisturbed', calls' > 1
  PROVE  NothingDue'
<1>1. /\ Frame /\ Undisturbed /\ UNCHANGED <<profile, resolves>> /\ AllDone'
  BY DoneKept, AllDoneKept DEF CompleteInv
<1>2. CASE DiscoverDd2
  <2>1. /\ At("dd2", "discover") /\ UNCHANGED <<image, calls>>
        /\ found' = Capture(Original(Dd2Constants) \cup (IF ScannerWanted THEN {Scanner} \cup FirstMatch(Crashers) ELSE {}))
    BY <1>2 DEF DiscoverDd2, ScannerWanted
  <2>2. AllDone /\ profile.dd2Family
    <3>1. AllDone
      BY <1>1, <2>1 DEF IdempotentInv
    <3>2. "dd2" \in Range(layers)
      BY <1>1, <2>1, InTail DEF At, Frame
    <3> QED
      BY <3>1, <3>2, LayersOfProfile DEF IdempotentInv
  <2>3. Original(Dd2Constants) = {} /\ (ScannerWanted => FirstMatch(Crashers) = {} /\ image[Scanner] = "replaced")
    <3>1. FirstMatch(Crashers) = Original(Range(Crashers))
      BY OneMatch, StartupAssumption DEF OneOfEach
    <3> QED
      BY <2>2, <3>1 DEF AllDone, Dd2Done, CrashersDone
  <2>4. \A s \in DOMAIN found' : image[s] = "replaced"
    BY <2>1, <2>3 DEF Capture
  <2> QED
    BY <2>1, <2>4 DEF NothingDue
<1>3. CASE DiscoverRe9
  <2>1. /\ At("re9", "discover") /\ UNCHANGED <<image, calls>>
        /\ found' = Capture(Original(Re9Constants) \cup (IF profile.re9SlowPath THEN FirstMatch(Selectors) ELSE {}))
    BY <1>3 DEF DiscoverRe9
  <2>2. AllDone /\ profile.re9Family
    <3>1. AllDone
      BY <1>1, <2>1 DEF IdempotentInv
    <3>2. "re9" \in Range(layers)
      BY <1>1, <2>1, InTail DEF At, Frame
    <3> QED
      BY <3>1, <3>2, LayersOfProfile DEF IdempotentInv
  <2>3. Original(Re9Constants) = {} /\ (profile.re9SlowPath => FirstMatch(Selectors) = {})
    <3>1. FirstMatch(Selectors) = Original(Range(Selectors))
      BY OneMatch, StartupAssumption DEF OneOfEach
    <3>2. Original(Re9Constants) \subseteq Original(Re9Constants \cup CallSites)
      BY DEF Original
    <3> QED
      BY <2>2, <3>1, <3>2 DEF AllDone, Re9Done, SelectorsDone
  <2>4. DOMAIN found' = {}
    BY <2>1, <2>3 DEF Capture
  <2> QED
    BY <2>4 DEF NothingDue
<1>4. CASE ~DiscoverDd2 /\ ~DiscoverRe9
  <2>1. At("dd2", "commit")' \/ At("re9", "commit")' =>
          UNCHANGED <<calls, layers, step, found, image>> \/ \E s \in Visible : Rewrite(s)
    BY <1>4 DEF Next, InitializeASI, CommitDd2, CommitRe9, InstallJobCallsiteGuards,
       AlreadyTerminal, DiscoverHeader, CreateHeaderCopy, DiscoverDestroyer, DiscoverAgain, CommitOneShot,
       Initialize, At, Goto, Done, Terminal, OneShotInv, Candidates
  <2>2. ~\E s \in Visible : Rewrite(s)
    <3> SUFFICES ASSUME NEW s \in Visible, Rewrite(s) PROVE FALSE
      OBVIOUS
    <3>1. rewrites' = rewrites + 1 /\ rewrites \in Nat
      BY <1>1 DEF Rewrite, Frame
    <3> QED
      BY <3>1 DEF Undisturbed
  <2>3. CASE UNCHANGED <<calls, layers, step, found, image>>
    <3>1. NothingDue
      BY <1>1, <2>3 DEF IdempotentInv
    <3> QED
      BY <2>3, <3>1 DEF NothingDue, At
  <2>4. CASE ~(At("dd2", "commit")' \/ At("re9", "commit")')
    BY <2>4 DEF NothingDue
  <2> QED
    BY <2>1, <2>2, <2>3, <2>4
<1> QED
  BY <1>2, <1>3, <1>4

\* The first call's candidates, and what it has done.
LEMMA FirstCallKept ==
  ASSUME OneOfEach, CompleteInv, OneShotInv, IdempotentInv, Next, Undisturbed'
  PROVE  FirstCall'
<1>1. /\ Frame /\ Undisturbed /\ UNCHANGED <<profile, resolves>> /\ Layers' = Layers
      /\ CrashersDone => CrashersDone'
      /\ SelectorsDone => SelectorsDone'
      /\ FirstCall /\ Progress
  BY DoneKept DEF CompleteInv, IdempotentInv
<1>2. \A l \in OneShotLayers : Tried(l) => Tried(l)'
  BY <1>1, TriedKept
<1>3. FirstMatch(Crashers) = Original(Range(Crashers)) /\ FirstMatch(Selectors) = Original(Range(Selectors))
  BY OneMatch, StartupAssumption DEF OneOfEach
<1>4. calls \in Nat
  BY <1>1 DEF Frame
<1>5. \A l \in OneShotLayers \cap Range(Layers) : calls' > 0 /\ l \notin Range(layers') => Tried(l)'
  <2> SUFFICES ASSUME NEW l \in OneShotLayers \cap Range(Layers), calls' > 0, l \notin Range(layers')
               PROVE  Tried(l)'
    OBVIOUS
  <2>1. CASE InitializeASI
    BY <2>1 DEF InitializeASI
  <2>2. CASE calls' = calls /\ layers' = layers
    BY <1>1, <1>2, <2>2 DEF FirstCall
  <2>3. CASE calls' = calls /\ layers # <<>> /\ layers' = Tail(layers)
    <3>1. l \notin Range(layers) \/ l = Head(layers)
      BY <1>1, <2>3, Finished
    <3>2. CASE l \notin Range(layers)
      BY <1>1, <1>2, <2>3, <3>2 DEF FirstCall
    <3>3. CASE l = Head(layers) /\ l \in Range(layers)
      BY <1>1, <2>3, <3>3, TriedKept
    <3> QED
      BY <3>1, <3>2, <3>3
  <2> QED
    BY <1>1, <2>1, <2>2, <2>3, LayerStep
<1>6. ASSUME \/ UNCHANGED <<layers, calls>>
             \/ /\ UNCHANGED calls /\ layers # <<>> /\ layers' = Tail(layers)
                /\ Head(layers) \notin {"dd2", "re9"}
      PROVE  /\ calls' > 0 /\ "dd2" \notin Range(layers') => CrashersDone'
             /\ calls' > 0 /\ "re9" \notin Range(layers') => SelectorsDone'
  <2>1. \A l \in {"dd2", "re9"} : l \notin Range(layers') => l \notin Range(layers)
    BY <1>1, <1>6, Finished
  <2> QED
    BY <1>1, <1>6, <2>1 DEF FirstCall
<1>7. CASE InitializeASI
  <2>1. step' = "discover" /\ layers' = Layers /\ layers = <<>>
    BY <1>1, <1>7 DEF InitializeASI, OneShotInv, Candidates
  <2>2. calls > 0 => AllDone
    BY <1>1, <2>1, EndOfCall
  <2>3. "dd2" \notin Range(Layers) => ~profile.dd2ScannerCrasher
    BY <1>1, LayersOfProfile, ProfileFacts DEF Frame
  <2>4. "re9" \notin Range(Layers) => ~profile.re9SlowPath
    BY <1>1, LayersOfProfile DEF Frame, Profiles, Game, Unsupported
  <2>5. /\ "dd2" \notin Range(layers') => CrashersDone'
        /\ "re9" \notin Range(layers') => SelectorsDone'
    BY <1>1, <2>1, <2>3, <2>4 DEF CrashersDone, SelectorsDone, ScannerWanted
  <2> QED
    BY <1>1, <1>5, <2>1, <2>5 DEF FirstCall, At
<1>8. CASE DiscoverDd2
  <2>1. /\ UNCHANGED <<image, layers, calls>> /\ Head(layers) = "dd2" /\ step' = "commit"
        /\ found' = Capture(Original(Dd2Constants) \cup (IF ScannerWanted THEN {Scanner} \cup FirstMatch(Crashers) ELSE {}))
    BY <1>8 DEF DiscoverDd2, Goto, At, ScannerWanted
  <2>2. ScannerWanted' => Original(Range(Crashers))' \subseteq DOMAIN found'
    BY <1>1, <1>3, <2>1 DEF Capture, Original, ScannerWanted
  <2> QED
    BY <1>1, <1>5, <1>6, <2>1, <2>2 DEF FirstCall, At
<1>9. CASE DiscoverRe9
  <2>1. /\ UNCHANGED <<image, layers, calls>> /\ Head(layers) = "re9" /\ step' = "commit"
        /\ found' = Capture(Original(Re9Constants) \cup (IF profile.re9SlowPath THEN FirstMatch(Selectors) ELSE {}))
    BY <1>9 DEF DiscoverRe9, Goto, At
  <2>2. profile.re9SlowPath' => Original(Range(Selectors))' \subseteq DOMAIN found'
    BY <1>1, <1>3, <2>1 DEF Capture, Original
  <2> QED
    BY <1>1, <1>5, <1>6, <2>1, <2>2 DEF FirstCall, At
<1>10. CASE CommitDd2
  <2>1. /\ At("dd2", "commit") /\ layers # <<>> /\ Head(layers) = "dd2" /\ layers' = Tail(layers)
        /\ step' = "discover" /\ Commit /\ UNCHANGED calls /\ clean'
    BY <1>10 DEF CommitDd2, Done, At, Undisturbed
  <2>2. Fresh /\ (ScannerWanted => Original(Range(Crashers)) \subseteq DOMAIN found)
    BY <1>1, <2>1 DEF Progress, AtHand, FirstCall
  <2>3. CrashersDone'
    BY <1>1, <2>1, <2>2, AreSites, CommitReplaces DEF CrashersDone, ScannerWanted
  <2>4. "re9" \notin Range(layers') => "re9" \notin Range(layers)
    BY <1>1, <2>1, Finished
  <2>5. calls' > 0 /\ "re9" \notin Range(layers') => SelectorsDone'
    BY <1>1, <2>1, <2>4 DEF FirstCall
  <2> QED
    BY <1>1, <1>5, <2>1, <2>3, <2>5 DEF FirstCall, At
<1>11. CASE CommitRe9
  <2>1. /\ At("re9", "commit") /\ Head(layers) = "re9" /\ layers' = layers
        /\ step' = "hooks" /\ Commit /\ UNCHANGED calls /\ clean'
    BY <1>11 DEF CommitRe9, Goto, At, Undisturbed
  <2>2. Fresh /\ (profile.re9SlowPath => Original(Range(Selectors)) \subseteq DOMAIN found)
    BY <1>1, <2>1 DEF Progress, AtHand, FirstCall
  <2>3. SelectorsDone'
    BY <1>1, <2>1, <2>2, AreSites, CommitReplaces DEF SelectorsDone
  <2> QED
    BY <1>1, <1>5, <1>6, <2>1, <2>3 DEF FirstCall, At
<1>12. CASE InstallJobCallsiteGuards
  <2>1. /\ At("re9", "hooks") /\ layers # <<>> /\ Head(layers) = "re9" /\ layers' = Tail(layers)
        /\ step' = "discover" /\ UNCHANGED calls
    BY <1>12 DEF InstallJobCallsiteGuards, Done, At
  <2>2. SelectorsDone'
    BY <1>1, <2>1 DEF FirstCall
  <2>3. "dd2" \notin Range(layers') => "dd2" \notin Range(layers)
    BY <1>1, <2>1, Finished
  <2>4. calls' > 0 /\ "dd2" \notin Range(layers') => CrashersDone'
    BY <1>1, <2>1, <2>3 DEF FirstCall
  <2> QED
    BY <1>1, <1>5, <2>1, <2>2, <2>4 DEF FirstCall, At
<1>13. CASE \/ AlreadyTerminal \/ DiscoverHeader \/ CreateHeaderCopy \/ DiscoverDestroyer \/ DiscoverAgain
            \/ \E l \in {"peHeader", "stackDestroyer"} : CommitOneShot(l)
            \/ \E w \in {"heartbeat", "dbgUi"} : Initialize(w)
  <2>1. /\ UNCHANGED calls
        /\ layers # <<>> /\ Head(layers) \notin {"dd2", "re9"}
        /\ layers' = layers \/ (layers' = Tail(layers) /\ step' = "discover")
    BY <1>13 DEF AlreadyTerminal, DiscoverHeader, CreateHeaderCopy, DiscoverDestroyer, DiscoverAgain, CommitOneShot,
       Initialize, Terminal, Done, Goto, At
  <2>2. /\ calls' > 0 /\ "dd2" \notin Range(layers') => CrashersDone'
        /\ calls' > 0 /\ "re9" \notin Range(layers') => SelectorsDone'
    BY <1>6, <2>1
  <2> QED
    BY <1>1, <1>5, <2>1, <2>2 DEF FirstCall, At
<1>14. ~\E s \in Visible : Rewrite(s)
  <2> SUFFICES ASSUME NEW s \in Visible, Rewrite(s) PROVE FALSE
    OBVIOUS
  <2>1. rewrites' = rewrites + 1 /\ rewrites \in Nat
    BY <1>1 DEF Rewrite, Frame
  <2> QED
    BY <2>1 DEF Undisturbed
<1> QED
  BY <1>7, <1>8, <1>9, <1>10, <1>11, <1>12, <1>13, <1>14 DEF Next

\* The invariant of the further calls.
THEOREM IdempotentInvariant ==
  ASSUME OneOfEach
  PROVE  Spec => []IdempotentInv
<1>1. Init => IdempotentInv
  BY DEF Init, IdempotentInv, FirstCall, At, Range
<1>2. CompleteInv /\ OneShotInv /\ IdempotentInv /\ [Next]_vars => IdempotentInv'
  <2>1. ASSUME CompleteInv, OneShotInv, IdempotentInv, Next PROVE IdempotentInv'
    <3>1. UNCHANGED profile
      BY <2>1 DEF Next, InitializeASI, DiscoverDd2, CommitDd2, DiscoverRe9, CommitRe9, InstallJobCallsiteGuards,
         AlreadyTerminal, DiscoverHeader, CreateHeaderCopy, DiscoverDestroyer, DiscoverAgain, CommitOneShot,
         Initialize, Rewrite
    <3>2. Range(layers') \subseteq Range(Layers')
      BY <2>1, <3>1, WithinLayers DEF CompleteInv, IdempotentInv
    <3>3. Undisturbed' => FirstCall' /\ (calls' > 1 => AllDone' /\ NothingDue')
      BY <2>1, FirstCallKept, AllDoneKept, NothingDueKept
    <3> QED
      BY <3>2, <3>3 DEF IdempotentInv
  <2>2. ASSUME IdempotentInv, UNCHANGED vars PROVE IdempotentInv'
    <3> USE <2>2 DEF vars, outcome
    <3>1. Layers' = Layers /\ (Undisturbed' <=> Undisturbed) /\ (\A S : Original(S)' = Original(S))
      BY DEF Layers, Undisturbed, Original
    <3>2. \A l, t : At(l, t)' = At(l, t)
      BY DEF At
    <3>3. /\ CrashersDone' = CrashersDone /\ SelectorsDone' = SelectorsDone
          /\ Dd2Done' = Dd2Done /\ Re9Done' = Re9Done /\ \A l : Tried(l)' = Tried(l)
      BY DEF CrashersDone, SelectorsDone, Dd2Done, Re9Done, Tried, ScannerWanted, Original
    <3>4. FirstCall => FirstCall'
      BY <3>1, <3>2, <3>3 DEF FirstCall, ScannerWanted, Original
    <3>5. (AllDone => AllDone') /\ (NothingDue => NothingDue')
      BY <3>1, <3>2, <3>3 DEF AllDone, NothingDue
    <3> QED
      BY <3>1, <3>4, <3>5 DEF IdempotentInv
  <2> QED
    BY <2>1, <2>2
<1> QED
  BY <1>1, <1>2, CompleteInvariant, OneShotInvariant, PTL DEF Spec

\* dllmain.cpp: InitializeASI is safe to call more than once.  When no search
\* that stops at its first match has a second one, a further call writes
\* nothing, unless something failed or the game put something back.
THEOREM IdempotentCallsHolds ==
  ASSUME OneOfEach
  PROVE  Spec => IdempotentCalls
<1> DEFINE Quiet == calls > 1 /\ clean /\ clean' /\ rewrites' = 0 => image' = image /\ writes' = writes
<1>1. CompleteInv /\ OneShotInv /\ IdempotentInv /\ [Next]_vars => Quiet \/ UNCHANGED vars
  <2> SUFFICES ASSUME CompleteInv, OneShotInv, IdempotentInv, Next, calls > 1, clean, clean', rewrites' = 0
               PROVE  image' = image /\ writes' = writes
    OBVIOUS
  <2>1. Undisturbed' /\ Undisturbed /\ Frame
    BY DoneKept DEF Undisturbed, CompleteInv
  <2>2. AllDone /\ NothingDue /\ Range(layers) \subseteq Range(Layers)
    BY <2>1 DEF IdempotentInv
  <2>3. image \in [Sites -> Contents] /\ writes \in [Sites -> Nat]
    BY <2>1 DEF Frame, OneShotInv, Typed
  <2>4. ASSUME layers # <<>>, NEW l, Head(layers) = l
        PROVE  l \in Range(Layers)
    BY <2>1, <2>2, <2>4, InTail DEF Frame
  <2>5. CASE CommitDd2 \/ CommitRe9
    <3>1. Commit /\ (At("dd2", "commit") \/ At("re9", "commit"))
      BY <2>5 DEF CommitDd2, CommitRe9
    <3>2. PICK written \in SUBSET {s \in DOMAIN found : image[s] = found[s] /\ image[s] # "replaced"} :
            /\ image' = [s \in Sites |-> IF s \in written THEN "replaced" ELSE image[s]]
            /\ writes' = [s \in Sites |-> IF s \in written THEN writes[s] + 1 ELSE writes[s]]
      BY <3>1 DEF Commit
    <3>3. written = {}
      BY <2>2, <3>1, <3>2 DEF NothingDue
    <3> QED
      BY <2>3, <3>2, <3>3
  <2>6. CASE InstallJobCallsiteGuards
    <3>1. profile.re9Family
      BY <2>4, <2>6, LayersOfProfile DEF InstallJobCallsiteGuards, At
    <3>2. Original(CallSites) = {}
      <4>1. Original(CallSites) \subseteq Original(Re9Constants \cup CallSites)
        BY DEF Original
      <4> QED
        BY <2>2, <3>1, <4>1 DEF AllDone, Re9Done
    <3>3. image' = [s \in Sites |-> image[s]] /\ UNCHANGED writes
      BY <2>6, <3>2 DEF InstallJobCallsiteGuards
    <3> QED
      BY <2>3, <3>3
  <2>7. CASE \E l \in {"peHeader", "stackDestroyer"} : CommitOneShot(l)
    <3>1. PICK l \in OneShotLayers : CommitOneShot(l)
      BY <2>7 DEF OneShotLayers
    <3>2. layers # <<>> /\ Head(layers) = l /\ step = "commit"
      BY <3>1 DEF CommitOneShot, At
    <3>3. state[l] = "Uninitialized" /\ l \in Range(Layers)
      BY <2>4, <3>2 DEF OneShotInv, Begun
    <3> QED
      BY <2>2, <3>3 DEF AllDone, Tried
  <2>8. CASE \E s \in Visible : Rewrite(s)
    <3> SUFFICES ASSUME NEW s \in Visible, Rewrite(s) PROVE FALSE
      BY <2>8
    <3>1. rewrites' = rewrites + 1 /\ rewrites \in Nat
      BY <2>1 DEF Rewrite, Frame
    <3> QED
      BY <3>1
  <2>9. CASE \/ InitializeASI \/ DiscoverDd2 \/ DiscoverRe9 \/ AlreadyTerminal \/ DiscoverHeader
             \/ CreateHeaderCopy \/ DiscoverDestroyer \/ DiscoverAgain
             \/ \E w \in {"heartbeat", "dbgUi"} : Initialize(w)
    BY <2>9 DEF InitializeASI, DiscoverDd2, DiscoverRe9, AlreadyTerminal, DiscoverHeader, CreateHeaderCopy,
       DiscoverDestroyer, DiscoverAgain, Initialize
  <2> QED
    BY <2>5, <2>6, <2>7, <2>8, <2>9 DEF Next
<1>2. [](CompleteInv /\ OneShotInv /\ IdempotentInv) /\ [][Next]_vars => [][Quiet]_vars
  BY <1>1, PTL
<1> QED
  BY <1>2, CompleteInvariant, OneShotInvariant, IdempotentInvariant, PTL DEF Spec, IdempotentCalls

-----------------------------------------------------------------------------
(* Types.                                                                  *)

\* What is left of the layers of a call.
Suffixes == {<<>>} \cup {SubSeq(Layers, i, Len(Layers)) : i \in 1..Len(Layers)}

CandidateTypes ==
  /\ DOMAIN found \subseteq Sites
  /\ \A s \in DOMAIN found : found[s] \in Contents
  /\ DOMAIN found # {} => layers # <<>> /\ step \in {"copy", "again", "commit"}

CallTypes ==
  /\ profile \in Profiles /\ resolves \in BOOLEAN /\ clean \in BOOLEAN
  /\ layers \in Suffixes
  /\ step \in {"discover", "copy", "again", "commit", "hooks"}
  /\ hooked \subseteq CallSites
  /\ calls \in 0..MaxCalls /\ rewrites \in 0..MaxRewrites

\* What has been done, a call has done.
DoneByCalls ==
  layers # <<>> \/ copies > 0 \/ (\E w \in Workers : workers[w] > 0) => calls > 0

TypesInv == CallTypes /\ CandidateTypes /\ DoneByCalls

\* The layers of a call, and what is left behind the first.
LEMMA SuffixSteps ==
  ASSUME layers \in Suffixes, layers # <<>>
  PROVE  Layers \in Suffixes /\ Tail(layers) \in Suffixes
<1> DEFINE L == Layers
           n == Len(L)
<1>1. L \in Seq(LayerNames) /\ n \in Nat
  BY LayersOfProfile
<1> HIDE DEF L
<1>2. PICK i \in 1..n : layers = SubSeq(L, i, n)
  BY DEF Suffixes, L
<1>3. L = SubSeq(L, 1, n) /\ 1 \in 1..n
  BY <1>1, <1>2
<1>4. CASE i = n
  <2>1. Tail(layers) = <<>>
    BY <1>1, <1>2, <1>4
  <2> QED
    BY <1>3, <2>1 DEF Suffixes, L
<1>5. CASE i < n
  <2>1. Tail(layers) = SubSeq(L, i + 1, n) /\ i + 1 \in 1..n
    BY <1>1, <1>2, <1>5
  <2> QED
    BY <1>3, <2>1 DEF Suffixes, L
<1> QED
  BY <1>1, <1>2, <1>4, <1>5

\* A call begins with all the layers of the game.
LEMMA AllLayers == Layers \in Suffixes
<1> DEFINE L == Layers
           n == Len(L)
<1>1. L \in Seq(LayerNames) /\ n \in Nat
  BY LayersOfProfile
<1> HIDE DEF L
<1>2. L = <<>> \/ (L = SubSeq(L, 1, n) /\ 1 \in 1..n)
  BY <1>1
<1> QED
  BY <1>2 DEF Suffixes, L

\* Every step keeps the types of what the calls go by.
LEMMA CallTypesStep ==
  ASSUME Frame, CallTypes, [Next]_vars
  PROVE  CallTypes'
<1>1. /\ UNCHANGED <<profile, resolves>>
      /\ clean' \in BOOLEAN
      /\ step' \in {"discover", "copy", "again", "commit", "hooks"}
      /\ hooked' \subseteq CallSites
  BY DEF CallTypes, Next, vars, outcome, InitializeASI, DiscoverDd2, CommitDd2, DiscoverRe9, CommitRe9,
     InstallJobCallsiteGuards, AlreadyTerminal, DiscoverHeader, CreateHeaderCopy, DiscoverDestroyer,
     DiscoverAgain, CommitOneShot, Initialize, Rewrite, Goto, Done, Terminal, Commit, Original
<1>2. \/ layers' = layers \/ layers' = Layers
      \/ layers # <<>> /\ layers' = Tail(layers)
  BY DEF Next, vars, InitializeASI, DiscoverDd2, CommitDd2, DiscoverRe9, CommitRe9,
     InstallJobCallsiteGuards, AlreadyTerminal, DiscoverHeader, CreateHeaderCopy, DiscoverDestroyer,
     DiscoverAgain, CommitOneShot, Initialize, Rewrite, At, Goto, Done, Terminal
<1>3. layers' \in Suffixes
  BY <1>2, AllLayers, SuffixSteps DEF CallTypes
<1>4. Suffixes' = Suffixes
  BY <1>1 DEF Suffixes, Layers
<1>5. /\ calls' = calls \/ (calls' = calls + 1 /\ calls < MaxCalls)
      /\ rewrites' = rewrites \/ (rewrites' = rewrites + 1 /\ rewrites < MaxRewrites)
  BY DEF Next, vars, InitializeASI, DiscoverDd2, CommitDd2, DiscoverRe9, CommitRe9,
     InstallJobCallsiteGuards, AlreadyTerminal, DiscoverHeader, CreateHeaderCopy, DiscoverDestroyer,
     DiscoverAgain, CommitOneShot, Initialize, Rewrite
<1>6. calls' \in 0..MaxCalls /\ rewrites' \in 0..MaxRewrites
  BY <1>5, StartupAssumption DEF CallTypes
<1> QED
  BY <1>1, <1>3, <1>4, <1>6 DEF CallTypes

\* A capture is of the image, at sites of it.
LEMMA CaptureTypes ==
  ASSUME Frame, NEW S, S \subseteq Sites, found' = Capture(S)
  PROVE  DOMAIN found' \subseteq Sites /\ \A s \in DOMAIN found' : found'[s] \in Contents
BY DEF Capture, Frame

\* What a search that stops at its first match finds is a site, and original.
LEMMA FirstMatchOriginal ==
  ASSUME NEW s, s \in Seq(Range(s)), Range(s) \subseteq Sites
  PROVE  FirstMatch(s) \subseteq Sites /\ \A x \in FirstMatch(s) : image[x] = "original"
<1>1. FirstMatch(s) \subseteq Range(s)
  BY FirstMatchIsOne
<1> QED
  BY <1>1 DEF FirstMatch

\* What discovery captures.
LEMMA Discoveries ==
  ASSUME DiscoverDd2 \/ DiscoverRe9 \/ DiscoverHeader \/ DiscoverDestroyer
  PROVE  \/ found' = <<>> \/ UNCHANGED found
         \/ \E S \in SUBSET Sites :
              /\ found' = Capture(S)
              /\ \A s \in S : s = Scanner \/ image[s] = "original"
              /\ layers # <<>> /\ layers' = layers /\ step' \in {"copy", "again", "commit"}
<1>1. /\ Dd2Constants \subseteq Sites /\ Re9Constants \subseteq Sites /\ Destroyers \subseteq Sites
      /\ Scanner \in Sites
      /\ Range(Crashers) \subseteq Sites /\ Range(Selectors) \subseteq Sites /\ Range(Headers) \subseteq Sites
  BY DEF Sites, FamilySites
<1>2. ASSUME NEW s \in {Crashers, Selectors, Headers}
      PROVE  FirstMatch(s) \subseteq Sites /\ \A x \in FirstMatch(s) : image[x] = "original"
  BY <1>1, FirstMatchOriginal, StartupAssumption
<1>3. \A S \in SUBSET Sites : Original(S) \subseteq Sites /\ \A x \in Original(S) : image[x] = "original"
  BY DEF Original
<1>4. CASE DiscoverDd2
  <2> DEFINE S == Original(Dd2Constants) \cup (IF profile.dd2ScannerCrasher /\ resolves
                                               THEN {Scanner} \cup FirstMatch(Crashers) ELSE {})
  <2>1. S \in SUBSET Sites /\ \A s \in S : s = Scanner \/ image[s] = "original"
    BY <1>1, <1>2, <1>3
  <2>2. found' = Capture(S) /\ layers # <<>> /\ layers' = layers /\ step' = "commit"
    BY <1>4 DEF DiscoverDd2, At, Goto
  <2> HIDE DEF S
  <2> QED
    BY <2>1, <2>2
<1>5. CASE DiscoverRe9
  <2> DEFINE S == Original(Re9Constants) \cup (IF profile.re9SlowPath THEN FirstMatch(Selectors) ELSE {})
  <2>1. S \in SUBSET Sites /\ \A s \in S : s = Scanner \/ image[s] = "original"
    BY <1>1, <1>2, <1>3
  <2>2. found' = Capture(S) /\ layers # <<>> /\ layers' = layers /\ step' = "commit"
    BY <1>5 DEF DiscoverRe9, At, Goto
  <2> HIDE DEF S
  <2> QED
    BY <2>1, <2>2
<1>6. CASE DiscoverHeader
  <2>1. CASE found' = Capture(FirstMatch(Headers)) /\ Goto("copy")
    BY <1>2, <1>6, <2>1 DEF DiscoverHeader, At, Goto
  <2>2. CASE Terminal("peHeader", "NotFound")
    BY <2>2 DEF Terminal
  <2> QED
    BY <1>6, <2>1, <2>2 DEF DiscoverHeader
<1>7. CASE DiscoverDestroyer
  <2> DEFINE S == Original(Destroyers)
  <2>1. S \in SUBSET Sites /\ \A s \in S : image[s] = "original"
    BY <1>1, <1>3
  <2>2. \/ found' = Capture(S) /\ layers # <<>> /\ layers' = layers /\ step' = "again"
        \/ found' = <<>>
    BY <1>7 DEF DiscoverDestroyer, At, Goto, Terminal
  <2> HIDE DEF S
  <2> QED
    BY <2>1, <2>2
<1> QED
  BY <1>4, <1>5, <1>6, <1>7

\* The steps that are no discovery keep the candidates or drop them.
LEMMA Drops ==
  ASSUME [Next]_vars, ~(DiscoverDd2 \/ DiscoverRe9 \/ DiscoverHeader \/ DiscoverDestroyer)
  PROVE  \/ found' = <<>>
         \/ UNCHANGED <<found, layers, step>>
         \/ UNCHANGED <<found, layers>> /\ step' \in {"copy", "again", "commit"}
         \/ UNCHANGED found /\ (layers = <<>> \/ step \in {"discover", "hooks"})
BY DEF Next, vars, InitializeASI, CommitDd2, CommitRe9, InstallJobCallsiteGuards, AlreadyTerminal,
   CreateHeaderCopy, DiscoverAgain, CommitOneShot, Initialize, Rewrite, At, Goto, Terminal, outcome

\* Every step keeps the types of the candidates.
LEMMA CandidateTypesStep ==
  ASSUME Frame, CandidateTypes, [Next]_vars
  PROVE  CandidateTypes'
<1>1. DOMAIN (<<>>) = {}
  OBVIOUS
<1>2. CASE found' = <<>>
  BY <1>1, <1>2 DEF CandidateTypes
<1>3. ASSUME NEW S \in SUBSET Sites, found' = Capture(S), layers # <<>>, layers' = layers,
             step' \in {"copy", "again", "commit"}
      PROVE  CandidateTypes'
  BY <1>3, CaptureTypes DEF CandidateTypes
<1>4. CASE UNCHANGED found /\ DOMAIN found = {}
  BY <1>4 DEF CandidateTypes
<1>5. CASE UNCHANGED <<found, layers>> /\ (step' = step \/ step' \in {"copy", "again", "commit"})
  BY <1>5 DEF CandidateTypes
<1>6. CASE UNCHANGED found /\ (layers = <<>> \/ step \in {"discover", "hooks"})
  BY <1>4, <1>6 DEF CandidateTypes
<1>7. CASE DiscoverDd2 \/ DiscoverRe9 \/ DiscoverHeader \/ DiscoverDestroyer
  <2>1. ASSUME UNCHANGED found, found' # <<>>
        PROVE  CandidateTypes'
    <3>1. layers # <<>> /\ step = "discover"
      BY <1>7 DEF DiscoverDd2, DiscoverRe9, DiscoverHeader, DiscoverDestroyer, At
    <3> QED
      BY <1>6, <2>1, <3>1
  <2> QED
    BY <1>2, <1>3, <1>7, <2>1, Discoveries
<1> QED
  BY <1>2, <1>5, <1>6, <1>7, Drops

\* Nothing is done before the first call.
LEMMA DoneByCallsStep ==
  ASSUME Frame, Typed, DoneByCalls, [Next]_vars
  PROVE  DoneByCalls'
<1>1. calls' = calls \/ calls' = calls + 1
  BY DEF Next, vars, InitializeASI, DiscoverDd2, CommitDd2, DiscoverRe9, CommitRe9,
     InstallJobCallsiteGuards, AlreadyTerminal, DiscoverHeader, CreateHeaderCopy, DiscoverDestroyer,
     DiscoverAgain, CommitOneShot, Initialize, Rewrite
<1>2. CASE layers # <<>> \/ InitializeASI
  <2>1. calls' > 0
    BY <1>1, <1>2 DEF DoneByCalls, Frame, InitializeASI
  <2> QED
    BY <2>1 DEF DoneByCalls
<1>3. CASE layers = <<>> /\ ~InitializeASI
  <2>1. UNCHANGED <<layers, copies, workers, calls>>
    BY <1>3 DEF Next, vars, outcome, DiscoverDd2, CommitDd2, DiscoverRe9, CommitRe9,
       InstallJobCallsiteGuards, AlreadyTerminal, DiscoverHeader, CreateHeaderCopy, DiscoverDestroyer,
       DiscoverAgain, CommitOneShot, Initialize, Rewrite, At
  <2> QED
    BY <2>1 DEF DoneByCalls
<1> QED
  BY <1>2, <1>3

\* Type correctness of start-up.
THEOREM TypeCorrect == Spec => []TypeOK
<1>1. Init => TypesInv
  <2> SUFFICES ASSUME Init
               PROVE  TypesInv
    OBVIOUS
  <2>1. profile.dd2ScannerCrasher \in BOOLEAN
    <3>1. CASE profile = Unsupported
      <4>1. Unsupported.dd2ScannerCrasher = FALSE
        BY DEF Unsupported
      <4> QED
        BY <3>1, <4>1
    <3>2. ASSUME NEW a \in BOOLEAN, NEW b, NEW c, profile = Game(a, b, c)
          PROVE  profile.dd2ScannerCrasher \in BOOLEAN
      <4>1. Game(a, b, c).dd2ScannerCrasher = a
        BY DEF Game
      <4> QED
        BY <3>2, <4>1
    <3> QED
      BY <3>1, <3>2 DEF Init, Profiles
  <2>2. resolves \in BOOLEAN
    BY <2>1 DEF Init
  <2>3. CallTypes
    BY <2>2, StartupAssumption DEF Init, CallTypes, Suffixes
  <2>4. CandidateTypes
    BY DEF Init, CandidateTypes
  <2>5. DoneByCalls
    BY DEF Init, DoneByCalls, Workers
  <2> QED
    BY <2>3, <2>4, <2>5 DEF TypesInv
<1>2. TypesInv /\ CompleteInv /\ OneShotInv /\ [Next]_vars => TypesInv'
  BY CallTypesStep, CandidateTypesStep, DoneByCallsStep DEF TypesInv, CompleteInv, OneShotInv
<1>3. TypesInv /\ CompleteInv /\ OneShotInv => TypeOK
  <2> SUFFICES ASSUME TypesInv, CompleteInv, OneShotInv
               PROVE  TypeOK
    OBVIOUS
  <2>1. copies \in 0..MaxCalls
    BY StartupAssumption DEF TypesInv, CallTypes, DoneByCalls, OneShotInv, OneShot, Typed
  <2>2. ASSUME NEW w \in Workers
        PROVE  workers[w] \in 0..MaxCalls
    <3>1. workers[w] \in {0, 1} /\ (workers[w] = 1 => calls > 0)
      BY DEF TypesInv, DoneByCalls, OneShotInv, StartedOnce
    <3>2. calls \in 0..MaxCalls /\ MaxCalls \in Nat
      BY StartupAssumption DEF TypesInv, CallTypes
    <3> QED
      BY <3>1, <3>2
  <2>3. workers \in [Workers -> 0..MaxCalls]
    BY <2>2 DEF OneShotInv, Typed
  <2> QED
    BY <2>1, <2>3
    DEF TypesInv, CallTypes, CandidateTypes, CompleteInv, Frame, OneShotInv, Typed, TypeOK, Suffixes,
        Contents, Workers, OneShotLayers
<1> QED
  BY <1>1, <1>2, <1>3, CompleteInvariant, OneShotInvariant, PTL DEF Spec

-----------------------------------------------------------------------------
(* The windows as PatchedSites.                                            *)

\* What waits to be committed was original when it was found.
Captured == \A s \in DOMAIN found \ {Scanner} : found[s] = "original"

\* Every step keeps it.
LEMMA CapturedStep ==
  ASSUME Captured, [Next]_vars
  PROVE  Captured'
<1>1. CASE found' = <<>> \/ UNCHANGED found
  BY <1>1 DEF Captured
<1>2. CASE DiscoverDd2 \/ DiscoverRe9 \/ DiscoverHeader \/ DiscoverDestroyer
  BY <1>1, <1>2, Discoveries DEF Captured, Capture
<1> QED
  BY <1>1, <1>2, Drops

\* Committing what was captured replaces original sites.
LEMMA ReplaceStep ==
  ASSUME Frame, Captured, NEW written, written \subseteq {s \in DOMAIN found : image[s] = found[s]},
         image' = [s \in Sites |-> IF s \in written THEN "replaced" ELSE image[s]]
  PROVE  Patched!SitesNext
<1>1. Signed \subseteq Sites /\ Scanner \notin Signed
  BY DEF Signed
<1>2. \A s \in written \cap Signed : image[s] = "original"
  BY <1>1 DEF Captured
<1>3. \A s \in Signed : /\ image'[s] = IF s \in written THEN "replaced" ELSE image[s]
                        /\ image[s] \in {"original", "replaced", "other"}
  BY <1>1 DEF Frame, Contents
<1>4. Patched!Replace
  BY <1>2, <1>3 DEF Patched!Replace, Patched!Holds
<1> QED
  BY <1>4 DEF Patched!SitesNext

\* Every step of a call or of the game is a step of PatchedSites.
LEMMA OnlyOriginalsStep ==
  ASSUME Frame, Captured, [Next]_vars
  PROVE  [Patched!SitesNext]_([s \in Signed |-> image[s]])
<1>1. Signed \subseteq Sites
  BY DEF Signed
<1>2. CASE CommitDd2 \/ CommitRe9
  <2>1. PICK written \in SUBSET {s \in DOMAIN found : image[s] = found[s] /\ image[s] # "replaced"} :
          image' = [s \in Sites |-> IF s \in written THEN "replaced" ELSE image[s]]
    BY <1>2 DEF CommitDd2, CommitRe9, Commit
  <2> QED
    BY <2>1, ReplaceStep
<1>3. CASE \E l \in {"peHeader", "stackDestroyer"} : CommitOneShot(l)
  <2>1. PICK written \in SUBSET {s \in DOMAIN found : image[s] = found[s]} :
          image' = [s \in Sites |-> IF s \in written THEN "replaced" ELSE image[s]]
    BY <1>3 DEF CommitOneShot
  <2> QED
    BY <2>1, ReplaceStep
<1>4. CASE InstallJobCallsiteGuards
  <2>1. \A s \in Signed : image'[s] = image[s]
    BY <1>1, <1>4 DEF InstallJobCallsiteGuards, Original, Signed
  <2> QED
    BY <2>1
<1>5. ASSUME NEW r \in Visible, Rewrite(r)
      PROVE  [Patched!SitesNext]_([s \in Signed |-> image[s]])
  <2>1. PICK b \in {"original", "other"} : image' = [image EXCEPT ![r] = b]
    BY <1>5 DEF Rewrite
  <2>2. CASE r \in Signed
    <3>1. [s \in Signed |-> image[s]]' = [[s \in Signed |-> image[s]] EXCEPT ![r] = b]
      BY <1>1, <2>1, <2>2 DEF Frame
    <3>2. Patched!Rewrite(r)
      BY <3>1 DEF Patched!Rewrite
    <3> QED
      BY <2>2, <3>2 DEF Patched!SitesNext
  <2>3. CASE r \notin Signed
    BY <1>1, <2>1, <2>3 DEF Frame
  <2> QED
    BY <2>2, <2>3
<1>6. CASE UNCHANGED image
  BY <1>6
<1>7. CASE \/ InitializeASI \/ DiscoverDd2 \/ DiscoverRe9 \/ AlreadyTerminal \/ DiscoverHeader
           \/ CreateHeaderCopy \/ DiscoverDestroyer \/ DiscoverAgain
           \/ \E w \in {"heartbeat", "dbgUi"} : Initialize(w)
  <2>1. UNCHANGED image
    BY <1>7 DEF InitializeASI, DiscoverDd2, DiscoverRe9, AlreadyTerminal, DiscoverHeader, CreateHeaderCopy,
       DiscoverDestroyer, DiscoverAgain, Initialize
  <2> QED
    BY <1>6, <2>1
<1> QED
  BY <1>2, <1>3, <1>4, <1>5, <1>6, <1>7 DEF Next, vars

\* Start-up implements PatchedSites: what is found by its signature is replaced only
\* where it is still original when its window comes, whoever looked for it and
\* whatever the game has rewritten since.
THEOREM OnlyOriginalsReplaced == Spec => ReplacesOnlyOriginals
<1>1. Init => Patched!SitesInit /\ Captured
  BY DEF Init, Patched!SitesInit, Captured, Signed
<1>2. CompleteInv /\ Captured /\ [Next]_vars => Captured' /\ [Patched!SitesNext]_([s \in Signed |-> image[s]])
  BY CapturedStep, OnlyOriginalsStep DEF CompleteInv
<1> QED
  BY <1>1, <1>2, CompleteInvariant, PTL DEF Spec, ReplacesOnlyOriginals, Patched!SitesSpec
=============================================================================
