--------------------------- MODULE RendererBridge ---------------------------
(***************************************************************************)
(* reengine/RendererBridge.cpp: Resolve, one call after another, while the *)
(* engine starts up around it.  A call goes through the stages that have   *)
(* no result yet: the global context (by its references in the code), the  *)
(* type database, via.render.Renderer, get_RenderFrame, and at last the    *)
(* singleton, which is asked for in every call.                            *)
(*                                                                         *)
(* Until the engine is calm any guarded read may fail, because the         *)
(* structure it goes through is not there yet or is being built.  The      *)
(* contents of the type database's tables are abstracted to what has been  *)
(* filled in.                                                              *)
(***************************************************************************)
EXTENDS MemoryScan, BridgeAnswers, FiniteSets

CONSTANTS ContextPattern, EncodedPattern,
          kDisplacement,  \* where both patterns hold the displacement (3 and 13)
          kInstruction,   \* how many bytes DecodeOne reads (ND_MAX_INSTRUCTION_LENGTH)
          kThreshold,     \* references that are not yet enough (10)
          InModule,       \* displacements that lead into the module
          GlobalContext   \* the one that leads to the global context

\* What a match at a refers to, if its displacement can be read.
Reference(a) == Image[a + kDisplacement]

Referring(ref) == {a \in 1..Len(Image) - Len(ContextPattern) + 1 :
                     Matches(ContextPattern, a) /\ Reference(a) = ref}

\* No other slot of the module is referred to often enough.
ASSUME ReferencesAssumption ==
  /\ kThreshold \in Nat /\ GlobalContext \in InModule
  /\ {ContextPattern, EncodedPattern} \subseteq Patterns
  /\ kDisplacement < Len(ContextPattern) /\ kDisplacement < Len(EncodedPattern)
  /\ \A ref \in InModule \ {GlobalContext} : Cardinality(Referring(ref)) <= kThreshold

VARIABLES
  context,      \* engine: the global context has been created
  filled,       \* engine: which of "typeClr" and "encodedOffset" are filled in
  calm,         \* engine: all is up, and from now on only the renderer changes
  call,         \* "idle", or "resolve" during a call
  answer,       \* of the last call: a status, and the renderer when Ready
  m_globalContextSlot, m_tdb, m_layoutUnsupported, m_rendererType, m_getRenderFrame,
  encodedBase,  \* FindEncodedFunctionBase's statics: "untried", "missed" or "cached"
  refs,         \* ResolveVmContext's RepeatedReferenceCounter
  out,          \* the singleton this call was given
  allowed       \* history: the answers that were right at some time of this call

engine == <<context, filled, calm, tdb, renderer>>
kept == <<m_globalContextSlot, m_tdb, m_layoutUnsupported, m_rendererType, m_getRenderFrame,
          encodedBase>>
bridge == <<call, answer, kept, refs, out>>
bridgeVars == <<engine, bridge, allowed, memory, scanVars>>
-----------------------------------------------------------------------------
Answers == [status : {"NotReadyYet", "UnsupportedLayout", "Ready"}, renderer : Renderers \cup {None}]

\* What the caller may be told now (BridgeAnswers).
TrueNow == {ans \in Answers : /\ CanAnswer(ans.status)
                              /\ ans.renderer = IF ans.status = "Ready" THEN renderer ELSE None}

Return(status, r) == /\ answer' = [status |-> status, renderer |-> r]
                     /\ call' = "idle"
                     /\ EndScan

NotReadyYet == Return("NotReadyYet", None)

\* A guarded read in the structures behind the image may fail for now.
ReadFails == ~calm

NoCounts == [ref \in InModule |-> 0]

Call ==
  /\ call = "idle"
  /\ IF m_layoutUnsupported
     THEN Return("UnsupportedLayout", None)
     ELSE call' = "resolve" /\ UNCHANGED <<answer, scanVars>>
  /\ allowed' = TrueNow
  /\ UNCHANGED <<engine, memory, kept, refs, out>>

\* A stage runs when its result is missing and those before it have theirs.
At(stage) ==
  /\ call = "resolve"
  /\ stage = IF m_globalContextSlot = None THEN "context"
             ELSE IF ~m_tdb THEN "tdb"
             ELSE IF ~m_rendererType THEN "type"
             ELSE IF m_getRenderFrame THEN "singleton"
             ELSE "frame"
-----------------------------------------------------------------------------
(* ResolveVmContext.                                                       *)

ModuleEnd == Len(Image) + 1

\* Mutated FreshCounts: the counter outlives the call.
CountsKept == refs

\* detail::RepeatedReferenceCounter refs
FreshCounts == NoCounts

SearchContext ==
  /\ At("context") /\ scan.phase = "idle"
  /\ refs' = FreshCounts
  /\ BeginScan(ContextPattern, 1, ModuleEnd)
  /\ UNCHANGED <<engine, memory, call, answer, kept, out, allowed>>

\* DecodeOne reads as many bytes as an instruction can have.
Decodes(a) == \A b \in a..a + kInstruction - 1 : IsReadable(b)

\* The search goes on, one byte past the match.
ResumeSearch(a) == BeginScan(ContextPattern, a + 1, ModuleEnd)

\* The slot the reference leads to, if the context behind it exists.
KeepContext(ref) ==
  \/ /\ ref = GlobalContext => context
     /\ m_globalContextSlot' = ref
     /\ EndScan
     /\ UNCHANGED <<call, answer>>
  \/ /\ (ref = GlobalContext /\ ~context) \/ ReadFails
     /\ NotReadyYet
     /\ UNCHANGED m_globalContextSlot

ContextMatch ==
  /\ At("context") /\ scan.phase = "hit"
  /\ LET a == scan.a
         ref == Reference(a)
     IN  IF ~Decodes(a) \/ ref \notin InModule
         THEN ResumeSearch(a) /\ UNCHANGED <<call, answer, kept, refs>>
         ELSE /\ refs' = [refs EXCEPT ![ref] = @ + 1]
              /\ IF refs'[ref] > kThreshold
                 THEN KeepContext(ref)
                 ELSE ResumeSearch(a) /\ UNCHANGED <<call, answer, m_globalContextSlot>>
              /\ UNCHANGED <<m_tdb, m_layoutUnsupported, m_rendererType, m_getRenderFrame, encodedBase>>
  /\ UNCHANGED <<engine, memory, out, allowed>>

ContextMissed ==
  /\ At("context") /\ scan.phase = "miss"
  /\ NotReadyYet
  /\ UNCHANGED <<engine, memory, kept, refs, out, allowed>>
-----------------------------------------------------------------------------
(* The stages behind the context.                                          *)

\* Mutated Expected: the version is not compared.
AnyVersion == tdb # "absent"

\* version == m_expectedTdbVersion
Expected == tdb = "expected"

\* ResolveTdb: the first structure with the magic number decides, for good.
FindTdb ==
  /\ At("tdb")
  /\ \/ /\ Expected
        /\ m_tdb' = TRUE
        /\ UNCHANGED <<m_layoutUnsupported, call, answer, scanVars>>
     \/ /\ tdb # "absent" /\ ~Expected
        /\ m_layoutUnsupported' = TRUE
        /\ Return("UnsupportedLayout", None)
        /\ UNCHANGED m_tdb
     \/ /\ tdb = "absent" \/ ReadFails
        /\ NotReadyYet
        /\ UNCHANGED <<m_tdb, m_layoutUnsupported>>
  /\ UNCHANGED <<engine, memory, m_globalContextSlot, m_rendererType, m_getRenderFrame, encodedBase,
                 refs, out, allowed>>

FindRendererType ==
  /\ At("type")
  /\ \/ /\ "typeClr" \in filled
        /\ m_rendererType' = TRUE
        /\ UNCHANGED <<call, answer, scanVars>>
     \/ /\ "typeClr" \notin filled \/ ReadFails
        /\ NotReadyYet
        /\ UNCHANGED m_rendererType
  /\ UNCHANGED <<engine, memory, m_globalContextSlot, m_tdb, m_layoutUnsupported, m_getRenderFrame,
                 encodedBase, refs, out, allowed>>

\* FindEncodedFunctionBase: tried is set before the search.
SearchEncodedBase ==
  /\ At("frame") /\ encodedBase = "untried" /\ scan.phase = "idle"
  /\ encodedBase' = "missed"
  /\ BeginScan(EncodedPattern, 1, ModuleEnd)
  /\ UNCHANGED <<engine, memory, call, answer, m_globalContextSlot, m_tdb, m_layoutUnsupported,
                 m_rendererType, m_getRenderFrame, refs, out, allowed>>

\* Mutated EncodedBaseSearched: what was found is not kept.
BaseNotKept ==
  /\ At("frame") /\ scan.phase \in {"hit", "miss"}
  /\ NotReadyYet
  /\ UNCHANGED <<engine, memory, kept, refs, out, allowed>>

\* CalculateAbsolute returns 0 when the displacement cannot be read.
EncodedBaseSearched ==
  /\ At("frame") /\ scan.phase \in {"hit", "miss"}
  /\ IF /\ scan.phase = "hit"
        /\ IsReadable(scan.a + kDisplacement) /\ Reference(scan.a) \in InModule
     THEN encodedBase' = "cached" /\ EndScan /\ UNCHANGED <<call, answer>>
     ELSE NotReadyYet /\ UNCHANGED encodedBase
  /\ UNCHANGED <<engine, memory, m_globalContextSlot, m_tdb, m_layoutUnsupported, m_rendererType,
                 m_getRenderFrame, refs, out, allowed>>

\* ResolveGetRenderFrame, before and after its call of FindEncodedFunctionBase.
FindGetRenderFrame ==
  /\ At("frame") /\ scan.phase = "idle"
  /\ \/ /\ encodedBase = "cached" /\ "encodedOffset" \in filled
        /\ m_getRenderFrame' = TRUE
        /\ UNCHANGED <<call, answer, scanVars>>
     \/ /\ encodedBase = "missed" \/ (encodedBase = "cached" /\ "encodedOffset" \notin filled) \/ ReadFails
        /\ NotReadyYet
        /\ UNCHANGED m_getRenderFrame
  /\ UNCHANGED <<engine, memory, m_globalContextSlot, m_tdb, m_layoutUnsupported, m_rendererType,
                 encodedBase, refs, out, allowed>>

\* ResolveRendererSingleton: the engine is asked, in every call, and what it
\* hands out must be readable.
AskSingleton ==
  /\ At("singleton") /\ out = None
  /\ \/ out' = renderer /\ renderer # None /\ UNCHANGED <<call, answer, scanVars>>
     \/ (renderer = None \/ ReadFails) /\ NotReadyYet /\ UNCHANGED out
  /\ UNCHANGED <<engine, memory, kept, refs, allowed>>

ReturnSingleton ==
  /\ At("singleton") /\ out # None
  /\ Return("Ready", out) \/ (ReadFails /\ NotReadyYet)
  /\ out' = None
  /\ UNCHANGED <<engine, memory, kept, refs, allowed>>

ResolveStep ==
  \/ Call
  \/ SearchContext \/ ContextMatch \/ ContextMissed
  \/ FindTdb \/ FindRendererType
  \/ SearchEncodedBase \/ EncodedBaseSearched \/ FindGetRenderFrame
  \/ AskSingleton \/ ReturnSingleton
  \/ ScanStep /\ UNCHANGED <<engine, bridge, allowed>>
-----------------------------------------------------------------------------
(* The engine.                                                             *)

CreateContext == ~context /\ context' = TRUE /\ UNCHANGED <<tdb, filled, renderer>>

BuildTdb == /\ context /\ tdb = "absent"
            /\ tdb' \in {"expected", "mismatch"}
            /\ UNCHANGED <<context, filled, renderer>>

FillIn == /\ tdb # "absent"
          /\ \E part \in {"typeClr", "encodedOffset"} \ filled : filled' = filled \cup {part}
          /\ UNCHANGED <<context, tdb, renderer>>

Replace == /\ renderer' \in (Renderers \cup {None}) \ {renderer}
           /\ tdb # "absent"
           /\ UNCHANGED <<context, filled, tdb>>

EngineStep ==
  /\ ~calm
  /\ CreateContext \/ BuildTdb \/ FillIn \/ Replace
  /\ allowed' = allowed \cup TrueNow'
  /\ UNCHANGED <<calm, bridge, memory, scanVars>>

\* Everything is up, and stays as it is.
CalmDown ==
  /\ ~calm /\ calm' = TRUE
  /\ tdb # "absent" /\ filled = {"typeClr", "encodedOffset"} /\ renderer # None
  /\ ReadablePages = Pages
  /\ UNCHANGED <<context, filled, tdb, renderer, bridge, allowed, memory, scanVars>>

Reprotect ==
  /\ ~calm
  /\ \E p \in Pages, prot \in Protections : Protect(p, prot)
  /\ UNCHANGED <<engine, bridge, allowed>>

BridgeIdle ==
  /\ context = FALSE /\ filled = {} /\ calm = FALSE /\ tdb = "absent" /\ renderer = None
  /\ call = "idle" /\ answer = [status |-> "NotReadyYet", renderer |-> None]
  /\ m_globalContextSlot = None /\ m_tdb = FALSE /\ m_layoutUnsupported = FALSE
  /\ m_rendererType = FALSE /\ m_getRenderFrame = FALSE
  /\ encodedBase = "untried" /\ refs = NoCounts /\ out = None
  /\ allowed = {[status |-> "NotReadyYet", renderer |-> None]}

BridgeStep == ResolveStep \/ EngineStep \/ CalmDown \/ Reprotect

BridgeSpec == MemoryInit /\ BridgeIdle /\ [][BridgeStep]_bridgeVars
-----------------------------------------------------------------------------
(* Properties.                                                             *)

BridgeTypeOK ==
  /\ MemoryTypeOK
  /\ m_globalContextSlot \in InModule \cup {None}
  /\ encodedBase \in {"untried", "missed", "cached"}
  /\ m_getRenderFrame => m_rendererType /\ encodedBase = "cached"
  /\ m_rendererType => m_tdb
  /\ m_tdb => m_globalContextSlot # None /\ ~m_layoutUnsupported
  /\ refs \in [InModule -> 0..kThreshold + 1]
  /\ answer \in Answers

\* Every answer was right at some time during its call, though the stages it
\* rests on are read one after the other and their results are kept.
AnswersWereTrue == call = "idle" => answer \in allowed

\* "> 10 identical resolutions is for sure the right one": whatever pages can
\* be read in which call, the slot that is kept is the global context's.
ContextFound == m_globalContextSlot \in {None, GlobalContext}

\* What Resolve answers when all is up.
Settled ==
  \/ answer = [status |-> "Ready", renderer |-> renderer]
  \/ tdb = "mismatch" /\ answer.status = "UnsupportedLayout"

\* The one search for the encoded function base ended without it, or is past every
\* place where it could have found it.
BaseLost ==
  LET next == IF scan.phase = "faulted" THEN RegionEnd(scan.addr) ELSE scan.a
  IN  /\ encodedBase = "missed"
      /\ scan.pattern = EncodedPattern /\ scan.phase \in {"compare", "faulted", "hit"} =>
           \A a \in next..scan.last : ~Matches(EncodedPattern, a)

\* "NotReadyYet: engine not up yet - retry later": once all is up, and the search
\* for the encoded function base was not made in vain before that, the calls come
\* to the right answer and give it ever after, whatever failed and was changed
\* before, in whichever stage the bridge was.
SettlesForGood == calm /\ ~BaseLost ~> []Settled

\* "`NotReadyYet` is normal during startup and must not permanently disable
\* heartbeat": once all is up the bridge answers something else at last.  It
\* fails: a search made in vain before is never made again.
NotReadyIsNotForEver == calm ~> Settled
=============================================================================
