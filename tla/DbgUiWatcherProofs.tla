------------------------ MODULE DbgUiWatcherProofs -------------------------
(* Proofs about the DbgUiRemoteBreakin watcher.                            *)
EXTENDS DbgUiWatcher, TLAPS

Chasing == {"slot", "revalidate", "revalidateSlot", "query", "revalidateAgain",
            "revalidateSlotAgain", "queryAgain", "unprotect", "fill", "fillRest", "protect",
            "compare", "unprotectEntry", "copyOpcode", "copyOperand", "protectEntry"}

ThroughSlot == [opcode |-> "ff25", operand |-> "slot"]

\* What the check has in hand is a redirect of one of the two forms; the target
\* of an E9 is the one its bytes name.
HookInv ==
  /\ pc \notin Chasing => hook = NoHook
  /\ pc = "slot" => hook.observed = ThroughSlot
  /\ pc \in Chasing =>
       \/ hook.observed = ThroughSlot
       \/ hook.observed.opcode = "e9" /\ hook.target = Resolved(hook.observed, Nowhere)

\* The game is about to lead the entry to the target, through a slot it has
\* stored and with a write nobody has disturbed.
LeadsSoon ==
  /\ slot = hook.target
  /\ entry # ThroughSlot
  /\ writing.cells # {} /\ writing.value = ThroughSlot
  /\ \A cell \in {"opcode", "operand"} \ writing.cells :
       entry[cell] = writing.value[cell]

SeenAimed == hook.target \in aims \/ recycled

\* Where the entry leads is noted.  Behind an FF25 the target was aimed at, or
\* soon will be, once the slot was found to hold it after the entry was found
\* unchanged; finding the entry unchanged again then decides.
AimInv ==
  /\ pc \in Chasing => Resolved(entry, slot) \in aims
  /\ pc = "revalidateSlot" /\ slot = hook.target => SeenAimed \/ LeadsSoon
  /\ pc \in {"query", "revalidateAgain"} /\ hook.observed = ThroughSlot => SeenAimed \/ LeadsSoon
  /\ pc \in {"revalidateSlotAgain", "queryAgain", "unprotect", "fill", "fillRest"} => SeenAimed

\* A region with a filled payload stays filled until it is freed.
TargetFilled == region[hook.target].code = "filled" \/ recycled
FillInv ==
  /\ pc # "protect" => wrote
  /\ pc = "protect" /\ wrote => TargetFilled
  /\ pc \in {"compare", "unprotectEntry", "copyOpcode", "copyOperand"} => TargetFilled
  /\ pc \in {"unprotectEntry", "copyOpcode"} => entry = hook.observed \/ raced
  /\ pc \in {"unprotect", "fill", "fillRest", "protect", "compare", "unprotectEntry",
             "copyOpcode", "copyOperand"} => hook.target \in Regions

\* Only the region being filled is writable and executable.
WritableInv ==
  /\ \A r \in Regions : region[r].state = "free" => region[r] = Free
  /\ failures = 0 =>
       /\ \A r \in Regions : region[r].protection = "ExecuteReadWrite" =>
            r = hook.target /\ pc \in {"fill", "fillRest", "protect"}
       /\ pc \in {"fill", "fillRest", "protect"} => oldProtection # "ExecuteReadWrite"

IInv == TypeOK /\ HookInv /\ AimInv /\ FillInv /\ WritableInv


-----------------------------------------------------------------------------

\* The fixed values have the types of the variables they are stored in.
LEMMA Typed ==
  /\ Original \in Entries /\ Idle \in [cells : SUBSET {"opcode", "operand"}, value : Entries]
  /\ NoHook \in [observed : Entries, target : Targets \cup {Nowhere}]
  /\ Free \in [state : {"free", "private"}, protection : Protections,
               code : {"payload", "half", "filled"}]
  /\ Payload \in [state : {"free", "private"}, protection : Protections,
                  code : {"payload", "half", "filled"}]
BY DEF Original, Entries, Idle, NoHook, Free, Payload, Protections

\* Whatever the entry and the slot hold, a redirect leads to a target or nowhere.
LEMMA ResolvedTyped ==
  ASSUME NEW e \in Entries, NEW s \in Targets \cup {Nowhere}
  PROVE  Resolved(e, s) \in Targets \cup {Nowhere}
<1>1. CASE e.opcode = "e9" /\ e.operand \in Targets
  BY <1>1 DEF Resolved
<1>2. CASE e.opcode = "ff25" /\ e.operand = "slot"
  BY <1>2 DEF Resolved
<1>3. CASE /\ ~(e.opcode = "e9" /\ e.operand \in Targets)
           /\ ~(e.opcode = "ff25" /\ e.operand = "slot")
  BY <1>3 DEF Resolved
<1> QED
  BY <1>1, <1>2, <1>3

\* Ending a check, or going on with it, keeps the types of its locals.
LEMMA EndCheckTyped == WatcherTypeOK /\ EndCheck => WatcherTypeOK'
<1> SUFFICES ASSUME WatcherTypeOK, EndCheck
             PROVE  WatcherTypeOK'
  OBVIOUS
<1>1. pc' \in Steps
  BY DEF EndCheck, Steps
<1>2. started' \in BOOLEAN /\ baseline' \in Entries /\ wrote' \in BOOLEAN
  BY DEF EndCheck, WatcherTypeOK
<1>3. hook' \in [observed : Entries, target : Targets \cup {Nowhere}] /\ oldProtection' \in Protections
  BY Typed DEF EndCheck, Protections
<1> QED
  BY <1>1, <1>2, <1>3 DEF WatcherTypeOK

\* A step that only goes on.
LEMMA GotoTyped ==
  ASSUME WatcherTypeOK, NEW p \in Steps, Goto(p)
  PROVE  WatcherTypeOK'
BY DEF WatcherTypeOK, Goto

(* Type correctness, one group of variables at a time.                     *)

\* The watcher's locals keep their types.
LEMMA WatcherStep ==
  ASSUME TypeOK, [Next]_vars
  PROVE  WatcherTypeOK'
<1>1. CASE ReadEntry
  BY <1>1, Typed, ResolvedTyped, EndCheckTyped
  DEF ReadEntry, TypeOK, Steps, WatcherTypeOK, WorldTypeOK, Protections
<1>2. CASE ReadSlot
  BY <1>2, EndCheckTyped, GotoTyped DEF ReadSlot, TypeOK, Steps, WatcherTypeOK, WorldTypeOK, Protections
<1>3. CASE Revalidate("revalidate", "revalidateSlot", "query")
  BY <1>3, EndCheckTyped, GotoTyped DEF Revalidate, TypeOK, Steps
<1>4. CASE RevalidateSlot("revalidateSlot", "query")
  BY <1>4, EndCheckTyped, GotoTyped DEF RevalidateSlot, TypeOK, Steps
<1>5. CASE Query("query", "revalidateAgain")
  BY <1>5, EndCheckTyped, GotoTyped DEF Query, TypeOK, Steps
<1>6. CASE Revalidate("revalidateAgain", "revalidateSlotAgain", "queryAgain")
  BY <1>6, EndCheckTyped, GotoTyped DEF Revalidate, TypeOK, Steps
<1>7. CASE RevalidateSlot("revalidateSlotAgain", "queryAgain")
  BY <1>7, EndCheckTyped, GotoTyped DEF RevalidateSlot, TypeOK, Steps
<1>8. CASE Query("queryAgain", "unprotect")
  BY <1>8, EndCheckTyped, GotoTyped DEF Query, TypeOK, Steps
<1>9. CASE UnprotectPayload
  <2>1. CASE EndCheck
    BY <2>1, EndCheckTyped DEF TypeOK
  <2>2. CASE /\ Allocated(hook.target)
             /\ oldProtection' = region[hook.target].protection
             /\ pc' = "fill"
             /\ UNCHANGED <<started, baseline, hook, wrote>>
    <3>1. oldProtection' \in Protections
      BY <2>2 DEF Allocated, TypeOK, WorldTypeOK
    <3> QED
      BY <2>2, <3>1 DEF TypeOK, WatcherTypeOK, Steps
  <2> QED
    BY <1>9, <2>1, <2>2 DEF UnprotectPayload
<1>10. CASE Fill("fill", "half", "fillRest")
  BY <1>10, EndCheckTyped, GotoTyped DEF Fill, TypeOK, Steps, WatcherTypeOK, WorldTypeOK, Protections
<1>11. CASE Fill("fillRest", "filled", "protect")
  BY <1>11, EndCheckTyped, GotoTyped DEF Fill, TypeOK, Steps, WatcherTypeOK, WorldTypeOK, Protections
<1>12. CASE ProtectPayload
  BY <1>12, EndCheckTyped, GotoTyped DEF ProtectPayload, TypeOK, Steps
<1>13. CASE CompareEntry
  BY <1>13, EndCheckTyped, GotoTyped DEF CompareEntry, TypeOK, Steps
<1>14. CASE UnprotectEntry
  BY <1>14, EndCheckTyped, GotoTyped DEF UnprotectEntry, TypeOK, Steps, WatcherTypeOK, WorldTypeOK, Protections
<1>15. CASE CopyCell("copyOpcode", "opcode", "copyOperand")
  BY <1>15, EndCheckTyped, GotoTyped DEF CopyCell, TypeOK, Steps
<1>16. CASE CopyCell("copyOperand", "operand", "protectEntry")
  BY <1>16, EndCheckTyped, GotoTyped DEF CopyCell, TypeOK, Steps
<1>17. CASE ProtectEntry
  BY <1>17, EndCheckTyped, GotoTyped DEF ProtectEntry, TypeOK, Steps
<1>18. CASE Capture
  BY <1>18, EndCheckTyped, GotoTyped DEF Capture, TypeOK, Steps, WatcherTypeOK, WorldTypeOK, Protections
<1>19. CASE Spawn
  BY <1>19, EndCheckTyped, GotoTyped DEF Spawn, TypeOK, Steps, WatcherTypeOK, WorldTypeOK, Protections
<1>20. CASE WatchLoop
  BY <1>20, EndCheckTyped, GotoTyped DEF WatchLoop, TypeOK, Steps
<1>21. ASSUME NEW t \in Targets, NEW e \in Written(t), BeginWrite(e, t) PROVE WatcherTypeOK'
  BY <1>21 DEF BeginWrite, TypeOK, WatcherTypeOK, watcher
<1>22. ASSUME NEW cell \in {"opcode", "operand"}, WriteCell(cell) PROVE WatcherTypeOK'
  BY <1>22 DEF WriteCell, TypeOK, WatcherTypeOK, watcher
<1>23. ASSUME NEW r \in Regions, Allocate(r) PROVE WatcherTypeOK'
  BY <1>23 DEF Allocate, TypeOK, WatcherTypeOK, watcher
<1>24. ASSUME NEW r \in Regions, Release(r) PROVE WatcherTypeOK'
  BY <1>24 DEF Release, TypeOK, WatcherTypeOK, watcher
<1>25. ASSUME NEW r \in Regions, NEW p \in {"ReadWrite", "ExecuteRead"}, Reprotect(r, p) PROVE WatcherTypeOK'
  BY <1>25 DEF Reprotect, TypeOK, WatcherTypeOK, watcher
<1>26. CASE UNCHANGED vars
  BY <1>26 DEF TypeOK, WatcherTypeOK, vars, watcher
<1> QED
  BY <1>1, <1>2, <1>3, <1>4, <1>5, <1>6, <1>7, <1>8, <1>9, <1>10, <1>11, <1>12, <1>13, <1>14,
     <1>15, <1>16, <1>17, <1>18, <1>19, <1>20, <1>21, <1>22, <1>23, <1>24, <1>25, <1>26
  DEF Next, Check, Game

\* The entry, the slot and the regions keep their types.
LEMMA WorldStep ==
  ASSUME TypeOK, [Next]_vars
  PROVE  WorldTypeOK'
<1>1. CASE ReadEntry
  BY <1>1, Typed
  DEF ReadEntry, TypeOK, WorldTypeOK, game
<1>2. CASE ReadSlot
  BY <1>2, Typed
  DEF ReadSlot, TypeOK, WorldTypeOK, game
<1>3. CASE Revalidate("revalidate", "revalidateSlot", "query")
  BY <1>3, Typed
  DEF Revalidate, TypeOK, WorldTypeOK, game
<1>4. CASE RevalidateSlot("revalidateSlot", "query")
  BY <1>4, Typed
  DEF RevalidateSlot, TypeOK, WorldTypeOK, game
<1>5. CASE Query("query", "revalidateAgain")
  BY <1>5, Typed
  DEF Query, TypeOK, WorldTypeOK, game
<1>6. CASE Revalidate("revalidateAgain", "revalidateSlotAgain", "queryAgain")
  BY <1>6, Typed
  DEF Revalidate, TypeOK, WorldTypeOK, game
<1>7. CASE RevalidateSlot("revalidateSlotAgain", "queryAgain")
  BY <1>7, Typed
  DEF RevalidateSlot, TypeOK, WorldTypeOK, game
<1>8. CASE Query("queryAgain", "unprotect")
  BY <1>8, Typed
  DEF Query, TypeOK, WorldTypeOK, game
<1>9. CASE UnprotectPayload
  BY <1>9, Typed, BoundsAssumption
  DEF UnprotectPayload, Fail, TypeOK, WorldTypeOK, game, Protections, WatcherTypeOK
<1>10. CASE Fill("fill", "half", "fillRest")
  BY <1>10, Typed
  DEF Fill, TypeOK, WorldTypeOK, game, Protections, WatcherTypeOK
<1>11. CASE Fill("fillRest", "filled", "protect")
  BY <1>11, Typed
  DEF Fill, TypeOK, WorldTypeOK, game, Protections, WatcherTypeOK
<1>12. CASE ProtectPayload
  BY <1>12, Typed, BoundsAssumption
  DEF ProtectPayload, Fail, TypeOK, WorldTypeOK, game, Protections, WatcherTypeOK
<1>13. CASE CompareEntry
  BY <1>13, Typed
  DEF CompareEntry, TypeOK, WorldTypeOK, game
<1>14. CASE UnprotectEntry
  <2>1. writable' \in BOOLEAN
    BY <1>14 DEF UnprotectEntry, TypeOK, WorldTypeOK
  <2>2. failures' \in 0..MaxFailures
    BY <1>14, BoundsAssumption DEF UnprotectEntry, Fail, TypeOK, WorldTypeOK
  <2> QED
    BY <1>14, <2>1, <2>2 DEF UnprotectEntry, TypeOK, WorldTypeOK, game
<1>15. CASE CopyCell("copyOpcode", "opcode", "copyOperand")
  BY <1>15, Typed
  DEF CopyCell, TypeOK, WorldTypeOK, game, Entries, WatcherTypeOK
<1>16. CASE CopyCell("copyOperand", "operand", "protectEntry")
  BY <1>16, Typed
  DEF CopyCell, TypeOK, WorldTypeOK, game, Entries, WatcherTypeOK
<1>17. CASE ProtectEntry
  <2>1. writable' \in BOOLEAN
    BY <1>17, Zenon DEF ProtectEntry, TypeOK, WorldTypeOK
  <2>2. failures' \in 0..MaxFailures
    BY <1>17, BoundsAssumption DEF ProtectEntry, Fail, TypeOK, WorldTypeOK
  <2> QED
    BY <1>17, <2>1, <2>2 DEF ProtectEntry, TypeOK, WorldTypeOK, game
<1>18. CASE Capture
  BY <1>18, Typed, BoundsAssumption
  DEF Capture, Fail, TypeOK, WorldTypeOK, game
<1>19. CASE Spawn
  BY <1>19, Typed, BoundsAssumption
  DEF Spawn, Fail, TypeOK, WorldTypeOK, game
<1>20. CASE WatchLoop
  BY <1>20, Typed
  DEF WatchLoop, TypeOK, WorldTypeOK, game
<1>21. ASSUME NEW t \in Targets, NEW e \in Written(t), BeginWrite(e, t) PROVE WorldTypeOK'
  BY <1>21, Typed, BoundsAssumption
  DEF BeginWrite, Move, TypeOK, WorldTypeOK, game, Written, Entries
<1>22. ASSUME NEW cell \in {"opcode", "operand"}, WriteCell(cell) PROVE WorldTypeOK'
  BY <1>22, Typed
  DEF WriteCell, TypeOK, WorldTypeOK, game, Written, Entries
<1>23. ASSUME NEW r \in Regions, Allocate(r) PROVE WorldTypeOK'
  BY <1>23, Typed, BoundsAssumption
  DEF Allocate, Move, TypeOK, WorldTypeOK, game, Payload, Protections
<1>24. ASSUME NEW r \in Regions, Release(r) PROVE WorldTypeOK'
  BY <1>24, Typed, BoundsAssumption
  DEF Release, Move, TypeOK, WorldTypeOK, game
<1>25. ASSUME NEW r \in Regions, NEW p \in {"ReadWrite", "ExecuteRead"}, Reprotect(r, p) PROVE WorldTypeOK'
  BY <1>25, Typed, BoundsAssumption
  DEF Reprotect, Move, TypeOK, WorldTypeOK, game, Protections
<1>26. CASE UNCHANGED vars
  BY <1>26 DEF TypeOK, WorldTypeOK, vars, game
<1> QED
  BY <1>1, <1>2, <1>3, <1>4, <1>5, <1>6, <1>7, <1>8, <1>9, <1>10, <1>11, <1>12, <1>13, <1>14,
     <1>15, <1>16, <1>17, <1>18, <1>19, <1>20, <1>21, <1>22, <1>23, <1>24, <1>25, <1>26
  DEF Next, Check, Game

\* The histories keep their types.
LEMMA HistoryStep ==
  ASSUME TypeOK, [Next]_vars
  PROVE  HistoryTypeOK'
<1>1. CASE ReadEntry
  <2>1. Resolved(entry, slot) \in Targets \cup {Nowhere}
    BY ResolvedTyped DEF TypeOK, WorldTypeOK
  <2> QED
    BY <1>1, <2>1 DEF ReadEntry, TypeOK, HistoryTypeOK, game
<1>2. CASE ReadSlot
  BY <1>2 DEF ReadSlot, TypeOK, HistoryTypeOK, history
<1>3. CASE Revalidate("revalidate", "revalidateSlot", "query")
  BY <1>3 DEF Revalidate, TypeOK, HistoryTypeOK
<1>4. CASE RevalidateSlot("revalidateSlot", "query")
  BY <1>4 DEF RevalidateSlot, TypeOK, HistoryTypeOK, history
<1>5. CASE Query("query", "revalidateAgain")
  BY <1>5 DEF Query, TypeOK, HistoryTypeOK, history
<1>6. CASE Revalidate("revalidateAgain", "revalidateSlotAgain", "queryAgain")
  BY <1>6 DEF Revalidate, TypeOK, HistoryTypeOK
<1>7. CASE RevalidateSlot("revalidateSlotAgain", "queryAgain")
  BY <1>7 DEF RevalidateSlot, TypeOK, HistoryTypeOK, history
<1>8. CASE Query("queryAgain", "unprotect")
  BY <1>8 DEF Query, TypeOK, HistoryTypeOK, history
<1>9. CASE UnprotectPayload
  BY <1>9 DEF UnprotectPayload, TypeOK, HistoryTypeOK, history
<1>10. CASE Fill("fill", "half", "fillRest")
  BY <1>10 DEF Fill, TypeOK, HistoryTypeOK, history
<1>11. CASE Fill("fillRest", "filled", "protect")
  BY <1>11 DEF Fill, TypeOK, HistoryTypeOK, history
<1>12. CASE ProtectPayload
  BY <1>12 DEF ProtectPayload, TypeOK, HistoryTypeOK, history
<1>13. CASE CompareEntry
  BY <1>13 DEF CompareEntry, TypeOK, HistoryTypeOK
<1>14. CASE UnprotectEntry
  BY <1>14 DEF UnprotectEntry, TypeOK, HistoryTypeOK, history
<1>15. CASE CopyCell("copyOpcode", "opcode", "copyOperand")
  <2>1. Resolved(entry', slot') \in Targets \cup {Nowhere}
    BY WorldStep, ResolvedTyped DEF WorldTypeOK
  <2> QED
    BY <1>15, <2>1 DEF CopyCell, Note, TypeOK, HistoryTypeOK, game
<1>16. CASE CopyCell("copyOperand", "operand", "protectEntry")
  <2>1. Resolved(entry', slot') \in Targets \cup {Nowhere}
    BY WorldStep, ResolvedTyped DEF WorldTypeOK
  <2> QED
    BY <1>16, <2>1 DEF CopyCell, Note, TypeOK, HistoryTypeOK, game
<1>17. CASE ProtectEntry
  BY <1>17 DEF ProtectEntry, TypeOK, HistoryTypeOK, history
<1>18. CASE Capture
  BY <1>18 DEF Capture, TypeOK, HistoryTypeOK, history
<1>19. CASE Spawn
  BY <1>19 DEF Spawn, TypeOK, HistoryTypeOK, history
<1>20. CASE WatchLoop
  BY <1>20 DEF WatchLoop, TypeOK, HistoryTypeOK, history
<1>21. ASSUME NEW t \in Targets, NEW e \in Written(t), BeginWrite(e, t) PROVE HistoryTypeOK'
  <2>1. Resolved(entry', slot') \in Targets \cup {Nowhere}
    BY WorldStep, ResolvedTyped DEF WorldTypeOK
  <2> QED
    BY <1>21, <2>1 DEF BeginWrite, Note, TypeOK, HistoryTypeOK, game
<1>22. ASSUME NEW cell \in {"opcode", "operand"}, WriteCell(cell) PROVE HistoryTypeOK'
  <2>1. Resolved(entry', slot') \in Targets \cup {Nowhere}
    BY WorldStep, ResolvedTyped DEF WorldTypeOK
  <2> QED
    BY <1>22, <2>1 DEF WriteCell, Note, TypeOK, HistoryTypeOK, game
<1>23. ASSUME NEW r \in Regions, Allocate(r) PROVE HistoryTypeOK'
  <2>1. Resolved(entry', slot') \in Targets \cup {Nowhere}
    BY WorldStep, ResolvedTyped DEF WorldTypeOK
  <2> QED
    BY <1>23, <2>1 DEF Allocate, Note, TypeOK, HistoryTypeOK, game
<1>24. ASSUME NEW r \in Regions, Release(r) PROVE HistoryTypeOK'
  BY <1>24 DEF Release, Note, TypeOK, HistoryTypeOK
<1>25. ASSUME NEW r \in Regions, NEW p \in {"ReadWrite", "ExecuteRead"}, Reprotect(r, p) PROVE HistoryTypeOK'
  BY <1>25 DEF Reprotect, TypeOK, HistoryTypeOK, history
<1>26. CASE UNCHANGED vars
  BY <1>26 DEF TypeOK, HistoryTypeOK, vars, history
<1> QED
  BY <1>1, <1>2, <1>3, <1>4, <1>5, <1>6, <1>7, <1>8, <1>9, <1>10, <1>11, <1>12, <1>13, <1>14,
     <1>15, <1>16, <1>17, <1>18, <1>19, <1>20, <1>21, <1>22, <1>23, <1>24, <1>25, <1>26
  DEF Next, Check, Game

\* Every step keeps the types.
LEMMA TypeStep == TypeOK /\ [Next]_vars => TypeOK'
BY WorldStep, WatcherStep, HistoryStep DEF TypeOK

\* The types at first.
LEMMA TypeInit == Init => TypeOK
<1> SUFFICES ASSUME Init
             PROVE  TypeOK
  OBVIOUS
<1>1. WorldTypeOK
  <2> DEFINE Contents == [state : {"free", "private"}, protection : Protections,
                          code : {"payload", "half", "filled"}]
  <2>1. Free \in Contents /\ Payload \in Contents
    BY Typed
  <2> HIDE DEF Contents
  <2>2. region \in [Regions -> {Free, Payload}]
    BY DEF Init
  <2>3. region \in [Regions -> Contents]
    BY <2>1, <2>2
  <2>4. entry \in Entries /\ writable \in BOOLEAN /\ slot \in Targets \cup {Nowhere}
    BY Typed DEF Init
  <2>5. writing \in [cells : SUBSET {"opcode", "operand"}, value : Entries]
    BY Typed DEF Init
  <2>6. moves \in 0..MaxMoves /\ failures \in 0..MaxFailures
    BY BoundsAssumption DEF Init
  <2> QED
    BY <2>3, <2>4, <2>5, <2>6 DEF WorldTypeOK, Contents
<1>2. WatcherTypeOK
  BY Typed DEF Init, WatcherTypeOK, Steps, Protections
<1>3. HistoryTypeOK
  BY DEF Init, HistoryTypeOK
<1> QED
  BY <1>1, <1>2, <1>3 DEF TypeOK

\* The state stays in its types: the watcher and the game never leave the entry,
\* the slot or a check's target at a value the other side has no case for.
THEOREM TypeCorrect == Spec => []TypeOK
BY TypeInit, TypeStep, PTL DEF Spec

(* The redirect that is followed.                                          *)

\* What the two forms of a redirect look like and where they lead.
LEMMA Redirects ==
  ASSUME NEW e \in Entries, NEW s
  PROVE  /\ e.opcode = "ff25" /\ e.operand = "slot" <=> e = ThroughSlot
         /\ Resolved(ThroughSlot, s) = s
         /\ e.opcode = "e9" => Resolved(e, s) = Resolved(e, Nowhere)
<1>1. e.opcode = "ff25" /\ e.operand = "slot" <=> e = ThroughSlot
  BY DEF Entries, ThroughSlot
<1>2. Resolved(ThroughSlot, s) = s
  BY DEF Resolved, ThroughSlot
<1>3. e.opcode = "e9" => Resolved(e, s) = Resolved(e, Nowhere)
  BY DEF Resolved
<1> QED
  BY <1>1, <1>2, <1>3

\* A check in progress has a redirect in hand, so that the history notes it.
LEMMA ChasedHooks ==
  ASSUME TypeOK, HookInv, pc \in Chasing
  PROVE  hook # NoHook
BY DEF HookInv, NoHook, ThroughSlot, Original

\* A check that ends drops the redirect.
LEMMA EndsOffTheChase == EndCheck => pc' \notin Chasing /\ hook' = NoHook /\ wrote'
BY DEF EndCheck, Chasing

\* Every step keeps what the hook in hand says.
LEMMA HookStep ==
  ASSUME TypeOK, HookInv, [Next]_vars
  PROVE  HookInv'
<1>1. CASE ReadEntry
  <2>1. CASE EndCheck
    BY <2>1, EndsOffTheChase DEF HookInv, Chasing
  <2>2. CASE /\ entry.opcode = "e9" \/ (entry.opcode = "ff25" /\ entry.operand = "slot")
             /\ hook'.observed = entry
             /\ entry.opcode = "e9" => hook'.target = Resolved(entry, slot)
             /\ pc' = IF entry.opcode = "e9" THEN "revalidate" ELSE "slot"
    BY <2>2, Redirects DEF HookInv, Chasing, TypeOK, WorldTypeOK
  <2> QED
    BY <1>1, <2>1, <2>2 DEF ReadEntry, IsRedirect
<1>2. CASE ReadSlot
  BY <1>2 DEF ReadSlot, HookInv, Chasing, At, TypeOK, WatcherTypeOK
<1>3. CASE Revalidate("revalidate", "revalidateSlot", "query")
  BY <1>3, EndsOffTheChase DEF Revalidate, Goto, HookInv, Chasing, At
<1>4. CASE RevalidateSlot("revalidateSlot", "query")
  BY <1>4, EndsOffTheChase DEF RevalidateSlot, Goto, HookInv, Chasing, At
<1>5. CASE Query("query", "revalidateAgain")
  BY <1>5, EndsOffTheChase DEF Query, Goto, HookInv, Chasing, At
<1>6. CASE Revalidate("revalidateAgain", "revalidateSlotAgain", "queryAgain")
  BY <1>6, EndsOffTheChase DEF Revalidate, Goto, HookInv, Chasing, At
<1>7. CASE RevalidateSlot("revalidateSlotAgain", "queryAgain")
  BY <1>7, EndsOffTheChase DEF RevalidateSlot, Goto, HookInv, Chasing, At
<1>8. CASE Query("queryAgain", "unprotect")
  BY <1>8, EndsOffTheChase DEF Query, Goto, HookInv, Chasing, At
<1>9. CASE UnprotectPayload
  BY <1>9, EndsOffTheChase DEF UnprotectPayload, HookInv, Chasing, At
<1>10. CASE Fill("fill", "half", "fillRest")
  BY <1>10 DEF Fill, Goto, HookInv, Chasing, At
<1>11. CASE Fill("fillRest", "filled", "protect")
  BY <1>11 DEF Fill, Goto, HookInv, Chasing, At
<1>12. CASE ProtectPayload
  BY <1>12, EndsOffTheChase DEF ProtectPayload, Goto, HookInv, Chasing, At
<1>13. CASE CompareEntry
  BY <1>13, EndsOffTheChase DEF CompareEntry, Goto, HookInv, Chasing, At
<1>14. CASE UnprotectEntry
  BY <1>14, EndsOffTheChase DEF UnprotectEntry, HookInv, Chasing, At
<1>15. CASE CopyCell("copyOpcode", "opcode", "copyOperand")
  BY <1>15 DEF CopyCell, Goto, HookInv, Chasing, At
<1>16. CASE CopyCell("copyOperand", "operand", "protectEntry")
  BY <1>16 DEF CopyCell, Goto, HookInv, Chasing, At
<1>17. CASE ProtectEntry
  BY <1>17, EndsOffTheChase DEF ProtectEntry, HookInv, Chasing, At
<1>18. CASE Capture
  BY <1>18 DEF Capture, HookInv, Chasing, At
<1>19. CASE Spawn
  BY <1>19 DEF Spawn, HookInv, Chasing, At
<1>20. CASE WatchLoop
  BY <1>20 DEF WatchLoop, Goto, HookInv, Chasing, At
<1>21. ASSUME NEW t \in Targets, NEW e \in Written(t), BeginWrite(e, t) PROVE HookInv'
  BY <1>21 DEF BeginWrite, HookInv, watcher
<1>22. ASSUME NEW cell \in {"opcode", "operand"}, WriteCell(cell) PROVE HookInv'
  BY <1>22 DEF WriteCell, HookInv, watcher
<1>23. ASSUME NEW r \in Regions, Allocate(r) PROVE HookInv'
  BY <1>23 DEF Allocate, HookInv, watcher
<1>24. ASSUME NEW r \in Regions, Release(r) PROVE HookInv'
  BY <1>24 DEF Release, HookInv, watcher
<1>25. ASSUME NEW r \in Regions, NEW p \in {"ReadWrite", "ExecuteRead"}, Reprotect(r, p) PROVE HookInv'
  BY <1>25 DEF Reprotect, HookInv, watcher
<1>26. CASE UNCHANGED vars
  BY <1>26 DEF HookInv, vars, watcher
<1> QED
  BY <1>1, <1>2, <1>3, <1>4, <1>5, <1>6, <1>7, <1>8, <1>9, <1>10, <1>11, <1>12, <1>13, <1>14,
     <1>15, <1>16, <1>17, <1>18, <1>19, <1>20, <1>21, <1>22, <1>23, <1>24, <1>25, <1>26
  DEF Next, Check, Game

\* Without a check in progress nothing is claimed about aims.
LEMMA OffTheChaseAims == pc' \notin Chasing => AimInv'
BY DEF AimInv, Chasing

\* The order of the game's two stores, slot first, meets the order of the watcher's
\* looks, entry first: BeginWrite and the second Revalidate are where they decide.
LEMMA AimStep ==
  ASSUME TypeOK, HookInv, AimInv, [Next]_vars
  PROVE  AimInv'
<1>1. CASE ReadEntry
  <2>1. CASE EndCheck
    BY <2>1, EndsOffTheChase, OffTheChaseAims
  <2>2. CASE /\ aims' = {Resolved(entry, slot)}
             /\ pc' = IF entry.opcode = "e9" THEN "revalidate" ELSE "slot"
    BY <1>1, <2>2 DEF ReadEntry, AimInv, game
  <2> QED
    BY <1>1, <2>1, <2>2 DEF ReadEntry
<1>2. CASE ReadSlot
  BY <1>2 DEF ReadSlot, AimInv, Chasing, At, game, history
<1>3. CASE Revalidate("revalidate", "revalidateSlot", "query")
  <2>1. CASE EndCheck
    BY <2>1, EndsOffTheChase, OffTheChaseAims
  <2>2. CASE entry = hook.observed /\ entry.opcode = "ff25" /\ Goto("revalidateSlot")
    <3>1. entry = ThroughSlot /\ Resolved(entry, slot) = slot
      BY <1>3, <2>2, Redirects DEF Revalidate, HookInv, Chasing, At, TypeOK, WorldTypeOK
    <3> QED
      BY <1>3, <2>2, <3>1 DEF Revalidate, Goto, game, AimInv, SeenAimed, LeadsSoon, Chasing, At
  <2>3. CASE entry = hook.observed /\ entry.opcode # "ff25" /\ Goto("query")
    <3>1. hook.observed.opcode = "e9" /\ hook.target = Resolved(entry, slot)
      BY <1>3, <2>3, Redirects
      DEF Revalidate, HookInv, Chasing, At, TypeOK, WorldTypeOK, ThroughSlot
    <3>2. hook.observed # ThroughSlot
      BY <3>1 DEF ThroughSlot
    <3> QED
      BY <1>3, <2>3, <3>1, <3>2 DEF Revalidate, Goto, game, AimInv, SeenAimed, LeadsSoon, Chasing, At
  <2> QED
    BY <1>3, <2>1, <2>2, <2>3 DEF Revalidate
<1>4. CASE RevalidateSlot("revalidateSlot", "query")
  <2>1. CASE EndCheck
    BY <2>1, EndsOffTheChase, OffTheChaseAims
  <2>2. CASE ~EndCheck
    BY <1>4, <2>2 DEF RevalidateSlot, Goto, game, history, AimInv, SeenAimed, LeadsSoon, Chasing, At
  <2> QED
    BY <2>1, <2>2
<1>5. CASE Query("query", "revalidateAgain")
  <2>1. CASE EndCheck
    BY <2>1, EndsOffTheChase, OffTheChaseAims
  <2>2. CASE ~EndCheck
    BY <1>5, <2>2 DEF Query, Goto, game, history, AimInv, SeenAimed, LeadsSoon, Chasing, At
  <2> QED
    BY <2>1, <2>2
<1>6. CASE Revalidate("revalidateAgain", "revalidateSlotAgain", "queryAgain")
  <2>1. CASE EndCheck
    BY <2>1, EndsOffTheChase, OffTheChaseAims
  <2>2. CASE entry = hook.observed /\ entry.opcode = "ff25" /\ Goto("revalidateSlotAgain")
    <3>1. entry = ThroughSlot /\ Resolved(entry, slot) = slot
      BY <1>6, <2>2, Redirects DEF Revalidate, HookInv, Chasing, At, TypeOK, WorldTypeOK
    <3> QED
      BY <1>6, <2>2, <3>1 DEF Revalidate, Goto, game, AimInv, SeenAimed, LeadsSoon, Chasing, At
  <2>3. CASE entry = hook.observed /\ entry.opcode # "ff25" /\ Goto("queryAgain")
    <3>1. hook.observed.opcode = "e9" /\ hook.target = Resolved(entry, slot)
      BY <1>6, <2>3, Redirects
      DEF Revalidate, HookInv, Chasing, At, TypeOK, WorldTypeOK, ThroughSlot
    <3>2. hook.observed # ThroughSlot
      BY <3>1 DEF ThroughSlot
    <3> QED
      BY <1>6, <2>3, <3>1, <3>2 DEF Revalidate, Goto, game, AimInv, SeenAimed, LeadsSoon, Chasing, At
  <2> QED
    BY <1>6, <2>1, <2>2, <2>3 DEF Revalidate
<1>7. CASE RevalidateSlot("revalidateSlotAgain", "queryAgain")
  <2>1. CASE EndCheck
    BY <2>1, EndsOffTheChase, OffTheChaseAims
  <2>2. CASE ~EndCheck
    BY <1>7, <2>2 DEF RevalidateSlot, Goto, game, history, AimInv, SeenAimed, LeadsSoon, Chasing, At
  <2> QED
    BY <2>1, <2>2
<1>8. CASE Query("queryAgain", "unprotect")
  <2>1. CASE EndCheck
    BY <2>1, EndsOffTheChase, OffTheChaseAims
  <2>2. CASE ~EndCheck
    BY <1>8, <2>2 DEF Query, Goto, game, history, AimInv, SeenAimed, LeadsSoon, Chasing, At
  <2> QED
    BY <2>1, <2>2
<1>9. CASE UnprotectPayload
  <2>1. CASE EndCheck
    BY <2>1, EndsOffTheChase, OffTheChaseAims
  <2>2. CASE ~EndCheck
    BY <1>9, <2>2 DEF UnprotectPayload, game, history, AimInv, SeenAimed, LeadsSoon, Chasing, At
  <2> QED
    BY <2>1, <2>2
<1>10. CASE Fill("fill", "half", "fillRest")
  BY <1>10 DEF Fill, Goto, game, history, AimInv, SeenAimed, LeadsSoon, Chasing, At
<1>11. CASE Fill("fillRest", "filled", "protect")
  BY <1>11 DEF Fill, Goto, game, history, AimInv, SeenAimed, LeadsSoon, Chasing, At
<1>12. CASE ProtectPayload
  <2>1. CASE EndCheck
    BY <2>1, EndsOffTheChase, OffTheChaseAims
  <2>2. CASE ~EndCheck
    BY <1>12, <2>2 DEF ProtectPayload, Goto, game, history, AimInv, SeenAimed, LeadsSoon, Chasing, At
  <2> QED
    BY <2>1, <2>2
<1>13. CASE CompareEntry
  <2>1. CASE EndCheck
    BY <2>1, EndsOffTheChase, OffTheChaseAims
  <2>2. CASE ~EndCheck
    BY <1>13, <2>2 DEF CompareEntry, Goto, game, history, AimInv, SeenAimed, LeadsSoon, Chasing, At
  <2> QED
    BY <2>1, <2>2
<1>14. CASE UnprotectEntry
  <2>1. CASE EndCheck
    BY <2>1, EndsOffTheChase, OffTheChaseAims
  <2>2. CASE ~EndCheck
    BY <1>14, <2>2 DEF UnprotectEntry, game, history, AimInv, SeenAimed, LeadsSoon, Chasing, At
  <2> QED
    BY <2>1, <2>2
<1>15. CASE CopyCell("copyOpcode", "opcode", "copyOperand")
  BY <1>15, ChasedHooks DEF CopyCell, Goto, Note, game, AimInv, SeenAimed, LeadsSoon, Chasing, At
<1>16. CASE CopyCell("copyOperand", "operand", "protectEntry")
  BY <1>16, ChasedHooks DEF CopyCell, Goto, Note, game, AimInv, SeenAimed, LeadsSoon, Chasing, At
<1>17. CASE ProtectEntry
  BY <1>17, EndsOffTheChase, OffTheChaseAims DEF ProtectEntry
<1>18. CASE Capture
  BY <1>18, OffTheChaseAims DEF Capture, Chasing, At
<1>19. CASE Spawn
  BY <1>19, OffTheChaseAims DEF Spawn, Chasing, At
<1>20. CASE WatchLoop
  BY <1>20, OffTheChaseAims DEF WatchLoop, Goto, Chasing, At
<1>21. ASSUME NEW t \in Targets, NEW e \in Written(t), BeginWrite(e, t) PROVE AimInv'
  <2>1. CASE pc \notin Chasing
    BY <1>21, <2>1, OffTheChaseAims DEF BeginWrite, watcher
  <2>2. CASE pc \in Chasing
    <3>1. hook # NoHook /\ UNCHANGED <<entry, watcher, recycled>>
      BY <1>21, <2>2, ChasedHooks DEF BeginWrite
    <3>2. aims' = aims \cup {Resolved(entry, slot')}
      BY <1>21, <3>1 DEF BeginWrite, Note
    <3>3. Resolved(entry', slot') \in aims'
      BY <3>1, <3>2
    <3>4. ~LeadsSoon
      BY <1>21 DEF BeginWrite, LeadsSoon, Idle
    <3>5. slot' = hook.target /\ slot # slot' => SeenAimed' \/ LeadsSoon'
      <4>1. SUFFICES ASSUME slot' = hook.target, slot # slot', entry # ThroughSlot
                     PROVE  LeadsSoon'
        BY <3>1, <3>2, Redirects DEF SeenAimed, watcher, TypeOK, WorldTypeOK
      <4>2. e = ThroughSlot
        BY <1>21, <4>1 DEF BeginWrite, Written, ThroughSlot, Original
      <4> QED
        BY <1>21, <3>1, <4>1, <4>2 DEF BeginWrite, LeadsSoon, watcher
    <3>6. SeenAimed => SeenAimed'
      BY <3>1, <3>2 DEF SeenAimed, watcher
    <3> QED
      BY <2>2, <3>1, <3>3, <3>4, <3>5, <3>6 DEF AimInv, watcher
  <2> QED
    BY <2>1, <2>2
<1>22. ASSUME NEW cell \in {"opcode", "operand"}, WriteCell(cell) PROVE AimInv'
  <2>1. CASE pc \notin Chasing
    BY <1>22, <2>1, OffTheChaseAims DEF WriteCell, watcher
  <2>2. CASE pc \in Chasing
    <3>1. hook # NoHook /\ UNCHANGED <<slot, watcher, recycled>>
      BY <1>22, <2>2, ChasedHooks DEF WriteCell
    <3>2. aims' = aims \cup {Resolved(entry', slot)}
      BY <1>22, <3>1 DEF WriteCell, Note
    <3>3. Resolved(entry', slot') \in aims'
      BY <3>1, <3>2
    <3>4. SeenAimed => SeenAimed'
      BY <3>1, <3>2 DEF SeenAimed, watcher
    <3>5. LeadsSoon => SeenAimed' \/ LeadsSoon'
      <4>1. SUFFICES ASSUME LeadsSoon, entry' # ThroughSlot
                     PROVE  LeadsSoon'
        <5>1. CASE entry' = ThroughSlot
          <6>1. Resolved(ThroughSlot, slot) = slot
            BY Redirects DEF TypeOK, WorldTypeOK
          <6> QED
            BY <3>1, <3>2, <5>1, <6>1 DEF LeadsSoon, SeenAimed, watcher
        <5> QED
          BY <5>1
      <4>2. entry' = [entry EXCEPT ![cell] = ThroughSlot[cell]] /\ entry \in Entries
        BY <1>22, <4>1 DEF WriteCell, LeadsSoon, TypeOK, WorldTypeOK
      <4>3. \A c \in {"opcode", "operand"} \ (writing.cells \ {cell}) : entry'[c] = ThroughSlot[c]
        BY <4>1, <4>2 DEF LeadsSoon, Entries, ThroughSlot
      <4>4. writing.cells # {cell}
        BY <4>1, <4>2, <4>3 DEF Entries, ThroughSlot
      <4>5. /\ writing' = [writing EXCEPT !.cells = @ \ {cell}]
            /\ writing \in [cells : SUBSET {"opcode", "operand"}, value : Entries]
            /\ cell \in writing.cells
        BY <1>22, <4>4 DEF WriteCell, TypeOK, WorldTypeOK
      <4>6. writing'.cells = writing.cells \ {cell} /\ writing'.value = ThroughSlot
        BY <4>1, <4>5 DEF LeadsSoon
      <4>7. writing'.cells # {}
        BY <4>4, <4>5, <4>6
      <4> QED
        BY <3>1, <4>1, <4>3, <4>6, <4>7 DEF LeadsSoon, watcher
    <3> QED
      BY <2>2, <3>1, <3>3, <3>4, <3>5 DEF AimInv, watcher
  <2> QED
    BY <2>1, <2>2
<1>23. ASSUME NEW r \in Regions, Allocate(r) PROVE AimInv'
  <2>1. CASE pc \notin Chasing
    BY <1>23, <2>1, OffTheChaseAims DEF Allocate, watcher
  <2>2. CASE pc \in Chasing
    BY <1>23, <2>2, ChasedHooks DEF Allocate, Note, watcher, AimInv, SeenAimed, LeadsSoon
  <2> QED
    BY <2>1, <2>2
<1>24. ASSUME NEW r \in Regions, Release(r) PROVE AimInv'
  <2>1. CASE pc \notin Chasing
    BY <1>24, <2>1, OffTheChaseAims DEF Release, watcher
  <2>2. CASE pc \in Chasing
    BY <1>24, <2>2, ChasedHooks DEF Release, Note, watcher, AimInv, SeenAimed, LeadsSoon
  <2> QED
    BY <2>1, <2>2
<1>25. ASSUME NEW r \in Regions, NEW p \in {"ReadWrite", "ExecuteRead"}, Reprotect(r, p) PROVE AimInv'
  BY <1>25 DEF Reprotect, AimInv, SeenAimed, LeadsSoon, watcher, history
<1>26. CASE UNCHANGED vars
  BY <1>26 DEF AimInv, SeenAimed, LeadsSoon, vars, watcher, game, history
<1> QED
  BY <1>1, <1>2, <1>3, <1>4, <1>5, <1>6, <1>7, <1>8, <1>9, <1>10, <1>11, <1>12, <1>13, <1>14,
     <1>15, <1>16, <1>17, <1>18, <1>19, <1>20, <1>21, <1>22, <1>23, <1>24, <1>25, <1>26
  DEF Next, Check, Game

(* What is filled, and what is left writable.                              *)

\* Off the chase nothing is to be filled.
LEMMA OffTheChaseFills == pc' \notin Chasing /\ wrote' => FillInv'
BY DEF FillInv, Chasing

\* Every step keeps what the fill in hand says.
LEMMA FillStep ==
  ASSUME TypeOK, HookInv, FillInv, [Next]_vars
  PROVE  FillInv'
<1>1. CASE ReadEntry
  <2>1. CASE EndCheck
    BY <2>1, EndsOffTheChase, OffTheChaseFills
  <2>2. CASE ~EndCheck
    BY <1>1, <2>2 DEF ReadEntry, history, FillInv, TargetFilled, Chasing, At
  <2> QED
    BY <2>1, <2>2
<1>2. CASE ReadSlot
  BY <1>2 DEF ReadSlot, history, FillInv, TargetFilled, Chasing, At
<1>3. CASE Revalidate("revalidate", "revalidateSlot", "query")
  <2>1. CASE EndCheck
    BY <2>1, EndsOffTheChase, OffTheChaseFills
  <2>2. CASE ~EndCheck
    BY <1>3, <2>2 DEF Revalidate, Goto, history, FillInv, TargetFilled, Chasing, At
  <2> QED
    BY <2>1, <2>2
<1>4. CASE RevalidateSlot("revalidateSlot", "query")
  <2>1. CASE EndCheck
    BY <2>1, EndsOffTheChase, OffTheChaseFills
  <2>2. CASE ~EndCheck
    BY <1>4, <2>2 DEF RevalidateSlot, Goto, history, FillInv, TargetFilled, Chasing, At
  <2> QED
    BY <2>1, <2>2
<1>5. CASE Query("query", "revalidateAgain")
  <2>1. CASE EndCheck
    BY <2>1, EndsOffTheChase, OffTheChaseFills
  <2>2. CASE ~EndCheck
    BY <1>5, <2>2 DEF Query, Goto, history, FillInv, TargetFilled, Chasing, At, PrivateExecutable, Allocated
  <2> QED
    BY <2>1, <2>2
<1>6. CASE Revalidate("revalidateAgain", "revalidateSlotAgain", "queryAgain")
  <2>1. CASE EndCheck
    BY <2>1, EndsOffTheChase, OffTheChaseFills
  <2>2. CASE ~EndCheck
    BY <1>6, <2>2 DEF Revalidate, Goto, history, FillInv, TargetFilled, Chasing, At
  <2> QED
    BY <2>1, <2>2
<1>7. CASE RevalidateSlot("revalidateSlotAgain", "queryAgain")
  <2>1. CASE EndCheck
    BY <2>1, EndsOffTheChase, OffTheChaseFills
  <2>2. CASE ~EndCheck
    BY <1>7, <2>2 DEF RevalidateSlot, Goto, history, FillInv, TargetFilled, Chasing, At
  <2> QED
    BY <2>1, <2>2
<1>8. CASE Query("queryAgain", "unprotect")
  <2>1. CASE EndCheck
    BY <2>1, EndsOffTheChase, OffTheChaseFills
  <2>2. CASE ~EndCheck
    BY <1>8, <2>2 DEF Query, Goto, history, FillInv, TargetFilled, Chasing, At, PrivateExecutable, Allocated
  <2> QED
    BY <2>1, <2>2
<1>9. CASE UnprotectPayload
  <2>1. CASE EndCheck
    BY <2>1, EndsOffTheChase, OffTheChaseFills
  <2>2. CASE ~EndCheck
    BY <1>9, <2>2 DEF UnprotectPayload, history, FillInv, TargetFilled, Chasing, At, TypeOK, WorldTypeOK
  <2> QED
    BY <2>1, <2>2
<1>10. CASE Fill("fill", "half", "fillRest")
  BY <1>10 DEF Fill, Goto, history, FillInv, TargetFilled, Chasing, At, TypeOK, WorldTypeOK
<1>11. CASE Fill("fillRest", "filled", "protect")
  <2>1. hook.target \in Regions
    BY <1>11 DEF Fill, FillInv, At
  <2>2. ASSUME region' = [region EXCEPT ![hook.target].code = "filled"]
        PROVE  region'[hook.target].code = "filled"
    BY <2>1, <2>2 DEF TypeOK, WorldTypeOK
  <2> QED
    BY <1>11, <2>1, <2>2 DEF Fill, Goto, history, FillInv, TargetFilled, Chasing, At
<1>12. CASE ProtectPayload
  <2>1. CASE EndCheck
    BY <2>1, EndsOffTheChase, OffTheChaseFills
  <2>2. CASE ~EndCheck
    BY <1>12, <2>2 DEF ProtectPayload, Goto, history, FillInv, TargetFilled, Chasing, At, TypeOK, WorldTypeOK
  <2> QED
    BY <2>1, <2>2
<1>13. CASE CompareEntry
  <2>1. CASE EndCheck
    BY <2>1, EndsOffTheChase, OffTheChaseFills
  <2>2. CASE ~EndCheck
    BY <1>13, <2>2 DEF CompareEntry, Goto, history, FillInv, TargetFilled, Chasing, At
  <2> QED
    BY <2>1, <2>2
<1>14. CASE UnprotectEntry
  <2>1. CASE EndCheck
    BY <2>1, EndsOffTheChase, OffTheChaseFills
  <2>2. CASE ~EndCheck
    BY <1>14, <2>2 DEF UnprotectEntry, history, FillInv, TargetFilled, Chasing, At
  <2> QED
    BY <2>1, <2>2
<1>15. CASE CopyCell("copyOpcode", "opcode", "copyOperand")
  BY <1>15 DEF CopyCell, Goto, FillInv, TargetFilled, Chasing, At
<1>16. CASE CopyCell("copyOperand", "operand", "protectEntry")
  BY <1>16 DEF CopyCell, Goto, FillInv, TargetFilled, Chasing, At
<1>17. CASE ProtectEntry
  BY <1>17, EndsOffTheChase, OffTheChaseFills DEF ProtectEntry
<1>18. CASE Capture
  BY <1>18 DEF Capture, history, FillInv, TargetFilled, Chasing, At
<1>19. CASE Spawn
  BY <1>19 DEF Spawn, history, FillInv, TargetFilled, Chasing, At
<1>20. CASE WatchLoop
  BY <1>20 DEF WatchLoop, Goto, history, FillInv, TargetFilled, Chasing, At
<1>21. ASSUME NEW t \in Targets, NEW e \in Written(t), BeginWrite(e, t) PROVE FillInv'
  BY <1>21 DEF BeginWrite, watcher, FillInv, TargetFilled
<1>22. ASSUME NEW cell \in {"opcode", "operand"}, WriteCell(cell) PROVE FillInv'
  <2>1. CASE pc \notin Chasing
    BY <1>22, <2>1 DEF WriteCell, watcher, FillInv, TargetFilled, Chasing, At
  <2>2. CASE pc \in Chasing
    BY <1>22, <2>2, ChasedHooks DEF WriteCell, watcher, FillInv, TargetFilled, Chasing, At
  <2> QED
    BY <2>1, <2>2
<1>23. ASSUME NEW r \in Regions, Allocate(r) PROVE FillInv'
  <2>1. region[r].code # "filled"
    BY <1>23 DEF Allocate, Free
  <2>2. \A t \in Regions : region[t].code = "filled" => region'[t].code = "filled"
    BY <1>23, <2>1 DEF Allocate, TypeOK, WorldTypeOK
  <2> QED
    BY <1>23, <2>2 DEF Allocate, watcher, FillInv, TargetFilled, Chasing, At
<1>24. ASSUME NEW r \in Regions, Release(r) PROVE FillInv'
  <2>1. \A t \in Regions \ {r} : region'[t] = region[t]
    BY <1>24 DEF Release, TypeOK, WorldTypeOK
  <2>2. hook.target \in Regions /\ TargetFilled => TargetFilled'
    BY <1>24, <2>1 DEF Release, watcher, TargetFilled
  <2> QED
    BY <1>24, <2>2 DEF Release, watcher, FillInv, TargetFilled, Chasing, At
<1>25. ASSUME NEW r \in Regions, NEW p \in {"ReadWrite", "ExecuteRead"}, Reprotect(r, p) PROVE FillInv'
  <2>1. \A t \in Regions : region'[t].code = region[t].code
    BY <1>25 DEF Reprotect, TypeOK, WorldTypeOK
  <2> QED
    BY <1>25, <2>1 DEF Reprotect, watcher, history, FillInv, TargetFilled, Chasing, At
<1>26. CASE UNCHANGED vars
  BY <1>26 DEF FillInv, TargetFilled, vars, watcher, history
<1> QED
  BY <1>1, <1>2, <1>3, <1>4, <1>5, <1>6, <1>7, <1>8, <1>9, <1>10, <1>11, <1>12, <1>13, <1>14,
     <1>15, <1>16, <1>17, <1>18, <1>19, <1>20, <1>21, <1>22, <1>23, <1>24, <1>25, <1>26
  DEF Next, Check, Game

\* Every step keeps writable payloads in hand.
LEMMA WritableStep ==
  ASSUME TypeOK, HookInv, WritableInv, [Next]_vars
  PROVE  WritableInv'
<1>1. CASE ReadEntry
  BY <1>1 DEF ReadEntry, ReadEntry, EndCheck, At, WritableInv
<1>2. CASE ReadSlot
  BY <1>2 DEF ReadSlot, ReadSlot, At, WritableInv
<1>3. CASE Revalidate("revalidate", "revalidateSlot", "query")
  BY <1>3 DEF Revalidate, Revalidate, EndCheck, Goto, At, WritableInv
<1>4. CASE RevalidateSlot("revalidateSlot", "query")
  BY <1>4 DEF RevalidateSlot, RevalidateSlot, EndCheck, Goto, At, WritableInv
<1>5. CASE Query("query", "revalidateAgain")
  BY <1>5 DEF Query, Query, EndCheck, Goto, At, WritableInv
<1>6. CASE Revalidate("revalidateAgain", "revalidateSlotAgain", "queryAgain")
  BY <1>6 DEF Revalidate, Revalidate, EndCheck, Goto, At, WritableInv
<1>7. CASE RevalidateSlot("revalidateSlotAgain", "queryAgain")
  BY <1>7 DEF RevalidateSlot, RevalidateSlot, EndCheck, Goto, At, WritableInv
<1>8. CASE Query("queryAgain", "unprotect")
  BY <1>8 DEF Query, Query, EndCheck, Goto, At, WritableInv
<1>9. CASE UnprotectPayload
  <2>1. CASE EndCheck /\ UNCHANGED region
    BY <1>9, <2>1 DEF UnprotectPayload, EndCheck, Fail, At, WritableInv, TypeOK, WorldTypeOK
  <2>2. CASE /\ Allocated(hook.target)
             /\ oldProtection' = region[hook.target].protection
             /\ region' = [region EXCEPT ![hook.target].protection = "ExecuteReadWrite"]
             /\ pc' = "fill"
             /\ UNCHANGED <<hook, failures>>
    <3>1. \A r \in Regions \ {hook.target} : region'[r] = region[r]
      BY <2>2 DEF TypeOK, WorldTypeOK
    <3>2. hook.target \in Regions /\ region'[hook.target].state = "private"
      BY <2>2 DEF Allocated, TypeOK, WorldTypeOK
    <3> QED
      BY <1>9, <2>2, <3>1, <3>2 DEF UnprotectPayload, At, WritableInv
  <2> QED
    BY <1>9, <2>1, <2>2 DEF UnprotectPayload
<1>10. CASE Fill("fill", "half", "fillRest")
  <2>1. CASE UNCHANGED region
    BY <1>10, <2>1 DEF Fill, Goto, At, WritableInv
  <2>2. CASE Allocated(hook.target) /\ \E code \in {"half", "filled"} :
               region' = [region EXCEPT ![hook.target].code = code]
    <3>1. \A r \in Regions : /\ region'[r].protection = region[r].protection
                             /\ region'[r].state = region[r].state
                             /\ region[r].state = "free" => region'[r] = region[r]
      BY <2>2 DEF Allocated, TypeOK, WorldTypeOK
    <3> QED
      BY <1>10, <2>2, <3>1 DEF Fill, Goto, At, WritableInv
  <2> QED
    BY <1>10, <2>1, <2>2 DEF Fill, FitsToWrite
<1>11. CASE Fill("fillRest", "filled", "protect")
  <2>1. CASE UNCHANGED region
    BY <1>11, <2>1 DEF Fill, Goto, At, WritableInv
  <2>2. CASE Allocated(hook.target) /\ \E code \in {"half", "filled"} :
               region' = [region EXCEPT ![hook.target].code = code]
    <3>1. \A r \in Regions : /\ region'[r].protection = region[r].protection
                             /\ region'[r].state = region[r].state
                             /\ region[r].state = "free" => region'[r] = region[r]
      BY <2>2 DEF Allocated, TypeOK, WorldTypeOK
    <3> QED
      BY <1>11, <2>2, <3>1 DEF Fill, Goto, At, WritableInv
  <2> QED
    BY <1>11, <2>1, <2>2 DEF Fill, FitsToWrite
<1>12. CASE ProtectPayload
  <2> DEFINE putBack == [region EXCEPT ![hook.target].protection = oldProtection]
  <2>1. CASE failures' = failures + 1
    <3>1. \A r \in Regions : region'[r].state = "free" => region'[r] = region[r]
      BY <1>12, <2>1 DEF ProtectPayload, Allocated, TypeOK, WorldTypeOK
    <3>2. \A r \in Regions : region'[r].state = region[r].state
      BY <1>12, <2>1 DEF ProtectPayload, Allocated, TypeOK, WorldTypeOK
    <3> QED
      BY <2>1, <3>1, <3>2 DEF WritableInv, TypeOK, WorldTypeOK
  <2>2. CASE Allocated(hook.target) /\ region' = putBack /\ UNCHANGED failures
    <3>1. \A r \in Regions \ {hook.target} : region'[r] = region[r]
      BY <2>2 DEF TypeOK, WorldTypeOK
    <3>2. /\ hook.target \in Regions /\ region'[hook.target].state = "private"
          /\ region'[hook.target].protection = oldProtection
      BY <2>2 DEF Allocated, TypeOK, WorldTypeOK
    <3>3. pc = "protect" /\ pc' \in {"compare", "sleep", "spawn"}
      BY <1>12 DEF ProtectPayload, EndCheck, Goto, At
    <3> QED
      BY <2>2, <3>1, <3>2, <3>3 DEF WritableInv
  <2>3. CASE ~Allocated(hook.target) /\ EndCheck /\ UNCHANGED <<region, failures>>
    BY <1>12, <2>3 DEF EndCheck, WritableInv, Allocated, Free, TypeOK, WorldTypeOK
  <2> QED
    BY <1>12, <2>1, <2>2, <2>3 DEF ProtectPayload, Fail
<1>13. CASE CompareEntry
  BY <1>13 DEF CompareEntry, CompareEntry, EndCheck, Goto, At, WritableInv
<1>14. CASE UnprotectEntry
  BY <1>14 DEF UnprotectEntry, UnprotectEntry, EndCheck, Fail, At, WritableInv, TypeOK, WorldTypeOK
<1>15. CASE CopyCell("copyOpcode", "opcode", "copyOperand")
  BY <1>15 DEF CopyCell, CopyCell, Goto, At, WritableInv
<1>16. CASE CopyCell("copyOperand", "operand", "protectEntry")
  BY <1>16 DEF CopyCell, CopyCell, Goto, At, WritableInv
<1>17. CASE ProtectEntry
  BY <1>17 DEF ProtectEntry, ProtectEntry, EndCheck, Fail, At, WritableInv, TypeOK, WorldTypeOK
<1>18. CASE Capture
  BY <1>18 DEF Capture, Capture, Fail, At, WritableInv, TypeOK, WorldTypeOK
<1>19. CASE Spawn
  BY <1>19 DEF Spawn, Spawn, Fail, At, WritableInv, TypeOK, WorldTypeOK
<1>20. CASE WatchLoop
  BY <1>20 DEF WatchLoop, WatchLoop, Goto, At, WritableInv
<1>21. ASSUME NEW t \in Targets, NEW e \in Written(t), BeginWrite(e, t) PROVE WritableInv'
  BY <1>21 DEF BeginWrite, WritableInv, watcher
<1>22. ASSUME NEW cell \in {"opcode", "operand"}, WriteCell(cell) PROVE WritableInv'
  BY <1>22 DEF WriteCell, WritableInv, watcher
<1>23. ASSUME NEW r \in Regions, Allocate(r) PROVE WritableInv'
  <2>1. \A t \in Regions \ {r} : region'[t] = region[t]
    BY <1>23 DEF Allocate, TypeOK, WorldTypeOK
  <2>2. region'[r].protection = "ReadWrite" /\ region'[r].state = "private"
    BY <1>23 DEF Allocate, Payload, TypeOK, WorldTypeOK
  <2> QED
    BY <1>23, <2>1, <2>2 DEF Allocate, WritableInv, watcher
<1>24. ASSUME NEW r \in Regions, Release(r) PROVE WritableInv'
  <2>1. \A t \in Regions \ {r} : region'[t] = region[t]
    BY <1>24 DEF Release, TypeOK, WorldTypeOK
  <2>2. region'[r] = Free
    BY <1>24 DEF Release, Free, TypeOK, WorldTypeOK
  <2> QED
    BY <1>24, <2>1, <2>2 DEF Release, WritableInv, watcher, Free
<1>25. ASSUME NEW r \in Regions, NEW p \in {"ReadWrite", "ExecuteRead"}, Reprotect(r, p) PROVE WritableInv'
  <2>1. \A t \in Regions \ {r} : region'[t] = region[t]
    BY <1>25 DEF Reprotect, TypeOK, WorldTypeOK
  <2>2. region'[r].protection = p /\ region'[r].state = "private"
    BY <1>25 DEF Reprotect, TypeOK, WorldTypeOK
  <2> QED
    BY <1>25, <2>1, <2>2 DEF Reprotect, WritableInv, watcher
<1>26. CASE UNCHANGED vars
  BY <1>26 DEF WritableInv, vars, watcher
<1> QED
  BY <1>1, <1>2, <1>3, <1>4, <1>5, <1>6, <1>7, <1>8, <1>9, <1>10, <1>11, <1>12, <1>13, <1>14,
     <1>15, <1>16, <1>17, <1>18, <1>19, <1>20, <1>21, <1>22, <1>23, <1>24, <1>25, <1>26
  DEF Next, Check, Game
-----------------------------------------------------------------------------
\* The invariant at first.
LEMMA InvInit == Init => IInv
<1> SUFFICES ASSUME Init
             PROVE  IInv
  OBVIOUS
<1>1. TypeOK
  BY TypeInit
<1>2. pc \notin Chasing /\ hook = NoHook /\ wrote
  BY DEF Init, Chasing
<1>3. HookInv /\ AimInv /\ FillInv
  BY <1>2 DEF HookInv, AimInv, FillInv, Chasing
<1>4. WritableInv
  <2>1. \A r \in Regions : region[r] \in {Free, Payload}
    BY DEF Init
  <2> QED
    BY <1>2, <2>1 DEF WritableInv, Chasing, Free, Payload
<1> QED
  BY <1>1, <1>3, <1>4 DEF IInv

\* Every step keeps the invariant.
LEMMA InvStep == IInv /\ [Next]_vars => IInv'
BY TypeStep, HookStep, AimStep, FillStep, WritableStep DEF IInv

\* The invariant, whatever the game does.
LEMMA InvAlways == Spec => []IInv
BY InvInit, InvStep, PTL DEF Spec

\* NeutralizePayload fills only where the entry was seen to lead: looking at the
\* entry, the slot and both again decides, because the game stores the slot
\* before the entry and the second look finds the entry written.
THEOREM AimedCorrect == Spec => []FillsOnlyAimed
<1>1. IInv => FillsOnlyAimed
  BY DEF IInv, AimInv, SeenAimed, FillsOnlyAimed
<1> QED
  BY <1>1, InvAlways, PTL

\* RestoreEntry overwrites the observed redirect only, and only after its
\* payload was filled to the end: a fault or a refused call never lets it past.
THEOREM RestoreCorrect == Spec => []RestoresWhatItNeutralized
<1>1. IInv => RestoresWhatItNeutralized
  BY DEF IInv, FillInv, TargetFilled, RestoresWhatItNeutralized
<1> QED
  BY <1>1, InvAlways, PTL

\* Unless the system refuses a call, NeutralizePayload puts the protection of
\* every payload region back before it is left.
THEOREM WritableCorrect == Spec => []NothingLeftWritable
<1>1. IInv => NothingLeftWritable
  BY DEF IInv, WritableInv, NothingLeftWritable
<1> QED
  BY <1>1, InvAlways, PTL
=============================================================================
