------------------------------ MODULE PathWalk ------------------------------
(***************************************************************************)
(* memory/MemoryScan.cpp: FindPatternInPath, the walk over the code that   *)
(* can be reached from an instruction.  Paths are taken from a worklist,   *)
(* the newest first; each may go on for maxSize instructions, all of them  *)
(* for globalBudget, and no instruction is visited twice.                  *)
(*                                                                         *)
(* Addresses number instructions; those outside Code cannot be read.       *)
(***************************************************************************)
EXTENDS Naturals, Sequences

CONSTANTS Addresses,    \* addresses control can get to
          Code,         \* those at which an instruction can be read
          maxSize,      \* instructions of a path
          globalBudget  \* instructions of the walk

ASSUME CodeAssumption ==
  Addresses \subseteq Nat /\ Code \subseteq Addresses /\ \A a \in Code : a + 1 \in Addresses
ASSUME LimitsAssumption == maxSize \in Nat \ {0} /\ globalBudget \in Nat \ {0}

VARIABLES
  insn,      \* address -> kind and target of the instruction there
  entry,     \* where the walk starts
  matches,   \* addresses at which the pattern matches
  walk,      \* "path", "pop", "found" or "none"
  worklist,
  visited,
  cursor,
  steps,     \* instructions of this path
  budget,    \* what is left of globalBudget
  cut        \* history: a limit ended a path that was not at its end

walkVars == <<insn, entry, matches, walk, worklist, visited, cursor, steps, budget, cut>>
program == <<insn, entry, matches>>
-----------------------------------------------------------------------------
\* Where control may go from a: nowhere from an instruction that cannot be read.
Successors(a) ==
  IF a \notin Code THEN {}
  ELSE CASE insn[a].kind = "next" -> {a + 1}
         [] insn[a].kind = "jump" -> {insn[a].target}
         [] insn[a].kind = "cond" -> {a + 1, insn[a].target}
         [] OTHER -> {}

\* worklist.back() and pop_back().
Pop ==
  /\ walk = "pop"
  /\ IF worklist # <<>> /\ budget > 0
     THEN /\ cursor' = worklist[Len(worklist)]
          /\ worklist' = SubSeq(worklist, 1, Len(worklist) - 1)
          /\ steps' = 0
          /\ walk' = "path"
          /\ UNCHANGED cut
     ELSE /\ walk' = "none"
          /\ cut' = (cut \/ worklist # <<>>)
          /\ UNCHANGED <<worklist, cursor, steps>>
  /\ UNCHANGED <<program, visited, budget>>

\* The path goes on to next, or stops short of it at a limit.
GoOn(next) == IF steps + 1 < maxSize /\ budget > 1
              THEN cursor' = next /\ walk' = "path" /\ UNCHANGED cut
              ELSE walk' = "pop" /\ cut' = TRUE /\ UNCHANGED cursor

\* Mutated Queue: the conditional branch is never taken.
Unqueued(target) == UNCHANGED worklist

\* worklist.push_back(b.target)
Queue(target) == worklist' = Append(worklist, target)

EndPath == walk' = "pop" /\ UNCHANGED <<cursor, cut>>

\* One turn of the inner loop.
Visit ==
  /\ walk = "path"
  /\ steps' = steps + 1
  /\ budget' = budget - 1
  /\ visited' = visited \cup {cursor}
  /\ IF cursor \in visited \/ cursor \notin Code
     THEN EndPath /\ UNCHANGED worklist
     ELSE IF cursor \in matches
     THEN walk' = "found" /\ UNCHANGED <<worklist, cursor, cut>>
     ELSE CASE insn[cursor].kind = "jump" ->
                 /\ IF insn[cursor].target # cursor THEN GoOn(insn[cursor].target) ELSE EndPath
                 /\ UNCHANGED worklist
            [] insn[cursor].kind = "cond" ->
                 /\ Queue(insn[cursor].target)
                 /\ GoOn(cursor + 1)
            [] insn[cursor].kind = "next" -> GoOn(cursor + 1) /\ UNCHANGED worklist
            [] OTHER -> EndPath /\ UNCHANGED worklist
  /\ UNCHANGED program

WalkStep == Pop \/ Visit
-----------------------------------------------------------------------------
\* ClassifyBranch: DirectUncond and IndirectResolvable; DirectCond; a terminator
\* or a decode error; NotABranch and Call; IndirectUnresolvable.
Instructions == [kind : {"jump", "cond"}, target : Addresses]
           \cup [kind : {"stop", "next", "lost"}, target : {0}]

WalkInit ==
  /\ insn \in [Code -> Instructions]
  /\ entry \in Code
  /\ matches \in SUBSET Code
  /\ walk = "pop"
  /\ worklist = <<entry>>
  /\ visited = {}
  /\ cursor = entry
  /\ steps = 0
  /\ budget = globalBudget
  /\ cut = FALSE

WalkSpec == WalkInit /\ [][WalkStep]_walkVars
-----------------------------------------------------------------------------
(* Properties.                                                             *)

Closed(S) == \A a \in S : Successors(a) \subseteq S

\* "Returns the first reachable instruction boundary where `pattern` matches":
\* what is found is in every closed set that holds the entry; when nothing is
\* found, some such set holds no match, unless a limit cut a path short.
WalkExact ==
  /\ walk = "found" =>
       /\ cursor \in matches \intersect Code
       /\ \A S \in SUBSET Addresses : entry \in S /\ Closed(S) => cursor \in S
  /\ walk = "none" /\ ~cut =>
       \E S \in SUBSET Addresses : entry \in S /\ Closed(S) /\ S \intersect Code \intersect matches = {}
=============================================================================
