----------------------------- MODULE MemoryScan -----------------------------
(***************************************************************************)
(* memory/MemoryScan.cpp: ScanParsed, the search for a byte pattern that   *)
(* every layer's discovery is made of.  It compares address by address     *)
(* inside one guarded block; a fault ends the attempt, and the next one    *)
(* begins past the region, as VirtualQuery reports it now, that holds the  *)
(* address the attempt STARTED at.  The game may change the protection of  *)
(* its pages between any two of these steps.                               *)
(*                                                                         *)
(* The bytes of the image are constant: what is searched for is code.      *)
(* Patterns with gaps ("*[5]") are left out; without them Scan's call of   *)
(* ScanCompiled is one of ScanParsed.                                      *)
(***************************************************************************)
EXTENDS Naturals, Sequences

CONSTANTS Image,       \* the bytes of the main module
          PageSize,
          Wild,        \* the byte a pattern's "?" stands for
          Patterns,    \* the patterns that are searched for
          MaxChanges   \* bound on the changes of page protections

ASSUME ImageAssumption ==
  /\ PageSize \in Nat \ {0} /\ MaxChanges \in Nat
  /\ Len(Image) \in Nat \ {0} /\ DOMAIN Image = 1..Len(Image) /\ Len(Image) % PageSize = 0
  /\ \A a \in DOMAIN Image : Image[a] # Wild

\* Every pattern of the source begins with a byte and is shorter than a page.
ASSUME PatternsAssumption ==
  \A pattern \in Patterns :
    /\ Len(pattern) \in 1..PageSize /\ DOMAIN pattern = 1..Len(pattern)
    /\ pattern[1] # Wild

Pages == 1..Len(Image) \div PageSize
PageOf(a) == (a - 1) \div PageSize + 1
Protections == {"NoAccess", "ReadOnly", "ExecuteRead"}

VARIABLES
  protection,  \* page -> its protection
  changes,     \* how often the game changed one
  scan,        \* ScanParsed: its arguments, and where its loops are
  steady,      \* history: pages readable ever since the scan began
  raced        \* history: a protection changed between a fault and the query

memory == <<protection, changes>>
scanVars == <<scan, steady, raced>>
-----------------------------------------------------------------------------
IsReadable(a) == a \in DOMAIN Image /\ protection[PageOf(a)] # "NoAccess"

ReadablePages == {p \in Pages : protection[p] # "NoAccess"}

\* The positions of a pattern that are not wildcards; only these are read.
Fixed(pattern) == {j \in DOMAIN pattern : pattern[j] # Wild}

Agrees(pattern, a, j) == Image[a + j - 1] = pattern[j]

Matches(pattern, a) == \A j \in Fixed(pattern) : Agrees(pattern, a, j)

\* The bytes are read in order up to the first that differs.
Faults(pattern, a) ==
  \E j \in Fixed(pattern) :
    /\ ~IsReadable(a + j - 1)
    /\ \A i \in Fixed(pattern) : i < j => Agrees(pattern, a, i)

\* Mutated RegionEnd: one page on from the address, not from its page.
NextPage(a) == a + PageSize

\* SkipUnreadableRegion: the end of the run of pages protected like a's, as
\* VirtualQuery reports it, which cannot fail for an address of the image.
RegionEnd(a) ==
  LET others == {p \in Pages : p > PageOf(a) /\ protection[p] # protection[PageOf(a)]}
  IN  IF others = {} THEN Len(Image) + 1
      ELSE LET p == CHOOSE p \in others : \A q \in others : p <= q
           IN  (p - 1) * PageSize + 1
-----------------------------------------------------------------------------
NoScan == [pattern |-> <<>>, start |-> 0, last |-> 0, addr |-> 0, a |-> 0, phase |-> "idle"]

\* The state of ScanParsed(start, end - start, pattern) when it is called.
Scanning(pattern, start, end) ==
  [pattern |-> pattern, start |-> start, last |-> end - Len(pattern), addr |-> start, a |-> start,
   phase |-> IF start + Len(pattern) <= end THEN "compare" ELSE "miss"]

BeginScan(pattern, start, end) == /\ scan' = Scanning(pattern, start, end)
                                  /\ steady' = ReadablePages
                                  /\ raced' = FALSE

EndScan == scan' = NoScan /\ steady' = {} /\ raced' = FALSE

\* One address of the guarded loop.
Compare ==
  /\ scan.phase = "compare"
  /\ scan' = IF Faults(scan.pattern, scan.a) THEN [scan EXCEPT !.phase = "faulted"]
             ELSE IF Matches(scan.pattern, scan.a) THEN [scan EXCEPT !.phase = "hit"]
             ELSE IF scan.a = scan.last THEN [scan EXCEPT !.phase = "miss"]
             ELSE [scan EXCEPT !.a = @ + 1]
  /\ UNCHANGED <<steady, raced>>

\* After a fault: addr = SkipUnreadableRegion(addr).
Skip ==
  /\ scan.phase = "faulted"
  /\ LET next == RegionEnd(scan.addr)
     IN  scan' = [scan EXCEPT !.addr = next, !.a = next,
                              !.phase = IF next <= scan.last THEN "compare" ELSE "miss"]
  /\ UNCHANGED <<steady, raced>>

ScanStep == (Compare \/ Skip) /\ UNCHANGED memory

\* The game changes the protection of one of its pages.
Protect(p, prot) ==
  /\ changes < MaxChanges
  /\ protection[p] # prot
  /\ protection' = [protection EXCEPT ![p] = prot]
  /\ changes' = changes + 1
  /\ steady' = IF prot = "NoAccess" THEN steady \ {p} ELSE steady
  /\ raced' = (raced \/ scan.phase = "faulted")
  /\ UNCHANGED scan

MemoryInit == /\ protection \in [Pages -> Protections]
              /\ changes = 0
              /\ scan = NoScan
              /\ steady = {}
              /\ raced = FALSE

\* A client looks for one pattern after another.
Client ==
  /\ scan.phase \in {"idle", "hit", "miss"}
  /\ \/ EndScan
     \/ \E pattern \in Patterns, start, end \in 1..Len(Image) + 1 : BeginScan(pattern, start, end)
  /\ UNCHANGED memory

ScanNext == Client \/ ScanStep \/ \E p \in Pages, prot \in Protections : Protect(p, prot)

ScanSpec == MemoryInit /\ [][ScanNext]_<<memory, scanVars>>
-----------------------------------------------------------------------------
(* Properties.                                                             *)

Phases == {"idle", "compare", "faulted", "hit", "miss"}

MemoryTypeOK ==
  /\ protection \in [Pages -> Protections]
  /\ changes \in 0..MaxChanges
  /\ scan.phase \in Phases
  /\ scan.phase \in {"compare", "faulted", "hit"} =>
       scan.start <= scan.addr /\ scan.addr <= scan.a /\ scan.a <= scan.last
  /\ steady \subseteq Pages
  /\ raced \in BOOLEAN

\* The pages a match at a is read from.
PagesRead(pattern, a) == {PageOf(a + j - 1) : j \in Fixed(pattern)}

\* "First occurrence of a pattern within [start, start+length)": whatever pages
\* come and go, an occurrence is passed over only if part of it was unreadable
\* at some time, or a protection changed while the fault was being handled.
FirstOccurrence ==
  /\ scan.phase = "hit" => Matches(scan.pattern, scan.a)
  /\ scan.phase \in {"hit", "miss"} /\ ~raced =>
       \A a \in scan.start..scan.last :
         Matches(scan.pattern, a) /\ PagesRead(scan.pattern, a) \subseteq steady =>
           scan.phase = "hit" /\ scan.a <= a
=============================================================================
