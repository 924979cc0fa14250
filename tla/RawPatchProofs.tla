--------------------------- MODULE RawPatchProofs ---------------------------
(* Proofs about RawPatch, for any threads, image, pages and candidates.    *)
EXTENDS RawPatch, ThreadSuspensionProofs, WellFoundedInduction

Window == phase = "window" /\ ok

PatchTypes ==
  /\ bytes \in [Cells -> Bytes]
  /\ protection \in [Pages -> Protections]
  /\ current \in Listed \cup {NoCandidate}
  /\ step \in Steps
  /\ oldProtect \in Protections
  /\ copied \subseteq Cells
  /\ outcome \in [Listed -> Outcomes]
  /\ before \in [bytes : [Cells -> Bytes], protection : [Pages -> Protections]]

\* A commit runs in a window that is open, on a candidate that has no outcome yet.
PatchShape ==
  /\ owner \in Patchers \cup {None}
  /\ step # "idle" => /\ Window
                      /\ current \in Listed /\ WellFormed(current)
                      /\ outcome[current] = "None"
  /\ step = "idle" => current = NoCandidate /\ copied = {}
  /\ step \in {"already", "expected", "executable", "unprotect"} => copied = {}
  /\ step = "copy" => copied \subseteq current.replacement /\ copied # current.replacement
  /\ step = "restore" => copied \subseteq current.replacement
  /\ step = "verify" => copied = current.replacement
  /\ ~Window => outcome = NoOutcome

\* What has been compared still holds when it is acted upon.
Matched ==
  /\ step \in {"executable", "unprotect"} \/ (step \in {"copy", "restore"} /\ copied = {}) =>
       \A a \in current.expected : bytes[a] = "expected"
  /\ step \in {"unprotect", "copy", "restore"} =>
       (current.requireUnwindFunctionStart => current.isFunctionStart)

\* The candidates still to come have no outcome.
WorkLeft(n) ==
  /\ work = SubSeq(Candidates, n + 1, Len(Candidates))
  /\ Window => \A i \in n + 1..Len(Candidates) :
                 outcome[Candidates[i]] = "None" /\ Candidates[i] # current

WorkPending == \E n \in 0..Len(Candidates) : WorkLeft(n)

\* The bytes the commit in progress has written.
Touched(c) == IF c = current THEN copied ELSE {}

\* What each site holds, in terms of what it held when the window opened.
SiteTold(c) ==
  /\ outcome[c] \in {"Patched", "AlreadyPatched"} =>
       \A a \in c.replacement : bytes[a] = "replacement"
  /\ outcome[c] \in {"None", "AlreadyPatched", "Skipped"} =>
       \A a \in c.expected :
         bytes[a] = IF a \in Touched(c) THEN "replacement" ELSE before.bytes[a]
  /\ \A a \in c.expected \ c.replacement : bytes[a] = before.bytes[a]

SitesTold == Window => \A c \in Listed : SiteTold(c)

PatchInv == PatchTypes /\ PatchShape /\ Matched /\ WorkPending /\ SitesTold

USE AddressesAssumption, CandidatesAssumption, PatchFlagsAssumption
-----------------------------------------------------------------------------
(* The window is a suspension scope.                                       *)

\* A step of the commit is a step of the suspension scope, or none of its business.
LEMMA WindowStep == [PatchNext]_<<vars, patchVars>> => [Next]_vars
<1> SUFFICES ASSUME [PatchNext]_<<vars, patchVars>>
             PROVE  [Next]_vars
  OBVIOUS
<1>1. CASE Process
  BY <1>1 DEF Next
<1>2. CASE (\E a \in Image : Rewrite(a)) \/ Reprotect
  <2>1. UNCHANGED vars
    BY <1>2 DEF Rewrite, Reprotect
  <2> QED
    BY <2>1
<1>3. ASSUME NEW p \in Patchers, OpenWindow(p)
      PROVE  [Next]_vars
  BY <1>3 DEF OpenWindow, Next
<1>4. CASE SuspendOthers \/ CloseWindow
  BY <1>4 DEF SuspendOthers, CloseWindow, Next, Scope
<1>5. CASE UNCHANGED vars
  BY <1>5
<1>6. CASE UNCHANGED <<vars, patchVars>>
  BY <1>6
<1> QED
  BY <1>1, <1>2, <1>3, <1>4, <1>5, <1>6 DEF PatchNext

\* Whatever a window commits, its scope behaves as ThreadSuspension says.
THEOREM WindowsAreScopes == PatchSpec => Spec
<1>1. PatchInit => Init
  BY DEF PatchInit
<1> QED
  BY <1>1, WindowStep, PTL DEF PatchSpec, Spec

\* No thread of the game meets an open window.
LEMMA QuietHolds ==
  ASSUME PatchShape, OthersSuspended, Window
  PROVE  Interferers = {}
<1>1. ASSUME NEW t \in Threads \ Patchers, Running(t)
      PROVE  FALSE
  <2>1. t # owner /\ t \in alive
    BY <1>1, ThreadsAssumption DEF PatchShape, Running
  <2> QED
    BY <1>1, <2>1 DEF OthersSuspended, Window
<1> QED
  BY <1>1 DEF Interferers
-----------------------------------------------------------------------------
(* Helpers.                                                                *)

\* A set of addresses has a first one.
LEMMA FirstInSet ==
  ASSUME NEW S, S \subseteq Nat, S # {}
  PROVE  First(S) \in S
<1>1. PICK a \in S : \A b \in S : <<b, a>> \notin OpToRel(<, Nat)
  BY WFMin, NatLessThanWellFounded, Zenon
<1>2. \A b \in S : ~(b < a)
  BY <1>1, Zenon DEF OpToRel
<1>3. ASSUME NEW b \in S
      PROVE  a <= b
  <2>1. a \in Nat /\ b \in Nat
    BY Zenon
  <2>2. ~(b < a)
    BY <1>2, Zenon
  <2> HIDE AddressesAssumption, CandidatesAssumption, PatchFlagsAssumption
  <2> QED
    BY <2>1, <2>2
<1> QED
  BY <1>3, Zenon DEF First

\* What the assumptions say of a listed site.
LEMMA SiteFacts ==
  ASSUME NEW c \in Listed
  PROVE  /\ c.expected \subseteq Cells /\ c.replacement \subseteq Cells
         /\ c.replacement \subseteq Nat
         /\ \A a \in c.replacement : PageOf[a] \in Pages
BY DEF Pages

\* VirtualProtect leaves protections.
LEMMA ProtectType ==
  ASSUME NEW S, NEW p \in Protections, protection \in [Pages -> Protections]
  PROVE  Protect(S, p) \in [Pages -> Protections]
BY DEF Protect

\* What memcpy writes next, and where it is in the commit.
LEMMA CopyStep ==
  ASSUME PatchTypes, PatchShape, Copy
  PROVE  LET a == First(current.replacement \ copied)
         IN  /\ a \in current.replacement \ copied
             /\ step = "copy" /\ Window
             /\ current \in Listed /\ outcome[current] = "None"
<1>1. current \in Listed /\ step = "copy" /\ Window /\ outcome[current] = "None"
  BY DEF PatchTypes, PatchShape, Copy, InWindow
<1>2. current.replacement \ copied \subseteq Nat /\ current.replacement \ copied # {}
  BY <1>1, SiteFacts DEF PatchShape
<1> QED
  BY <1>1, <1>2, FirstInSet

\* The window is not open before the walk is over.
LEMMA WindowOpens ==
  ASSUME SuspendOthers
  PROVE  ~Window
BY DEF SuspendOthers, Passes, Window, At, TakeSnapshot, PushBack, WalkFails, WalkEnds, Retry,
       Unlock, SuspendThread, ResumeThread

\* Candidates are compared by value: no two are alike.
LEMMA WorkAdvances ==
  ASSUME NEW n \in 0..Len(Candidates), WorkLeft(n), work # <<>>
  PROVE  /\ n + 1 \in DOMAIN Candidates
         /\ Head(work) = Candidates[n + 1]
         /\ Tail(work) = SubSeq(Candidates, n + 2, Len(Candidates))
         /\ \A i \in n + 2..Len(Candidates) : Candidates[i] # Candidates[n + 1]
<1>1. n < Len(Candidates)
  BY DEF WorkLeft
<1>2. n + 1 \in DOMAIN Candidates
  BY <1>1
<1>3. Head(work) = Candidates[n + 1] /\ Tail(work) = SubSeq(Candidates, n + 2, Len(Candidates))
  BY <1>1 DEF WorkLeft
<1>4. \A i \in n + 2..Len(Candidates) : i \in DOMAIN Candidates /\ i # n + 1
  OBVIOUS
<1> QED
  BY <1>2, <1>3, <1>4
-----------------------------------------------------------------------------
(* The invariant.                                                          *)

\* Before the window nothing is listed and nothing was tried.
LEMMA PatchInvInit == PatchInit => PatchInv
<1> SUFFICES ASSUME PatchInit
             PROVE  PatchInv
  OBVIOUS
<1>1. PatchTypes
  BY DEF PatchInit, PatchTypes, Bytes, Protections, Steps, Outcomes, NoOutcome, Unrecorded
<1>2. PatchShape /\ Matched /\ SitesTold
  BY DEF PatchInit, Init, PatchShape, Matched, SitesTold, Window
<1>3. WorkLeft(Len(Candidates))
  BY DEF PatchInit, Init, WorkLeft, Window
<1> QED
  BY <1>1, <1>2, <1>3 DEF PatchInv, WorkPending

\* Every step keeps the types.
LEMMA TypesStep ==
  ASSUME PatchTypes, PatchShape, [PatchNext]_<<vars, patchVars>>
  PROVE  PatchTypes'
<1> USE DEF PatchTypes
<1>1. ASSUME NEW c \in Listed, Begin(c)
      PROVE  PatchTypes'
  BY <1>1 DEF Begin, Steps, Outcomes
<1>2. CASE CheckAlready
  BY <1>2 DEF CheckAlready, SafeCompare, Finish, Pass, Steps, Outcomes, Protections
<1>3. CASE CheckExpected
  BY <1>3 DEF CheckExpected, SafeCompare, Finish, Pass, Steps, Outcomes, Protections
<1>4. CASE CheckExecutable
  BY <1>4 DEF CheckExecutable, RangeIsExecutable, Finish, Pass, Steps, Outcomes, Protections
<1>5. CASE Unprotect
  <2>1. current \in Listed /\ current.replacement # {}
    BY <1>5 DEF Unprotect, PatchShape, WellFormed
  <2>2. First(current.replacement) \in current.replacement
    BY <2>1, SiteFacts, FirstInSet
  <2>3. protection[PageOf[First(current.replacement)]] \in Protections
    BY <2>1, <2>2, SiteFacts
  <2>4. Protect(current.replacement, "ExecuteReadWrite") \in [Pages -> Protections]
    BY ProtectType DEF Protections
  <2> QED
    BY <1>5, <2>1, <2>3, <2>4 DEF Unprotect, Finish, Steps, Outcomes, Protections
<1>6. CASE Copy
  <2> DEFINE a == First(current.replacement \ copied)
  <2>1. a \in Cells
    BY <1>6, CopyStep, SiteFacts
  <2>2. /\ \/ bytes' = [bytes EXCEPT ![a] = "replacement"] /\ copied' = copied \cup {a}
           \/ UNCHANGED <<bytes, copied>>
        /\ step' \in {"restore", "copy"}
        /\ UNCHANGED <<protection, current, oldProtect, outcome, before>>
    BY <1>6 DEF Copy, Pass
  <2> HIDE DEF a
  <2>3. bytes' \in [Cells -> Bytes] /\ copied' \subseteq Cells
    BY <2>1, <2>2 DEF Bytes
  <2> QED
    BY <2>2, <2>3 DEF Steps
<1>7. CASE Restore
  <2>1. Protect(current.replacement, oldProtect) \in [Pages -> Protections]
    BY ProtectType
  <2> QED
    BY <1>7, <2>1 DEF Restore, Finish, Pass, Steps, Outcomes, Protections
<1>8. CASE Verify
  BY <1>8 DEF Verify, SafeCompare, Finish, Steps, Outcomes, Protections
<1>9. ASSUME NEW a \in Image, Rewrite(a)
      PROVE  PatchTypes'
  BY <1>9 DEF Rewrite, Bytes
<1>10. CASE Reprotect
  BY <1>10 DEF Reprotect
<1>11. CASE \E p \in Patchers : OpenWindow(p)
  BY <1>11 DEF OpenWindow
<1>12. CASE SuspendOthers
  BY <1>12 DEF SuspendOthers
<1>13. CASE CloseWindow
  BY <1>13 DEF CloseWindow, Outcomes, NoOutcome, Unrecorded, Bytes, Protections
<1>14. CASE UNCHANGED patchVars
  BY <1>14 DEF patchVars
<1> QED
  BY <1>1, <1>2, <1>3, <1>4, <1>5, <1>6, <1>7, <1>8, <1>9, <1>10, <1>11, <1>12, <1>13, <1>14 DEF PatchNext, CommitPatch, patchVars

\* A candidate is taken once.
LEMMA BeginFresh ==
  ASSUME WorkPending, NEW c \in Listed, Begin(c)
  PROVE  outcome[c] = "None"
<1>1. PICK m \in 0..Len(Candidates) : WorkLeft(m)
  BY DEF WorkPending
<1>2. c = Candidates[m + 1] /\ m + 1 \in m + 1..Len(Candidates)
  BY <1>1, WorkAdvances DEF Begin
<1> QED
  BY <1>1, <1>2 DEF WorkLeft, Begin, InWindow, At, Window

\* Every step keeps the shape of the commit.
LEMMA ShapeStep ==
  ASSUME PatchTypes, PatchShape, WorkPending, ScopeShape, [PatchNext]_<<vars, patchVars>>
  PROVE  PatchShape'
<1> USE DEF PatchShape, Window
<1>1. ASSUME NEW c \in Listed, Begin(c), UNCHANGED vars
      PROVE  PatchShape'
  BY <1>1, BeginFresh DEF Begin, InWindow, At, vars, scope, members, process, WellFormed, PatchTypes
<1>2. CASE CheckAlready /\ UNCHANGED vars
  BY <1>2 DEF CheckAlready, SafeCompare, Finish, Pass, InWindow, At, vars, scope, members, process, WellFormed, PatchTypes
<1>3. CASE CheckExpected /\ UNCHANGED vars
  BY <1>3 DEF CheckExpected, SafeCompare, Finish, Pass, InWindow, At, vars, scope, members, process, WellFormed, PatchTypes
<1>4. CASE CheckExecutable /\ UNCHANGED vars
  BY <1>4 DEF CheckExecutable, RangeIsExecutable, Finish, Pass, InWindow, At, vars, scope, members, process, WellFormed, PatchTypes
<1>5. CASE Unprotect /\ UNCHANGED vars
  BY <1>5 DEF Unprotect, Finish, InWindow, At, vars, scope, members, process, WellFormed, PatchTypes
<1>6. CASE Copy /\ UNCHANGED vars
  <2>1. First(current.replacement \ copied) \in current.replacement \ copied
    BY <1>6, CopyStep
  <2> QED
    BY <1>6, <2>1 DEF Copy, Pass, InWindow, At, vars, scope, members, process, WellFormed, PatchTypes
<1>7. CASE Restore /\ UNCHANGED vars
  BY <1>7 DEF Restore, Finish, Pass, InWindow, At, vars, scope, members, process, WellFormed, PatchTypes
<1>8. CASE Verify /\ UNCHANGED vars
  BY <1>8 DEF Verify, SafeCompare, Finish, InWindow, At, vars, scope, members, process, WellFormed, PatchTypes
<1>9. ASSUME NEW a \in Image, Rewrite(a)
      PROVE  PatchShape'
  BY <1>9 DEF Rewrite, vars, scope, members
<1>10. CASE Reprotect
  BY <1>10 DEF Reprotect, vars, scope, members
<1>11. ASSUME NEW p \in Patchers, OpenWindow(p)
      PROVE  PatchShape'
  BY <1>11 DEF OpenWindow, Enter, ScopeShape
<1>12. CASE SuspendOthers
  <2>1. step = "idle" /\ outcome = NoOutcome
    BY <1>12, WindowOpens
  <2>2. owner' \in Patchers \cup {None}
    BY <1>12 DEF SuspendOthers, Passes, TakeSnapshot, PushBack, WalkFails, WalkEnds, Retry, Unlock,
           SuspendThread, ResumeThread
  <2> QED
    BY <1>12, <2>1, <2>2 DEF SuspendOthers
<1>13. CASE CloseWindow
  BY <1>13 DEF CloseWindow, Leave, NoOutcome
<1>14. CASE UNCHANGED patchVars /\ UNCHANGED members
  BY <1>14 DEF patchVars, members, WellFormed
<1>15. CASE Process /\ UNCHANGED patchVars
  BY <1>14, <1>15 DEF Process, Start, Exit, SuspendOutside, ResumeOutside, LockHeap, UnlockHeap,
              scope
<1> QED
  BY <1>1, <1>2, <1>3, <1>4, <1>5, <1>6, <1>7, <1>8, <1>9, <1>10, <1>11, <1>12, <1>13, <1>14, <1>15 DEF PatchNext, CommitPatch, vars, scope

\* Between comparison and copy nobody changes the bytes.
LEMMA MatchedStep ==
  ASSUME PatchTypes, PatchShape, OthersSuspended, Matched, [PatchNext]_<<vars, patchVars>>
  PROVE  Matched'
<1> USE DEF Matched
<1>1. ASSUME NEW c \in Listed, Begin(c)
      PROVE  Matched'
  BY <1>1 DEF Begin, PatchShape
<1>2. CASE CheckAlready
  BY <1>2 DEF CheckAlready, SafeCompare, Finish, Pass, PatchShape
<1>3. CASE CheckExpected
  BY <1>3 DEF CheckExpected, SafeCompare, Finish, Pass, PatchShape
<1>4. CASE CheckExecutable
  BY <1>4 DEF CheckExecutable, RangeIsExecutable, Finish, Pass, PatchShape
<1>5. CASE Unprotect
  BY <1>5 DEF Unprotect, Finish, PatchShape
<1>6. CASE Copy
  BY <1>6, CopyStep DEF Copy, Pass, PatchShape
<1>7. CASE Restore
  BY <1>7 DEF Restore, Finish, Pass, PatchShape
<1>8. CASE Verify
  BY <1>8 DEF Verify, SafeCompare, Finish, PatchShape
<1>9. ASSUME NEW a \in Image, Rewrite(a)
      PROVE  Matched'
  <2>1. step = "idle"
    BY <1>9, QuietHolds DEF Rewrite, PatchShape
  <2> QED
    BY <1>9, <2>1 DEF Rewrite
<1>10. CASE UNCHANGED <<bytes, step, current, copied>>
  BY <1>10
<1>11. CASE Reprotect \/ SuspendOthers \/ CloseWindow \/ (\E p \in Patchers : OpenWindow(p))
  BY <1>10, <1>11 DEF Reprotect, SuspendOthers, CloseWindow, OpenWindow
<1>12. CASE UNCHANGED patchVars
  BY <1>10, <1>12 DEF patchVars
<1> QED
  BY <1>1, <1>2, <1>3, <1>4, <1>5, <1>6, <1>7, <1>8, <1>9, <1>10, <1>11, <1>12 DEF PatchNext, CommitPatch, patchVars

\* Outside the bodies of CommitPatch the candidates still to come stay so.
LEMMA WorkStep ==
  ASSUME PatchTypes, PatchShape, ScopeShape, WorkPending, [PatchNext]_<<vars, patchVars>>
  PROVE  WorkPending'
<1> USE DEF Window
<1>1. PICK n \in 0..Len(Candidates) : WorkLeft(n)
  BY DEF WorkPending
<1>2. \A i \in n + 1..Len(Candidates) : Candidates[i] \in Listed
  OBVIOUS
<1>3. ASSUME NEW c \in Listed, Begin(c), UNCHANGED vars
      PROVE  WorkPending'
  <2>1. /\ n + 1 \in DOMAIN Candidates /\ c = Candidates[n + 1]
        /\ Tail(work) = SubSeq(Candidates, n + 2, Len(Candidates))
        /\ \A i \in n + 2..Len(Candidates) : Candidates[i] # c
    BY <1>1, <1>3, WorkAdvances DEF Begin
  <2>2. n + 1 \in 0..Len(Candidates)
    BY <2>1
  <2>3. \A i \in n + 2..Len(Candidates) :
          outcome'[Candidates[i]] = "None" /\ Candidates[i] # current'
    BY <1>1, <1>2, <1>3, <2>1 DEF WorkLeft, Begin, InWindow, At, PatchTypes, PatchShape
  <2>4. WorkLeft(n + 1)'
    BY <1>3, <2>1, <2>3 DEF WorkLeft, Begin
  <2> QED
    BY <2>2, <2>4 DEF WorkPending
<1>4. ASSUME UNCHANGED work, Window' => Window,
             Window => current' \in {current, NoCandidate},
             \A c \in Listed \ {current} : outcome'[c] = outcome[c]
      PROVE  WorkPending'
  <2>1. WorkLeft(n)'
    BY <1>1, <1>2, <1>4 DEF WorkLeft
  <2> QED
    BY <2>1 DEF WorkPending
<1>5. CASE /\ CheckAlready \/ CheckExpected \/ CheckExecutable \/ Unprotect \/ Copy \/ Restore \/ Verify
           /\ UNCHANGED vars
  <2>1. UNCHANGED work /\ (Window' => Window)
    BY <1>5 DEF CheckAlready, CheckExpected, CheckExecutable, Unprotect, Copy, Restore, Verify,
                vars, scope, members
  <2>2. current' \in {current, NoCandidate}
    BY <1>5 DEF CheckAlready, CheckExpected, CheckExecutable, Unprotect, Copy, Restore, Verify,
                Finish, Pass
  <2>3. \A c \in Listed \ {current} : outcome'[c] = outcome[c]
    BY <1>5 DEF CheckAlready, CheckExpected, CheckExecutable, Unprotect, Copy, Restore, Verify,
                Finish, Pass, PatchTypes
  <2> QED
    BY <1>4, <2>1, <2>2, <2>3
<1>6. CASE (\E a \in Image : Rewrite(a)) \/ Reprotect
  BY <1>4, <1>6 DEF Rewrite, Reprotect, vars, scope, members
<1>7. ASSUME NEW p \in Patchers, OpenWindow(p)
      PROVE  WorkPending'
  <2>1. Candidates = SubSeq(Candidates, 1, Len(Candidates)) /\ ~Window'
    BY <1>7 DEF OpenWindow, Enter
  <2>2. WorkLeft(0)'
    BY <1>7, <2>1 DEF OpenWindow, WorkLeft
  <2> QED
    BY <2>2 DEF WorkPending
<1>8. CASE SuspendOthers
  <2>1. ~Window
    BY <1>8, WindowOpens
  <2>2. outcome = NoOutcome /\ current = NoCandidate
    BY <2>1 DEF PatchShape
  <2>3. WorkLeft(n)'
    BY <1>1, <1>2, <1>8, <2>2 DEF SuspendOthers, WorkLeft, NoOutcome
  <2> QED
    BY <2>3 DEF WorkPending
<1>9. CASE CloseWindow
  <2>1. work' = SubSeq(Candidates, Len(Candidates) + 1, Len(Candidates)) /\ ~Window'
    BY <1>9 DEF CloseWindow, Leave
  <2>2. WorkLeft(Len(Candidates))'
    BY <2>1 DEF WorkLeft
  <2> QED
    BY <2>2 DEF WorkPending
<1>10. CASE UNCHANGED patchVars /\ UNCHANGED members
  BY <1>4, <1>10 DEF patchVars, members
<1>11. CASE Process /\ UNCHANGED patchVars
  BY <1>10, <1>11 DEF Process, Start, Exit, SuspendOutside, ResumeOutside, LockHeap, UnlockHeap,
              scope
<1> QED
  BY <1>3, <1>5, <1>6, <1>7, <1>8, <1>9, <1>10, <1>11 DEF PatchNext, CommitPatch, vars, scope

\* A site that nobody touched is told as before.
LEMMA SiteKept ==
  ASSUME NEW c, SiteTold(c), outcome'[c] = outcome[c], Touched(c)' = Touched(c),
         UNCHANGED <<bytes, before>>
  PROVE  SiteTold(c)'
BY DEF SiteTold

\* A commit that does not write leaves the other sites as told.
LEMMA OthersKept ==
  ASSUME Window, SitesTold, UNCHANGED <<bytes, before>>,
         current' = NoCandidate \/ UNCHANGED <<current, copied>>,
         \A c \in Listed : c # current => outcome'[c] = outcome[c]
  PROVE  \A c \in Listed : c # current => SiteTold(c)'
<1> SUFFICES ASSUME NEW c \in Listed, c # current
             PROVE  SiteTold(c)'
  OBVIOUS
<1>1. Touched(c)' = Touched(c)
  BY DEF Touched
<1> QED
  BY <1>1, SiteKept DEF SitesTold

\* Every step keeps what the outcomes say of the bytes.
LEMMA SitesStep ==
  ASSUME PatchTypes, PatchShape, ScopeShape, WorkPending, OthersSuspended, SitesTold,
         [PatchNext]_<<vars, patchVars>>
  PROVE  SitesTold'
<1> USE DEF SitesTold
<1>1. ASSUME NEW c \in Listed, Begin(c), UNCHANGED vars
      PROVE  SitesTold'
  <2>1. Window /\ copied = {} /\ UNCHANGED <<bytes, before, copied>>
    BY <1>1 DEF Begin, InWindow, At, Window, PatchShape
  <2>2. \A d \in Listed : Touched(d)' = Touched(d)
    BY <2>1 DEF Touched
  <2>3. \A d \in Listed \ {c} : outcome'[d] = outcome[d]
    BY <1>1 DEF Begin, PatchTypes
  <2>4. outcome[c] = "None" /\ outcome'[c] \in {"None", "Skipped"}
    BY <1>1, BeginFresh DEF Begin, PatchTypes
  <2>5. SiteTold(c)'
    BY <2>1, <2>2, <2>4 DEF SiteTold
  <2> QED
    BY <2>1, <2>2, <2>3, <2>5, SiteKept
<1>2. CASE CheckAlready /\ UNCHANGED vars
  <2>1. Window /\ current \in Listed /\ outcome[current] = "None" /\ current # NoCandidate
    BY <1>2 DEF CheckAlready, InWindow, At, PatchShape, Window
  <2>2. \/ UNCHANGED <<outcome, current, copied>>
        \/ /\ outcome' = [outcome EXCEPT ![current] = "AlreadyPatched"]
           /\ current' = NoCandidate
    BY <1>2 DEF CheckAlready, Finish, Pass
  <2>3. UNCHANGED <<bytes, before>> /\ current' \in {current, NoCandidate}
    BY <1>2, <2>2 DEF CheckAlready
  <2>4. \A c \in Listed : c # current => SiteTold(c)'
    <3>1. \A c \in Listed : c # current => outcome'[c] = outcome[c]
      BY <2>2 DEF PatchTypes
    <3> QED
      BY <2>1, <2>2, <2>3, <3>1, OthersKept
  <2>5. ASSUME NEW c \in Listed, c = current
        PROVE  SiteTold(c)'
    <3>1. CASE ~SafeCompare(current.replacement, "replacement")
      <4>1. UNCHANGED <<outcome, current, copied>>
        BY <1>2, <3>1 DEF CheckAlready, Pass
      <4> QED
        BY <2>1, <2>3, <4>1, SiteKept DEF Touched
    <3>2. CASE SafeCompare(current.replacement, "replacement")
      <4>1. Finish("AlreadyPatched") /\ copied = {}
        BY <1>2, <3>2 DEF CheckAlready, PatchShape
      <4>2. outcome'[c] = "AlreadyPatched"
        BY <2>1, <2>5, <4>1 DEF Finish, PatchTypes
      <4>3. Touched(c) = {} /\ Touched(c)' = {}
        BY <4>1 DEF Finish, Touched
      <4>4. \A a \in c.replacement : bytes'[a] = "replacement"
        BY <2>3, <2>5, <3>2 DEF SafeCompare
      <4> QED
        BY <2>1, <2>3, <2>5, <4>2, <4>3, <4>4 DEF SiteTold
    <3> QED
      BY <3>1, <3>2
  <2> QED
    BY <2>4, <2>5, Zenon
<1>3. CASE CheckExpected /\ UNCHANGED vars
  <2>1. Window /\ current \in Listed /\ outcome[current] = "None" /\ current # NoCandidate
    BY <1>3 DEF CheckExpected, InWindow, At, PatchShape, Window
  <2>2. \/ UNCHANGED <<outcome, current, copied>>
        \/ /\ outcome' = [outcome EXCEPT ![current] = "Skipped"]
           /\ current' = NoCandidate
    BY <1>3 DEF CheckExpected, Finish, Pass
  <2>3. UNCHANGED <<bytes, before>> /\ current' \in {current, NoCandidate}
    BY <1>3, <2>2 DEF CheckExpected
  <2>4. \A c \in Listed : c # current => SiteTold(c)'
    <3>1. \A c \in Listed : c # current => outcome'[c] = outcome[c]
      BY <2>2 DEF PatchTypes
    <3> QED
      BY <2>1, <2>2, <2>3, <3>1, OthersKept
  <2>5. ASSUME NEW c \in Listed, c = current
        PROVE  SiteTold(c)'
    <3>1. CASE SafeCompare(current.expected, "expected")
      <4>1. UNCHANGED <<outcome, current, copied>>
        BY <1>3, <3>1 DEF CheckExpected, Pass
      <4> QED
        BY <2>1, <2>3, <4>1, SiteKept DEF Touched
    <3>2. CASE ~SafeCompare(current.expected, "expected")
      <4>1. Finish("Skipped") /\ copied = {}
        BY <1>3, <3>2 DEF CheckExpected, PatchShape
      <4>2. outcome'[c] = "Skipped"
        BY <2>1, <2>5, <4>1 DEF Finish, PatchTypes
      <4>3. Touched(c) = {} /\ Touched(c)' = {}
        BY <4>1 DEF Finish, Touched
      <4> QED
        BY <2>1, <2>3, <2>5, <4>2, <4>3 DEF SiteTold
    <3> QED
      BY <3>1, <3>2
  <2> QED
    BY <2>4, <2>5, Zenon
<1>4. CASE CheckExecutable /\ UNCHANGED vars
  <2>1. Window /\ current \in Listed /\ outcome[current] = "None" /\ current # NoCandidate
    BY <1>4 DEF CheckExecutable, InWindow, At, PatchShape, Window
  <2>2. \/ UNCHANGED <<outcome, current, copied>>
        \/ /\ outcome' = [outcome EXCEPT ![current] = "Skipped"]
           /\ current' = NoCandidate
    BY <1>4 DEF CheckExecutable, Finish, Pass
  <2>3. UNCHANGED <<bytes, before>> /\ current' \in {current, NoCandidate}
    BY <1>4, <2>2 DEF CheckExecutable
  <2>4. \A c \in Listed : c # current => SiteTold(c)'
    <3>1. \A c \in Listed : c # current => outcome'[c] = outcome[c]
      BY <2>2 DEF PatchTypes
    <3> QED
      BY <2>1, <2>2, <2>3, <3>1, OthersKept
  <2>5. ASSUME NEW c \in Listed, c = current
        PROVE  SiteTold(c)'
    <3>1. ASSUME Finish("Skipped")
          PROVE  SiteTold(c)'
      <4>1. copied = {}
        BY <1>4 DEF CheckExecutable, PatchShape
      <4>2. outcome'[c] = "Skipped"
        BY <2>1, <2>5, <3>1 DEF Finish, PatchTypes
      <4>3. Touched(c) = {} /\ Touched(c)' = {}
        BY <3>1, <4>1 DEF Finish, Touched
      <4> QED
        BY <2>1, <2>3, <2>5, <4>2, <4>3 DEF SiteTold
    <3>2. CASE UNCHANGED <<outcome, current, copied>>
      BY <2>1, <2>3, <3>2, SiteKept DEF Touched
    <3> QED
      BY <1>4, <3>1, <3>2 DEF CheckExecutable, Pass
  <2> QED
    BY <2>4, <2>5, Zenon
<1>5. CASE Unprotect /\ UNCHANGED vars
  <2>1. Window /\ current \in Listed /\ outcome[current] = "None" /\ current # NoCandidate
    BY <1>5 DEF Unprotect, InWindow, At, PatchShape, Window
  <2>2. \/ UNCHANGED <<outcome, current, copied>>
        \/ /\ outcome' = [outcome EXCEPT ![current] = "Failed"]
           /\ current' = NoCandidate
    BY <1>5 DEF Unprotect, Finish, Pass
  <2>3. UNCHANGED <<bytes, before>> /\ current' \in {current, NoCandidate}
    BY <1>5, <2>2 DEF Unprotect
  <2>4. \A c \in Listed : c # current => SiteTold(c)'
    <3>1. \A c \in Listed : c # current => outcome'[c] = outcome[c]
      BY <2>2 DEF PatchTypes
    <3> QED
      BY <2>1, <2>2, <2>3, <3>1, OthersKept
  <2>5. ASSUME NEW c \in Listed, c = current
        PROVE  SiteTold(c)'
    <3>1. ASSUME Finish("Failed")
          PROVE  SiteTold(c)'
      <4>1. outcome'[c] = "Failed"
        BY <2>1, <2>5, <3>1 DEF Finish, PatchTypes
      <4> QED
        BY <2>1, <2>3, <2>5, <4>1 DEF SiteTold
    <3>2. CASE UNCHANGED <<outcome, current, copied>>
      BY <2>1, <2>3, <3>2, SiteKept DEF Touched
    <3> QED
      BY <1>5, <3>1, <3>2 DEF Unprotect, Pass
  <2> QED
    BY <2>4, <2>5, Zenon
<1>6. CASE Copy /\ UNCHANGED vars
  <2> DEFINE a == First(current.replacement \ copied)
  <2>1. /\ a \in current.replacement \ copied
        /\ current \in Listed /\ Window /\ outcome[current] = "None"
        /\ a \in Cells /\ a \in current.expected
    BY <1>6, CopyStep, SiteFacts DEF PatchShape, WellFormed
  <2>2. /\ UNCHANGED <<current, outcome, before>>
        /\ \/ bytes' = [bytes EXCEPT ![a] = "replacement"] /\ copied' = copied \cup {a}
           \/ UNCHANGED <<bytes, copied>>
    BY <1>6 DEF Copy, Pass
  <2> HIDE DEF a
  <2>3. \A c \in Listed \ {current} : a \notin c.expected \cup c.replacement
    BY <2>1
  <2>4. ASSUME NEW c \in Listed, c = current
        PROVE  SiteTold(c)'
    BY <2>1, <2>2, <2>4, SiteFacts DEF SiteTold, Touched, PatchTypes
  <2>5. ASSUME NEW c \in Listed, c # current
        PROVE  SiteTold(c)'
    BY <2>1, <2>2, <2>3, <2>5, SiteFacts DEF SiteTold, Touched, PatchTypes
  <2> QED
    BY <2>4, <2>5, Zenon
<1>7. CASE Restore /\ UNCHANGED vars
  <2>1. Window /\ current \in Listed /\ outcome[current] = "None" /\ current # NoCandidate
    BY <1>7 DEF Restore, InWindow, At, PatchShape, Window
  <2>2. \/ UNCHANGED <<outcome, current, copied>>
        \/ /\ outcome' = [outcome EXCEPT ![current] = "Failed"]
           /\ current' = NoCandidate
    BY <1>7 DEF Restore, Finish, Pass
  <2>3. UNCHANGED <<bytes, before>> /\ current' \in {current, NoCandidate}
    BY <1>7, <2>2 DEF Restore
  <2>4. \A c \in Listed : c # current => SiteTold(c)'
    <3>1. \A c \in Listed : c # current => outcome'[c] = outcome[c]
      BY <2>2 DEF PatchTypes
    <3> QED
      BY <2>1, <2>2, <2>3, <3>1, OthersKept
  <2>5. ASSUME NEW c \in Listed, c = current
        PROVE  SiteTold(c)'
    <3>1. ASSUME Finish("Failed")
          PROVE  SiteTold(c)'
      <4>1. outcome'[c] = "Failed"
        BY <2>1, <2>5, <3>1 DEF Finish, PatchTypes
      <4> QED
        BY <2>1, <2>3, <2>5, <4>1 DEF SiteTold
    <3>2. CASE UNCHANGED <<outcome, current, copied>>
      BY <2>1, <2>3, <3>2, SiteKept DEF Touched
    <3> QED
      BY <1>7, <3>1, <3>2 DEF Restore, Pass
  <2> QED
    BY <2>4, <2>5, Zenon
<1>8. CASE Verify /\ UNCHANGED vars
  <2>1. Window /\ current \in Listed /\ outcome[current] = "None" /\ current # NoCandidate
    BY <1>8 DEF Verify, InWindow, At, PatchShape, Window
  <2>2. \/ UNCHANGED <<outcome, current, copied>>
        \/ /\ outcome' = [outcome EXCEPT ![current] = IF SafeCompare(current.replacement, "replacement") THEN "Patched" ELSE "Failed"]
           /\ current' = NoCandidate
    BY <1>8 DEF Verify, Finish, Pass
  <2>3. UNCHANGED <<bytes, before>> /\ current' \in {current, NoCandidate}
    BY <1>8, <2>2 DEF Verify
  <2>4. \A c \in Listed : c # current => SiteTold(c)'
    <3>1. \A c \in Listed : c # current => outcome'[c] = outcome[c]
      BY <2>2 DEF PatchTypes
    <3> QED
      BY <2>1, <2>2, <2>3, <3>1, OthersKept
  <2>5. ASSUME NEW c \in Listed, c = current
        PROVE  SiteTold(c)'
    <3> DEFINE result == IF SafeCompare(current.replacement, "replacement") THEN "Patched" ELSE "Failed"
    <3>1. outcome'[c] = result
      BY <1>8, <2>1, <2>5 DEF Verify, Finish, PatchTypes
    <3>2. result = "Patched" => \A a \in c.replacement : bytes'[a] = "replacement"
      BY <2>3, <2>5 DEF SafeCompare
    <3>3. result \in {"Patched", "Failed"}
      OBVIOUS
    <3> QED
      BY <2>1, <2>3, <2>5, <3>1, <3>2, <3>3 DEF SiteTold
  <2> QED
    BY <2>4, <2>5, Zenon
<1>9. CASE (\E a \in Image : Rewrite(a)) \/ Reprotect
  BY <1>9, QuietHolds DEF Rewrite, Reprotect, Window, vars, scope, members
<1>10. CASE (\E p \in Patchers : OpenWindow(p)) \/ CloseWindow
  BY <1>10 DEF OpenWindow, Enter, CloseWindow, Leave, Window
<1>11. CASE SuspendOthers
  <2>1. outcome = NoOutcome /\ copied = {}
    BY <1>11, WindowOpens DEF PatchShape
  <2>2. SUFFICES ASSUME Window'
                 PROVE  \A c \in Listed : SiteTold(c)'
    OBVIOUS
  <2>3. before'.bytes = bytes'
    BY <1>11, <2>2 DEF SuspendOthers, Window
  <2> QED
    BY <1>11, <2>1, <2>3 DEF SuspendOthers, SiteTold, Touched, NoOutcome
<1>12. CASE UNCHANGED patchVars /\ UNCHANGED members
  BY <1>12 DEF patchVars, members, Window, SiteTold, Touched
<1>13. CASE Process /\ UNCHANGED patchVars
  BY <1>12, <1>13 DEF Process, Start, Exit, SuspendOutside, ResumeOutside, LockHeap, UnlockHeap,
              scope
<1> QED
  BY <1>1, <1>2, <1>3, <1>4, <1>5, <1>6, <1>7, <1>8, <1>9, <1>10, <1>11, <1>12, <1>13 DEF PatchNext, CommitPatch, vars, scope
-----------------------------------------------------------------------------
(* The theorems.                                                           *)

\* Needed whether or not threads are created in the window.
BaseInv == PatchTypes /\ PatchShape /\ WorkPending

\* Every step keeps it.
LEMMA BaseInvStep ==
  BaseInv /\ ScopeInv /\ [PatchNext]_<<vars, patchVars>> => BaseInv'
BY TypesStep, ShapeStep, WorkStep DEF BaseInv, ScopeInv

\* The invariant that holds whether or not threads start meanwhile: the types, the
\* shape of CommitPatch and what is left of the list.
THEOREM BaseInvariant == PatchSpec => []BaseInv
<1>1. PatchInit => BaseInv
  BY PatchInvInit DEF PatchInv, BaseInv
<1> QED
  BY <1>1, BaseInvStep, WindowsAreScopes, ScopeInvariant, PTL DEF PatchSpec

\* Type correctness of the raw-patch window.
THEOREM PatchTypeCorrect == PatchSpec => []PatchTypeOK
<1>1. BaseInv /\ TypeOK => PatchTypeOK
  BY DEF BaseInv, PatchTypes, PatchTypeOK, WorkPending, WorkLeft
<1> QED
  BY <1>1, BaseInvariant, WindowsAreScopes, TypeCorrect, PTL

\* No thread was created since the snapshot of a window that is open.
NoNewcomersInWindows == Window => NoNewcomer

\* Such a window is quiet.
LEMMA QuietWindow ==
  ASSUME OnlyNewcomersRun, NoNewcomersInWindows
  PROVE  OthersSuspended
BY DEF OnlyNewcomersRun, NoNewcomersInWindows, OthersSuspended, Window, NoNewcomer

\* Newcomers are forgotten where a pass or the scope ends, which is in no window.
LEMMA NewcomersForgotten ==
  ASSUME newcomers # {}, newcomers' = {}, [PatchNext]_<<vars, patchVars>>
  PROVE  ~Window'
<1>1. CASE Process
  BY <1>1 DEF Process, Start, Exit, SuspendOutside, ResumeOutside, LockHeap, UnlockHeap, scope
<1>2. CASE SuspendOthers
  BY <1>2 DEF SuspendOthers, Passes, Window, At, TakeSnapshot, PushBack, WalkFails, WalkEnds, Retry,
              Unlock, SuspendThread, ResumeThread
<1>3. CASE CloseWindow \/ (\E p \in Patchers : OpenWindow(p))
  BY <1>3 DEF CloseWindow, Leave, OpenWindow, Enter
<1>4. CASE UNCHANGED vars
  BY <1>4 DEF vars, scope
<1> QED
  BY <1>1, <1>2, <1>3, <1>4 DEF PatchNext, Rewrite, Reprotect

\* The inductive invariant of windows that are all quiet.
THEOREM PatchInvariant == PatchSpec /\ []OthersSuspended => []PatchInv
<1>1. PatchInit => PatchInv
  BY PatchInvInit
<1>2. PatchInv /\ BaseInv /\ OthersSuspended /\ ScopeInv /\ [PatchNext]_<<vars, patchVars>>
        => PatchInv'
  BY TypesStep, ShapeStep, WorkStep, MatchedStep, SitesStep DEF PatchInv, ScopeInv
<1> QED
  BY <1>1, <1>2, BaseInvariant, WindowsAreScopes, ScopeInvariant, PTL DEF PatchSpec

\* The part of PatchInv that needs the suspension, window by window.
WindowInv == NoNewcomer => Matched /\ SitesTold

\* Every step keeps it: a window in which nobody was created is quiet, and after
\* one in which somebody was the next begins anew.
LEMMA WindowInvStep ==
  ASSUME BaseInv, ScopeInv, OnlyNewcomersRun, WindowInv,
         [PatchNext]_<<vars, patchVars>>
  PROVE  WindowInv'
<1> SUFFICES ASSUME newcomers' = {}
             PROVE  Matched' /\ SitesTold'
  BY DEF WindowInv, NoNewcomer
<1>1. CASE newcomers = {}
  <2>1. OthersSuspended
    BY <1>1, QuietWindow DEF NoNewcomersInWindows, NoNewcomer
  <2> QED
    BY <1>1, <2>1, MatchedStep, SitesStep DEF WindowInv, NoNewcomer, BaseInv, ScopeInv
<1>2. CASE newcomers # {}
  <2>1. ~Window' /\ step' = "idle"
    BY <1>2, NewcomersForgotten, BaseInvStep DEF BaseInv, PatchShape
  <2> QED
    BY <2>1 DEF Matched, SitesTold
<1> QED
  BY <1>1, <1>2

\* The inductive invariant of any window.
THEOREM WindowInvariant == PatchSpec => []WindowInv
<1>1. PatchInit => WindowInv
  BY PatchInvInit DEF PatchInv, WindowInv
<1>2. BaseInv /\ ScopeInv /\ OnlyNewcomersRun /\ WindowInv /\ [PatchNext]_<<vars, patchVars>>
        => WindowInv'
  BY WindowInvStep
<1> QED
  BY <1>1, <1>2, BaseInvariant, WindowsAreScopes, ScopeInvariant, OnlyNewcomersRunHolds, PTL
  DEF PatchSpec

\* Between two commits the outcomes say what the sites hold.
THEOREM OutcomesTold == PatchSpec => []OutcomesTellTheBytes
<1>1. BaseInv /\ WindowInv => OutcomesTellTheBytes
  <2> SUFFICES ASSUME BaseInv, WindowInv, BetweenCommits, NoNewcomer
               PROVE  \A c \in Listed : SiteTold(c) /\ Touched(c) = {}
    BY Zenon DEF OutcomesTellTheBytes, SiteTold
  <2> QED
    BY DEF BaseInv, WindowInv, SitesTold, BetweenCommits, InWindow, At, Window, PatchShape, Touched
<1> QED
  BY <1>1, BaseInvariant, WindowInvariant, PTL

\* The first byte is written over the bytes that were expected.
THEOREM NoBlindWriteHolds == PatchSpec => NoBlindWrite
<1>1. BaseInv /\ WindowInv /\ [PatchNext]_<<vars, patchVars>> =>
        [NoNewcomer /\ copied = {} /\ copied' # {} =>
           /\ \A a \in current.expected : bytes[a] = "expected"
           /\ current.requireUnwindFunctionStart => current.isFunctionStart
           /\ current.expected \subseteq Image]_<<vars, patchVars>>
  <2> SUFFICES ASSUME BaseInv, WindowInv, PatchNext, NoNewcomer, copied = {}, copied' # {}
               PROVE  /\ \A a \in current.expected : bytes[a] = "expected"
                      /\ current.requireUnwindFunctionStart => current.isFunctionStart
                      /\ current.expected \subseteq Image
    OBVIOUS
  <2>1. Copy
    BY DEF PatchNext, CommitPatch, patchVars, Rewrite, Reprotect, OpenWindow, SuspendOthers,
           CloseWindow, Begin, CheckAlready, CheckExpected, CheckExecutable, Unprotect, Restore,
           Verify, Finish, Pass
  <2>2. step = "copy"
    BY <2>1 DEF Copy
  <2> QED
    BY <2>2 DEF BaseInv, WindowInv, Matched, PatchShape, WellFormed
<1> QED
  BY <1>1, BaseInvariant, WindowInvariant, PTL DEF PatchSpec, NoBlindWrite
-----------------------------------------------------------------------------
(* Protections.  WriteBytes asks for that of the first page and puts it    *)
(* back on all the pages of the replacement: these must be alike.           *)

\* No replacement crosses pages; or all the code is protected alike, and
\* replacements that share a page share them all.
EvenSites ==
  \/ \A c \in Listed : \A a, b \in c.replacement : PageOf[a] = PageOf[b]
  \/ /\ ~MixedPages
     /\ \A c, d \in Listed : LET P == PagesOf(c.replacement)
                                Q == PagesOf(d.replacement)
                            IN  P = Q \/ P \intersect Q = {}

\* The pages of a replacement are protected alike.
EvenPages ==
  \A c \in Listed : \A q, r \in PagesOf(c.replacement) : protection[q] = protection[r]

\* Every step keeps the pages of a replacement alike, even in a window that is not quiet.
LEMMA EvenStep ==
  ASSUME EvenSites, BaseInv, EvenPages, [PatchNext]_<<vars, patchVars>>
  PROVE  EvenPages'
<1>1. CASE \A c \in Listed : \A a, b \in c.replacement : PageOf[a] = PageOf[b]
  BY <1>1 DEF EvenPages, PagesOf
<1>2. CASE ~\A c \in Listed : \A a, b \in c.replacement : PageOf[a] = PageOf[b]
  <2>1. /\ ~MixedPages
        /\ \A c, d \in Listed : \/ PagesOf(c.replacement) = PagesOf(d.replacement)
                               \/ PagesOf(c.replacement) \intersect PagesOf(d.replacement) = {}
    BY <1>2, Zenon DEF EvenSites
  <2>2. \A c \in Listed : PagesOf(c.replacement) \subseteq Pages
    BY DEF PagesOf, Pages
  <2>3. ASSUME NEW d \in Listed, NEW p, protection' = Protect(d.replacement, p)
        PROVE  EvenPages'
    <3> SUFFICES ASSUME NEW c \in Listed, NEW q \in PagesOf(c.replacement),
                        NEW r \in PagesOf(c.replacement)
                 PROVE  protection'[q] = protection'[r]
      BY Zenon DEF EvenPages, PagesOf
    <3>1. q \in Pages /\ r \in Pages
      BY <2>2
    <3>2. q \in PagesOf(d.replacement) <=> r \in PagesOf(d.replacement)
      BY <2>1
    <3>3. protection[q] = protection[r]
      BY DEF EvenPages
    <3> QED
      BY <2>3, <3>1, <3>2, <3>3 DEF Protect
  <2>4. CASE Reprotect
    BY <2>1, <2>2, <2>4 DEF Reprotect, EvenPages, PagesOf
  <2>5. CASE UNCHANGED protection
    BY <2>5 DEF EvenPages, PagesOf
  <2>6. CASE Unprotect \/ Restore
    <3>1. current \in Listed
      BY <2>6 DEF Unprotect, Restore, BaseInv, PatchShape
    <3> QED
      BY <2>3, <2>5, <2>6, <3>1 DEF Unprotect, Restore
  <2>7. CASE CommitPatch /\ ~(Unprotect \/ Restore)
    BY <2>5, <2>7 DEF CommitPatch, Begin, CheckAlready, CheckExpected, CheckExecutable, Copy, Verify
  <2>8. CASE ~(Reprotect \/ CommitPatch)
    <3>1. UNCHANGED protection
      BY <2>8 DEF PatchNext, patchVars, Rewrite, OpenWindow, SuspendOthers, CloseWindow
    <3> QED
      BY <2>5, <3>1
  <2> QED
    BY <2>4, <2>6, <2>7, <2>8
<1> QED
  BY <1>1, <1>2

NoneFailed == \A c \in Listed : outcome[c] # "Failed"

\* Only the page of the commit in progress is not as it was.
PagesKept ==
  Window /\ NoneFailed =>
    IF step \in {"copy", "restore"}
    THEN /\ \A q \in Pages \ PagesOf(current.replacement) : protection[q] = before.protection[q]
         /\ \A q \in PagesOf(current.replacement) : before.protection[q] = oldProtect
    ELSE protection = before.protection

\* Every step keeps the protections, or remembers the one to put back.
LEMMA PagesStep ==
  ASSUME EvenPages, BaseInv, OthersSuspended, ScopeShape, PagesKept,
         [PatchNext]_<<vars, patchVars>>
  PROVE  PagesKept'
<1> USE DEF PagesKept
<1>1. ASSUME UNCHANGED <<protection, before, oldProtect, current, step>>,
             Window' => Window, Window /\ NoneFailed' => NoneFailed
      PROVE  PagesKept'
  BY <1>1
<1>2. ASSUME NEW c \in Listed, Begin(c), UNCHANGED vars
      PROVE  PagesKept'
  <2>1. Window /\ outcome[c] = "None"
    BY <1>2, BeginFresh DEF BaseInv, Begin, InWindow, At, Window
  <2>2. NoneFailed' => NoneFailed
    BY <1>2, <2>1 DEF Begin, NoneFailed, BaseInv, PatchTypes
  <2> QED
    BY <1>2, <2>1, <2>2 DEF Begin
<1>3. ASSUME NEW r, outcome' = [outcome EXCEPT ![current] = r], step # "idle"
      PROVE  /\ NoneFailed' => NoneFailed /\ r # "Failed"
  BY <1>3 DEF NoneFailed, BaseInv, PatchShape, PatchTypes
<1>4. CASE /\ CheckAlready \/ CheckExpected \/ CheckExecutable \/ Verify
           /\ UNCHANGED vars
  <2>1. /\ Window /\ step \notin {"copy", "restore"} /\ step' \notin {"copy", "restore"}
        /\ UNCHANGED <<protection, before>>
    BY <1>4 DEF CheckAlready, CheckExpected, CheckExecutable, Verify, Finish, Pass, InWindow, At,
                Window
  <2>2. NoneFailed' => NoneFailed
    BY <1>4 DEF CheckAlready, CheckExpected, CheckExecutable, Verify, Finish, Pass, NoneFailed,
                BaseInv, PatchShape, PatchTypes
  <2> QED
    BY <2>1, <2>2
<1>5. CASE Unprotect /\ UNCHANGED vars
  <2>1. Window /\ current \in Listed /\ current.replacement # {} /\ step = "unprotect"
    BY <1>5 DEF Unprotect, InWindow, At, Window, BaseInv, PatchShape, WellFormed
  <2>2. CASE Finish("Failed")
    BY <1>3, <2>1, <2>2 DEF Finish
  <2>3. CASE ~Finish("Failed")
    <3> DEFINE a == First(current.replacement)
    <3>1. a \in current.replacement
      BY <2>1, SiteFacts, FirstInSet
    <3>2. /\ oldProtect' = protection[PageOf[a]]
          /\ protection' = Protect(current.replacement, "ExecuteReadWrite")
          /\ step' = "copy" /\ UNCHANGED <<outcome, current, before>>
      BY <1>5, <2>3 DEF Unprotect
    <3> HIDE DEF a
    <3>3. \A q \in PagesOf(current.replacement) : protection[q] = protection[PageOf[a]]
      BY <2>1, <3>1 DEF EvenPages, PagesOf
    <3>4. NoneFailed' => NoneFailed
      BY <3>2 DEF NoneFailed
    <3>5. \A q \in Pages \ PagesOf(current.replacement) : protection'[q] = protection[q]
      BY <3>2 DEF Protect
    <3>6. PagesOf(current.replacement)' = PagesOf(current.replacement)
      BY <3>2 DEF PagesOf
    <3> QED
      BY <2>1, <3>2, <3>3, <3>4, <3>5, <3>6
  <2> QED
    BY <2>2, <2>3
<1>6. CASE Copy /\ UNCHANGED vars
  <2>1. /\ Window /\ step = "copy" /\ step' \in {"copy", "restore"}
        /\ UNCHANGED <<protection, before, oldProtect, current, outcome>>
    BY <1>6 DEF Copy, Pass, InWindow, At, Window
  <2>2. NoneFailed' => NoneFailed
    BY <2>1 DEF NoneFailed
  <2> QED
    BY <2>1, <2>2 DEF PagesOf
<1>7. CASE Restore /\ UNCHANGED vars
  <2>1. Window /\ current \in Listed /\ step = "restore"
    BY <1>7 DEF Restore, InWindow, At, Window, BaseInv, PatchShape
  <2>2. CASE Finish("Failed")
    BY <1>3, <2>1, <2>2 DEF Finish
  <2>3. CASE ~Finish("Failed")
    <3>1. /\ protection' = Protect(current.replacement, oldProtect)
          /\ step' = "verify" /\ UNCHANGED <<outcome, before>>
      BY <1>7, <2>3 DEF Restore, Pass
    <3>2. NoneFailed' => NoneFailed
      BY <3>1 DEF NoneFailed
    <3>3. SUFFICES ASSUME NoneFailed
                   PROVE  protection' = before.protection
      BY <3>1, <3>2
    <3>4. \A q \in Pages : protection'[q] = before.protection[q]
      BY <2>1, <3>1, <3>3 DEF Protect
    <3>5. before.protection \in [Pages -> Protections]
      BY DEF BaseInv, PatchTypes
    <3> QED
      BY <3>1, <3>4, <3>5 DEF Protect
  <2> QED
    BY <2>2, <2>3
<1>8. CASE (\E a \in Image : Rewrite(a)) \/ Reprotect
  <2>1. ~Window /\ UNCHANGED vars
    BY <1>8, QuietHolds DEF Rewrite, Reprotect, BaseInv
  <2> QED
    BY <2>1 DEF vars, scope, members, Window
<1>9. CASE (\E p \in Patchers : OpenWindow(p)) \/ CloseWindow
  BY <1>9 DEF OpenWindow, Enter, CloseWindow, Leave, Window
<1>10. CASE SuspendOthers
  <2>1. step' = "idle"
    BY <1>10, WindowOpens DEF SuspendOthers, BaseInv, PatchShape
  <2> QED
    BY <1>10, <2>1 DEF SuspendOthers, Window
<1>11. CASE UNCHANGED patchVars /\ UNCHANGED members
  BY <1>11 DEF patchVars, members, Window, NoneFailed, PagesOf
<1>12. CASE Process /\ UNCHANGED patchVars
  BY <1>11, <1>12 DEF Process, Start, Exit, SuspendOutside, ResumeOutside, LockHeap, UnlockHeap,
              scope
<1> QED
  BY <1>2, <1>4, <1>5, <1>6, <1>7, <1>8, <1>9, <1>10, <1>11, <1>12 DEF PatchNext, CommitPatch, vars, scope

\* Before the first window protections are alike.
LEMMA EvenInit == EvenSites /\ PatchInit => EvenPages
<1> SUFFICES ASSUME EvenSites, PatchInit
             PROVE  EvenPages
  OBVIOUS
<1>1. \A c \in Listed : PagesOf(c.replacement) \subseteq Pages
  BY DEF PagesOf, Pages
<1> QED
  BY <1>1 DEF EvenSites, EvenPages, PagesOf, PatchInit

\* PagesKept, window by window.
PagesInv == EvenPages /\ (NoNewcomer => PagesKept)

\* Every step keeps it, as it does WindowInv.
LEMMA PagesInvStep ==
  ASSUME EvenSites, BaseInv, ScopeInv, OnlyNewcomersRun, PagesInv,
         [PatchNext]_<<vars, patchVars>>
  PROVE  PagesInv'
<1>1. EvenPages'
  BY EvenStep DEF PagesInv
<1>2. ASSUME newcomers' = {}, newcomers = {}
      PROVE  PagesKept'
  <2>1. OthersSuspended
    BY <1>2, QuietWindow DEF NoNewcomersInWindows, NoNewcomer
  <2> QED
    BY <1>2, <2>1, PagesStep DEF PagesInv, NoNewcomer, ScopeInv
<1>3. ASSUME newcomers' = {}, newcomers # {}
      PROVE  PagesKept'
  BY <1>3, NewcomersForgotten DEF PagesKept
<1> QED
  BY <1>1, <1>2, <1>3 DEF PagesInv, NoNewcomer

\* Commits that do not fail leave every page as they found it, where the pages of
\* a replacement are alike.
THEOREM ProtectionRestoredHolds ==
  ASSUME EvenSites
  PROVE  PatchSpec => []ProtectionRestored
<1>1. PatchInit => PagesInv
  BY EvenInit DEF PatchInit, Init, PagesInv, PagesKept, Window
<1>2. BaseInv /\ ScopeInv /\ OnlyNewcomersRun /\ PagesInv /\ [PatchNext]_<<vars, patchVars>>
        => PagesInv'
  BY PagesInvStep
<1>3. PagesInv => ProtectionRestored
  <2> SUFFICES ASSUME PagesInv, BetweenCommits, NoNewcomer, NoneFailed
               PROVE  protection = before.protection
    BY DEF ProtectionRestored, NoneFailed
  <2>1. PagesKept /\ Window /\ step = "idle"
    BY DEF PagesInv, BetweenCommits, InWindow, At, Window
  <2> QED
    BY <2>1 DEF PagesKept
<1> QED
  BY <1>1, <1>2, <1>3, BaseInvariant, WindowsAreScopes, ScopeInvariant, OnlyNewcomersRunHolds, PTL
  DEF PatchSpec
-----------------------------------------------------------------------------
(* What the threads of the game find: whole sites (PatchedSites).          *)

\* A site that a window has come to is as it was, or was original and is replaced.
Settled(c) ==
  outcome[c] \in {"Patched", "Failed"} =>
    \/ \A a \in c.expected : bytes[a] = before.bytes[a]
    \/ /\ \A a \in c.expected : before.bytes[a] = "expected"
       /\ \A a \in c.replacement : bytes[a] = "replacement"

\* In a quiet window memcpy cannot fault: what it began over an original site it
\* completes, whatever the calls around it answer.
WritesThrough ==
  /\ step \in {"copy", "restore", "verify"} =>
       \A a \in current.expected : before.bytes[a] = "expected"
  /\ step = "copy" => \A q \in PagesOf(current.replacement) : protection[q] = "ExecuteReadWrite"
  /\ step = "restore" => copied = current.replacement
  /\ Window => \A c \in Listed : Settled(c)

\* A site that nobody touched is as settled as it was.
LEMMA SettledKept ==
  ASSUME NEW c, Settled(c), outcome'[c] = outcome[c], UNCHANGED <<bytes, before>>
  PROVE  Settled(c)'
BY DEF Settled

\* A candidate whose replacement has been written in full is settled.
LEMMA WrittenSettled ==
  ASSUME PatchInv, WritesThrough, Window, UNCHANGED <<bytes, before>>,
         step \in {"restore", "verify"}, NEW c \in Listed, c = current
  PROVE  Settled(c)'
<1>1. current \in Listed /\ outcome[current] = "None" /\ current.replacement \subseteq current.expected
      /\ copied = current.replacement
  BY DEF PatchInv, PatchShape, WritesThrough, WellFormed
<1>2. SiteTold(current)
  BY <1>1 DEF PatchInv, SitesTold
<1>3. \A a \in current.replacement : bytes[a] = "replacement"
  BY <1>1, <1>2 DEF SiteTold, Touched
<1>4. \A a \in current.expected : before.bytes[a] = "expected"
  BY DEF WritesThrough
<1> QED
  BY <1>3, <1>4 DEF Settled

\* A candidate of which nothing has been written is settled.
LEMMA UnwrittenSettled ==
  ASSUME PatchInv, Window, UNCHANGED <<bytes, before>>, copied = {}, step # "idle",
         NEW c \in Listed, c = current
  PROVE  /\ \A a \in c.expected : bytes[a] = before.bytes[a]
         /\ Settled(c)'
<1>1. current \in Listed /\ outcome[current] = "None"
  BY DEF PatchInv, PatchShape
<1>2. SiteTold(current)
  BY <1>1 DEF PatchInv, SitesTold
<1>3. \A a \in current.expected : bytes[a] = before.bytes[a]
  BY <1>1, <1>2 DEF SiteTold, Touched
<1> QED
  BY <1>3 DEF Settled

\* Every step of a quiet window completes what it began.
LEMMA WritesStep ==
  ASSUME PatchInv, OthersSuspended, ScopeShape, WritesThrough, [PatchNext]_<<vars, patchVars>>
  PROVE  WritesThrough'
<1> USE DEF WritesThrough
<1>1. ASSUME NEW c \in Listed, Begin(c), UNCHANGED vars
      PROVE  WritesThrough'
  <2>1. Window /\ step' \in {"idle", "already"} /\ UNCHANGED <<bytes, before>>
    BY <1>1 DEF Begin, InWindow, At, Window, PatchInv, PatchShape
  <2>2. \A d \in Listed \ {c} : outcome'[d] = outcome[d]
    BY <1>1 DEF Begin, PatchInv, PatchTypes
  <2>3. outcome'[c] \in {"None", "Skipped"}
    BY <1>1, BeginFresh DEF Begin, PatchInv, PatchTypes
  <2>4. Settled(c)'
    BY <2>3 DEF Settled
  <2> QED
    BY <2>1, <2>2, <2>4, SettledKept
<1>2. ASSUME CheckAlready \/ CheckExpected \/ CheckExecutable, UNCHANGED vars
      PROVE  WritesThrough'
  <2>1. /\ Window /\ step' \in {"idle", "expected", "executable", "unprotect"}
        /\ UNCHANGED <<bytes, before>>
        /\ current \in Listed /\ copied = {} /\ step # "idle"
        /\ \A d \in Listed \ {current} : outcome'[d] = outcome[d]
    BY <1>2 DEF CheckAlready, CheckExpected, CheckExecutable, Finish, Pass, InWindow, At, Window,
                PatchInv, PatchShape, PatchTypes
  <2>2. \A d \in Listed : d = current => Settled(d)'
    BY <2>1, UnwrittenSettled
  <2> QED
    BY <2>1, <2>2, SettledKept
<1>3. CASE Unprotect /\ UNCHANGED vars
  <2>1. /\ Window /\ step' \in {"idle", "copy"}
        /\ UNCHANGED <<bytes, before>>
        /\ current \in Listed /\ copied = {} /\ step = "unprotect"
        /\ \A d \in Listed \ {current} : outcome'[d] = outcome[d]
    BY <1>3 DEF Unprotect, Finish, InWindow, At, Window, PatchInv, PatchShape, PatchTypes
  <2>2. \A d \in Listed : d = current => /\ Settled(d)'
                                        /\ \A a \in d.expected : bytes[a] = before.bytes[a]
    BY <2>1, UnwrittenSettled
  <2>3. \A a \in current.expected : bytes[a] = "expected"
    BY <2>1 DEF PatchInv, Matched
  <2>4. ASSUME step' = "copy"
        PROVE  /\ current' = current
               /\ \A q \in PagesOf(current.replacement) : protection'[q] = "ExecuteReadWrite"
    <3>1. current' = current /\ protection' = Protect(current.replacement, "ExecuteReadWrite")
      BY <1>3, <2>4 DEF Unprotect, Finish
    <3>2. PagesOf(current.replacement) \subseteq Pages
      BY <2>1 DEF PagesOf, Pages
    <3> QED
      BY <3>1, <3>2 DEF Protect
  <2> QED
    BY <2>1, <2>2, <2>3, <2>4, SettledKept DEF PagesOf
<1>4. CASE Copy /\ UNCHANGED vars
  <2> DEFINE a == First(current.replacement \ copied)
  <2>1. /\ a \in current.replacement \ copied
        /\ step = "copy" /\ Window
        /\ current \in Listed /\ outcome[current] = "None"
    BY <1>4, CopyStep DEF PatchInv
  <2>2. PageOf[a] \in PagesOf(current.replacement)
    BY <2>1 DEF PagesOf
  <2>3. protection[PageOf[a]] = "ExecuteReadWrite"
    BY <2>1, <2>2
  <2>4. /\ bytes' = [bytes EXCEPT ![a] = "replacement"]
        /\ step' = IF copied' = current.replacement THEN "restore" ELSE "copy"
        /\ UNCHANGED <<outcome, current, protection, before>>
    BY <1>4, <2>3 DEF Copy
  <2> HIDE DEF a
  <2>5. ASSUME NEW c \in Listed
        PROVE  Settled(c)'
    <3>1. CASE c = current
      BY <2>1, <2>4, <3>1 DEF Settled
    <3>2. CASE c # current
      <4>1. a \notin c.expected \cup c.replacement
        BY <2>1, <3>2
      <4> QED
        BY <2>1, <2>4, <4>1, SiteFacts DEF Settled, PatchInv, PatchTypes
    <3> QED
      BY <3>1, <3>2
  <2> QED
    BY <2>1, <2>4, <2>5 DEF PagesOf
<1>5. ASSUME Restore \/ Verify, UNCHANGED vars
      PROVE  WritesThrough'
  <2>1. /\ Window /\ step' \in {"idle", "verify"}
        /\ UNCHANGED <<bytes, before>>
        /\ current \in Listed /\ step \in {"restore", "verify"}
        /\ step' = "verify" => current' = current
        /\ \A d \in Listed \ {current} : outcome'[d] = outcome[d]
    BY <1>5 DEF Restore, Verify, Finish, Pass, InWindow, At, Window, PatchInv, PatchShape, PatchTypes
  <2>2. \A d \in Listed : d = current => Settled(d)'
    BY <2>1, WrittenSettled
  <2> QED
    BY <2>1, <2>2, SettledKept
<1>6. CASE (\E a \in Image : Rewrite(a)) \/ Reprotect
  <2>1. ~Window /\ step = "idle" /\ UNCHANGED <<vars, step>>
    BY <1>6, QuietHolds DEF Rewrite, Reprotect, PatchInv, PatchShape
  <2> QED
    BY <2>1 DEF vars, scope, members, Window
<1>7. CASE (\E p \in Patchers : OpenWindow(p)) \/ CloseWindow
  <2>1. ~Window' /\ step' = step
    BY <1>7 DEF OpenWindow, Enter, CloseWindow, Leave, Window
  <2>2. step = "idle"
    BY <1>7 DEF OpenWindow, Enter, CloseWindow, PatchInv, PatchShape, ScopeShape, Window
  <2> QED
    BY <2>1, <2>2
<1>8. CASE SuspendOthers
  <2>1. outcome' = NoOutcome /\ step' = "idle"
    BY <1>8, WindowOpens DEF SuspendOthers, PatchInv, PatchShape
  <2> QED
    BY <2>1 DEF Settled, NoOutcome
<1>9. CASE UNCHANGED patchVars /\ UNCHANGED members
  BY <1>9 DEF patchVars, members, Window, Settled, PagesOf
<1>10. CASE Process /\ UNCHANGED patchVars
  BY <1>9, <1>10 DEF Process, Start, Exit, SuspendOutside, ResumeOutside, LockHeap, UnlockHeap,
              scope
<1> QED
  BY <1>1, <1>2, <1>3, <1>4, <1>5, <1>6, <1>7, <1>8, <1>9, <1>10 DEF PatchNext, CommitPatch, vars, scope

\* What is seen of a site depends on its bytes alone.
LEMMA SeenKept ==
  ASSUME SeenBytes' = SeenBytes
  PROVE  \A c \in Patchable : SiteHolds(c)' = SiteHolds(c)
BY DEF SiteHolds

\* What the game can make of a site by rewriting a byte of it.
GameMakes(c) ==
  \/ SiteHolds(c)' \in {"original", "other", SiteHolds(c)}
  \/ SiteHolds(c)' = "torn" /\ SiteHolds(c) \in {"replaced", "torn"}

\* A byte rewritten by the game makes no site replaced, and none torn that held
\* nothing of its replacement.
LEMMA SeenRewrite ==
  ASSUME PatchTypes, NEW a \in Image, NEW b \in {"expected", "other"},
         SeenBytes = bytes, SeenBytes' = [bytes EXCEPT ![a] = b],
         NEW c \in Patchable
  PROVE  /\ GameMakes(c)
         /\ a \notin c.expected => SiteHolds(c)' = SiteHolds(c)
<1>1. c.replacement \subseteq c.expected /\ c.expected \subseteq Cells /\ c.replacement # {}
  BY DEF Patchable, WellFormed
<1>2. ASSUME a \notin c.expected
      PROVE  SiteHolds(c)' = SiteHolds(c)
  <2>1. \A x \in c.expected : SeenBytes'[x] = SeenBytes[x]
    BY <1>1, <1>2 DEF PatchTypes
  <2> QED
    BY <1>1, <2>1 DEF SiteHolds
<1>3. SiteHolds(c)' \in {"original", "replaced", "torn", "other"}
  BY DEF SiteHolds
<1>4. \A x \in c.replacement : SeenBytes'[x] = "replacement" => SeenBytes[x] = "replacement"
  BY <1>1 DEF PatchTypes
<1>5. ASSUME SiteHolds(c)' = "replaced"
      PROVE  SiteHolds(c) = "replaced"
  <2>1. \A x \in c.replacement : SeenBytes'[x] = "replacement"
    BY <1>5 DEF SiteHolds
  <2>2. \A x \in c.replacement : SeenBytes[x] = "replacement"
    BY <1>4, <2>1
  <2> QED
    BY <1>1, <2>2 DEF SiteHolds
<1>6. ASSUME SiteHolds(c)' = "torn"
      PROVE  SiteHolds(c) \in {"replaced", "torn"}
  <2>1. PICK x \in c.replacement : SeenBytes'[x] = "replacement"
    BY <1>6 DEF SiteHolds
  <2>2. SeenBytes[x] = "replacement" /\ x \in c.expected
    BY <1>1, <1>4, <2>1
  <2> QED
    BY <2>2 DEF SiteHolds
<1> QED
  BY <1>2, <1>3, <1>5, <1>6 DEF GameMakes

\* A window that closes has replaced original sites, and left the others.
LEMMA SeenClose ==
  ASSUME PatchInv, WritesThrough, Window, CloseWindow, NEW c \in Patchable
  PROVE  \/ SiteHolds(c)' = SiteHolds(c)
         \/ SiteHolds(c) = "original" /\ SiteHolds(c)' = "replaced"
<1>1. /\ SeenBytes = before.bytes /\ SeenBytes' = bytes
      /\ c \in Listed /\ c.replacement \subseteq c.expected /\ c.replacement # {}
  BY DEF SeenBytes, Window, CloseWindow, Leave, Patchable, WellFormed
<1>2. SiteTold(c) /\ Touched(c) = {} /\ Settled(c) /\ outcome[c] \in Outcomes
  <2>1. SiteTold(c) /\ Settled(c)
    BY <1>1 DEF PatchInv, SitesTold, WritesThrough
  <2>2. copied = {}
    BY DEF PatchInv, PatchShape, CloseWindow, Window
  <2>3. outcome[c] \in Outcomes
    BY <1>1 DEF PatchInv, PatchTypes
  <2> QED
    BY <2>1, <2>2, <2>3 DEF Touched
<1>3. CASE \A a \in c.expected : bytes[a] = before.bytes[a]
  BY <1>1, <1>3 DEF SiteHolds
<1>4. CASE /\ \A a \in c.expected : before.bytes[a] = "expected"
           /\ \A a \in c.replacement : bytes[a] = "replacement"
  <2>1. SiteHolds(c) = "original"
    BY <1>1, <1>4 DEF SiteHolds
  <2>2. PICK a \in c.replacement : bytes[a] # "expected" /\ a \in c.expected
    BY <1>1, <1>4
  <2>3. SiteHolds(c)' = "replaced"
    BY <1>1, <1>4, <2>2 DEF SiteHolds
  <2> QED
    BY <2>1, <2>3
<1>5. outcome[c] \in {"None", "AlreadyPatched", "Skipped"} => \A a \in c.expected : bytes[a] = before.bytes[a]
  BY <1>2 DEF SiteTold
<1>6. outcome[c] \in {"None", "AlreadyPatched", "Skipped", "Patched", "Failed"}
  BY <1>2 DEF Outcomes
<1> QED
  BY <1>2, <1>3, <1>4, <1>5, <1>6 DEF Settled

\* Every step of a patcher or of the game is a step of PatchedSites.
LEMMA SitesImplemented ==
  ASSUME PatchInv, OthersSuspended, WritesThrough, ScopeShape, [PatchNext]_<<vars, patchVars>>
  PROVE  [Patched!SitesNext]_([c \in Patchable |-> SiteHolds(c)])
<1>1. ASSUME \A c \in Patchable : SiteHolds(c)' = SiteHolds(c)
      PROVE  UNCHANGED [c \in Patchable |-> SiteHolds(c)]
  BY <1>1
<1>2. ASSUME SeenBytes' = SeenBytes
      PROVE  UNCHANGED [c \in Patchable |-> SiteHolds(c)]
  BY <1>1, <1>2, SeenKept
<1>3. ASSUME NEW a \in Image, Rewrite(a)
      PROVE  [Patched!SitesNext]_([c \in Patchable |-> SiteHolds(c)])
  <2>1. ~Window /\ UNCHANGED vars
    BY <1>3, QuietHolds DEF Rewrite, PatchInv
  <2>2. PICK b \in {"expected", "other"} : bytes' = [bytes EXCEPT ![a] = b]
    BY <1>3 DEF Rewrite
  <2>3. SeenBytes = bytes /\ SeenBytes' = bytes'
    BY <2>1 DEF SeenBytes, Window, vars, scope, members
  <2>4. CASE \A c \in Patchable : a \notin c.expected
    BY <1>1, <2>2, <2>3, <2>4, SeenRewrite DEF PatchInv
  <2>5. ASSUME NEW c \in Patchable, a \in c.expected
        PROVE  [Patched!SitesNext]_([d \in Patchable |-> SiteHolds(d)])
    <3>1. \A d \in Patchable : d # c => a \notin d.expected
      BY <2>5 DEF Patchable
    <3>2. \A d \in Patchable : d # c => SiteHolds(d)' = SiteHolds(d)
      BY <2>2, <2>3, <3>1, SeenRewrite DEF PatchInv
    <3>3. GameMakes(c)
      BY <2>2, <2>3, SeenRewrite DEF PatchInv
    <3>4. CASE SiteHolds(c)' = SiteHolds(c)
      BY <1>1, <3>2, <3>4
    <3>5. ASSUME NEW v \in {"original", "other", "torn"}, SiteHolds(c)' = v,
                 v = "torn" => SiteHolds(c) \in {"replaced", "torn"}
          PROVE  [Patched!SitesNext]_([d \in Patchable |-> SiteHolds(d)])
      <4>1. [d \in Patchable |-> SiteHolds(d)]' =
              [[d \in Patchable |-> SiteHolds(d)] EXCEPT ![c] = v]
        BY <3>2, <3>5
      <4>2. [d \in Patchable |-> SiteHolds(d)][c] = SiteHolds(c)
        OBVIOUS
      <4>3. Patched!Rewrite(c)
        BY <3>5, <4>1, <4>2 DEF Patched!Rewrite
      <4> QED
        BY <4>3 DEF Patched!SitesNext
    <3> QED
      BY <3>3, <3>4, <3>5 DEF GameMakes
  <2> QED
    BY <2>4, <2>5
<1>4. CASE CloseWindow
  <2>1. CASE ~Window
    <3>1. SeenBytes' = SeenBytes
      BY <1>4, <2>1 DEF SeenBytes, Window, CloseWindow, Leave
    <3> QED
      BY <1>2, <3>1
  <2>2. CASE Window
    <3>1. \A c \in Patchable : \/ SiteHolds(c)' = SiteHolds(c)
                               \/ SiteHolds(c) = "original" /\ SiteHolds(c)' = "replaced"
      BY <1>4, <2>2, SeenClose
    <3>2. \A c \in Patchable : SiteHolds(c)' \in {"original", "replaced", "torn", "other"}
      BY DEF SiteHolds
    <3>3. Patched!Replace
      BY <3>1, <3>2 DEF Patched!Replace, Patched!Holds
    <3> QED
      BY <3>3 DEF Patched!SitesNext
  <2> QED
    BY <2>1, <2>2
<1>5. CASE SuspendOthers
  <2>1. ~Window /\ bytes' = bytes
    BY <1>5, WindowOpens DEF SuspendOthers
  <2>2. Window' => before'.bytes = bytes
    BY <1>5 DEF SuspendOthers, Window
  <2>3. SeenBytes' = SeenBytes
    BY <2>1, <2>2 DEF SeenBytes, Window
  <2> QED
    BY <1>2, <2>3
<1>6. CASE \E p \in Patchers : OpenWindow(p)
  <2>1. SeenBytes' = SeenBytes
    BY <1>6 DEF OpenWindow, Enter, SeenBytes, ScopeShape
  <2> QED
    BY <1>2, <2>1
<1>7. CASE CommitPatch /\ UNCHANGED vars
  <2>1. Window /\ before' = before
    BY <1>7 DEF CommitPatch, Begin, CheckAlready, CheckExpected, CheckExecutable, Unprotect, Copy,
                Restore, Verify, InWindow, At, Window
  <2>2. SeenBytes' = SeenBytes
    BY <1>7, <2>1 DEF SeenBytes, Window, vars, scope, members
  <2> QED
    BY <1>2, <2>2
<1>8. ASSUME UNCHANGED <<bytes, before>>, UNCHANGED members
      PROVE  [Patched!SitesNext]_([c \in Patchable |-> SiteHolds(c)])
  <2>1. SeenBytes' = SeenBytes
    BY <1>8 DEF SeenBytes, members
  <2> QED
    BY <1>2, <2>1
<1>9. CASE Process /\ UNCHANGED patchVars
  BY <1>8, <1>9 DEF patchVars, Process, Start, Exit, SuspendOutside, ResumeOutside, LockHeap, UnlockHeap,
              scope
<1>10. CASE Reprotect \/ UNCHANGED <<vars, patchVars>>
  BY <1>8, <1>10 DEF Reprotect, patchVars, vars, scope, members
<1> QED
  BY <1>3, <1>4, <1>5, <1>6, <1>7, <1>9, <1>10 DEF PatchNext

\* Quiet windows implement PatchedSites, and those are all in which nobody was
\* created since the snapshot: whatever fails in them, the threads of the game find
\* each site as it was or replaced as a whole, and only where it was original.
THEOREM WholeSitesReplaced ==
  /\ PatchSpec /\ []OthersSuspended => ReplacesWholeSites
  /\ PatchSpec /\ []NoNewcomersInWindows => ReplacesWholeSites
<1>1. PatchInit => Patched!SitesInit /\ WritesThrough
  <2> SUFFICES ASSUME PatchInit
               PROVE  Patched!SitesInit /\ WritesThrough
    OBVIOUS
  <2>1. SeenBytes = bytes /\ \A c \in Patchable : \A a \in c.expected : bytes[a] = "expected"
    BY DEF PatchInit, Init, SeenBytes, Patchable
  <2>2. \A c \in Patchable : SiteHolds(c) = "original"
    BY <2>1 DEF SiteHolds
  <2>3. WritesThrough
    BY DEF PatchInit, Init, WritesThrough, Window
  <2> QED
    BY <2>2, <2>3 DEF Patched!SitesInit
<1>2. PatchInv /\ OthersSuspended /\ ScopeInv /\ WritesThrough /\ [PatchNext]_<<vars, patchVars>>
        => WritesThrough' /\ [Patched!SitesNext]_([c \in Patchable |-> SiteHolds(c)])
  BY WritesStep, SitesImplemented DEF ScopeInv
<1>3. OnlyNewcomersRun /\ NoNewcomersInWindows => OthersSuspended
  BY QuietWindow
<1> QED
  BY <1>1, <1>2, <1>3, PatchInvariant, OnlyNewcomersRunHolds, WindowsAreScopes, ScopeInvariant, PTL
  DEF PatchSpec, ReplacesWholeSites, Patched!SitesSpec
=============================================================================
