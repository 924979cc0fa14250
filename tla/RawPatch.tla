------------------------------ MODULE RawPatch ------------------------------
(***************************************************************************)
(* The raw-patch window: CommitRawPatches of the two family layers (and    *)
(* the one-shot commits of the PE-header and stack-destroyer layers) write *)
(* their candidates with memory::CommitPatch while a ThreadSuspensionScope *)
(* is held.  The game's threads, where they run, may rewrite any byte of   *)
(* the image and change any page's protection between two steps.           *)
(*                                                                         *)
(* A byte is "expected", "replacement" or "other", from the point of view  *)
(* of the one candidate whose site it belongs to.                          *)
(***************************************************************************)
EXTENDS ThreadSuspension, Sequences

CONSTANTS Cells,         \* byte addresses
          Image,         \* those of the main executable image
          PageOf,        \* the page of each address
          Candidates,    \* what discovery found, in the order it was found
          NoCandidate,
          RestoreMayFail,\* the second VirtualProtect may fail
          MixedPages     \* pages of a site may be protected differently

ASSUME AddressesAssumption ==
  /\ Cells \subseteq Nat /\ IsFiniteSet(Cells) /\ Image \subseteq Cells
  /\ DOMAIN PageOf = Cells
Listed == {Candidates[i] : i \in DOMAIN Candidates}

ASSUME CandidatesAssumption ==
  /\ NoCandidate \notin Listed
  /\ Candidates \in Seq(Listed)
  /\ \A i, j \in DOMAIN Candidates : Candidates[i] = Candidates[j] => i = j
  /\ \A c \in Listed : /\ c.expected \subseteq Cells /\ c.replacement \subseteq Cells
                       /\ c.requireUnwindFunctionStart \in BOOLEAN
                       /\ c.isFunctionStart \in BOOLEAN
  /\ \A c, d \in Listed :
       c # d => (c.expected \cup c.replacement) \intersect (d.expected \cup d.replacement) = {}
ASSUME PatchFlagsAssumption == RestoreMayFail \in BOOLEAN /\ MixedPages \in BOOLEAN

Pages == {PageOf[a] : a \in Cells}
Bytes == {"expected", "replacement", "other"}
Protections == {"NoAccess", "ReadWrite", "ExecuteRead", "ExecuteReadWrite"}

VARIABLES
  bytes,       \* address -> what it holds
  protection,  \* page -> its protection; "NoAccess" also if not committed
  work,        \* candidates the window has not come to
  current,     \* candidate being committed
  step,        \* CommitPatch's and WriteBytes' next step
  oldProtect,  \* WriteBytes' local
  copied,      \* addresses memcpy has written
  outcome,     \* candidate -> what CommitPatch returned in this window
  before       \* history: bytes and protection when the window opened

NoOutcome == [c \in Listed |-> "None"]
Unrecorded == [bytes |-> [a \in Cells |-> "other"], protection |-> [p \in Pages |-> "NoAccess"]]

patchVars == <<bytes, protection, work, current, step, oldProtect, copied, outcome, before>>
-----------------------------------------------------------------------------
(* What the checks see.                                                    *)

PagesOf(S) == {PageOf[a] : a \in S}

RangeIsCommitted(S) == S # {} /\ \A p \in PagesOf(S) : protection[p] # "NoAccess"

RangeIsExecutable(S) ==
  S # {} /\ \A p \in PagesOf(S) : protection[p] \in {"ExecuteRead", "ExecuteReadWrite"}

\* Mutated SafeCompare: a partial match will do.
SafeCompareAny(S, what) == \E a \in S : bytes[a] = what

\* An unreadable range compares different.
SafeCompare(S, what) ==
  /\ \A p \in PagesOf(S) : protection[p] # "NoAccess"
  /\ \A a \in S : bytes[a] = what

\* The candidate's fields fit together and its site lies in the image.
WellFormed(c) == /\ c.expected # {} /\ c.replacement # {}
                 /\ c.replacement \subseteq c.expected
                 /\ c.expected \subseteq Image

First(S) == CHOOSE a \in S : \A b \in S : a <= b
-----------------------------------------------------------------------------
(* CommitPatch.                                                            *)

InWindow == At("window") /\ ok

Finish(result) == /\ outcome' = [outcome EXCEPT ![current] = result]
                  /\ step' = "idle"
                  /\ current' = NoCandidate
                  /\ copied' = {}
                  /\ oldProtect' = "NoAccess"

Pass(next) == step' = next /\ UNCHANGED <<outcome, current, copied, oldProtect>>

Begin(c) ==
  /\ InWindow /\ step = "idle" /\ work # <<>> /\ c = Head(work)
  /\ work' = Tail(work)
  /\ IF WellFormed(c) /\ RangeIsCommitted(c.expected)
     THEN current' = c /\ step' = "already" /\ UNCHANGED outcome
     ELSE outcome' = [outcome EXCEPT ![c] = "Skipped"] /\ UNCHANGED <<current, step>>
  /\ UNCHANGED <<bytes, protection, oldProtect, copied, before>>

CheckAlready ==
  /\ InWindow /\ step = "already"
  /\ IF SafeCompare(current.replacement, "replacement")
     THEN Finish("AlreadyPatched") ELSE Pass("expected")
  /\ UNCHANGED <<bytes, protection, work, before>>

CheckExpected ==
  /\ InWindow /\ step = "expected"
  /\ IF SafeCompare(current.expected, "expected") THEN Pass("executable") ELSE Finish("Skipped")
  /\ UNCHANGED <<bytes, protection, work, before>>

\* Every caller sets requireExecutable; the unwind data do not change.
CheckExecutable ==
  /\ InWindow /\ step = "executable"
  /\ IF /\ RangeIsExecutable(current.expected)
        /\ current.requireUnwindFunctionStart => current.isFunctionStart
     THEN Pass("unprotect") ELSE Finish("Skipped")
  /\ UNCHANGED <<bytes, protection, work, before>>

Protect(S, p) == [q \in Pages |-> IF q \in PagesOf(S) THEN p ELSE protection[q]]

\* The head of WriteBytes: a VirtualProtect that may fail, and that reports the
\* protection of the first page only.
Unprotect ==
  /\ InWindow /\ step = "unprotect"
  /\ \/ /\ RangeIsCommitted(current.replacement)
        /\ oldProtect' = protection[PageOf[First(current.replacement)]]
        /\ protection' = Protect(current.replacement, "ExecuteReadWrite")
        /\ step' = "copy"
        /\ UNCHANGED <<outcome, current, copied>>
     \/ Finish("Failed") /\ UNCHANGED protection
  /\ UNCHANGED <<bytes, work, before>>

\* Mutated Copy: the last byte is not written.
CopyOneShort ==
  /\ InWindow /\ step = "copy"
  /\ LET a == First(current.replacement \ copied)
     IN  IF \E b \in current.replacement : b > a
         THEN /\ bytes' = [bytes EXCEPT ![a] = "replacement"]
              /\ copied' = copied \cup {a}
              /\ UNCHANGED <<step, outcome, current, oldProtect>>
         ELSE Pass("restore") /\ UNCHANGED bytes
  /\ UNCHANGED <<protection, work, before>>

\* memcpy, one byte; a page that is no longer writable faults.
Copy ==
  /\ InWindow /\ step = "copy"
  /\ LET a == First(current.replacement \ copied)
     IN  IF protection[PageOf[a]] \in {"ReadWrite", "ExecuteReadWrite"}
         THEN /\ bytes' = [bytes EXCEPT ![a] = "replacement"]
              /\ copied' = copied \cup {a}
              /\ step' = IF copied' = current.replacement THEN "restore" ELSE "copy"
              /\ UNCHANGED <<outcome, current, oldProtect>>
         ELSE Pass("restore") /\ UNCHANGED bytes
  /\ UNCHANGED <<protection, work, before>>

\* Mutated Restore: the protection is left writable.
LeaveWritable ==
  /\ InWindow /\ step = "restore"
  /\ IF copied = current.replacement THEN Pass("verify") ELSE Finish("Failed")
  /\ UNCHANGED <<bytes, protection, work, before>>

\* The second VirtualProtect.
Restore ==
  /\ InWindow /\ step = "restore"
  /\ \/ /\ protection' = Protect(current.replacement, oldProtect)
        /\ IF copied = current.replacement THEN Pass("verify") ELSE Finish("Failed")
     \/ RestoreMayFail /\ Finish("Failed") /\ UNCHANGED protection
  /\ UNCHANGED <<bytes, work, before>>

Verify ==
  /\ InWindow /\ step = "verify"
  /\ Finish(IF SafeCompare(current.replacement, "replacement") THEN "Patched" ELSE "Failed")
  /\ UNCHANGED <<bytes, protection, work, before>>

CommitPatch == \/ \E c \in Listed : Begin(c)
               \/ CheckAlready \/ CheckExpected \/ CheckExecutable
               \/ Unprotect \/ Copy \/ Restore \/ Verify
-----------------------------------------------------------------------------
(* The image's other users, and the window around the commits.             *)

Interferers == {t \in Threads \ Patchers : Running(t)}

\* A thread of the game rewrites a byte of its image, or puts back what was there.
Rewrite(a) ==
  /\ Interferers # {}
  /\ bytes' \in {[bytes EXCEPT ![a] = b] : b \in {"expected", "other"}}
  /\ UNCHANGED <<protection, work, current, step, oldProtect, copied, outcome, before, vars>>

\* A thread of the game changes the protection of its code.
Reprotect ==
  /\ Interferers # {}
  /\ protection' \in {f \in [Pages -> Protections] : MixedPages \/ \A p, q \in Pages : f[p] = f[q]}
  /\ protection' # protection
  /\ UNCHANGED <<bytes, work, current, step, oldProtect, copied, outcome, before, vars>>

\* A family layer enters its window with the candidates it discovered.
OpenWindow(p) ==
  /\ Enter(p)
  /\ work' = Candidates
  /\ UNCHANGED <<bytes, protection, current, step, oldProtect, copied, outcome, before>>

\* Mutated SuspendOthers: the world is not suspended at all.
SuspendNobody ==
  /\ At("snapshot")
  /\ phase' = "window"
  /\ ok' = TRUE
  /\ before' = [bytes |-> bytes, protection |-> protection]
  /\ UNCHANGED <<process, suspendCount, owner, attempt, todo, pending, threads, capacity, snapshot,
                 newcomers>>
  /\ UNCHANGED <<bytes, protection, work, current, step, oldProtect, copied, outcome>>

SuspendOthers ==
  /\ Passes
  /\ before' = IF phase' = "window" THEN [bytes |-> bytes, protection |-> protection] ELSE before
  /\ UNCHANGED <<bytes, protection, work, current, step, oldProtect, copied, outcome>>

\* Nothing is written in a window that is not Ok().  The outcomes are logged only.
CloseWindow == /\ ok => work = <<>> /\ step = "idle"
               /\ Leave
               /\ work' = <<>>
               /\ outcome' = NoOutcome
               /\ before' = Unrecorded
               /\ UNCHANGED <<bytes, protection, current, step, oldProtect, copied>>
-----------------------------------------------------------------------------
PatchInit ==
  /\ Init
  /\ bytes = [a \in Cells |-> "expected"]
  /\ protection \in {f \in [Pages -> Protections] : MixedPages \/ \A p, q \in Pages : f[p] = f[q]}
  /\ work = <<>>
  /\ current = NoCandidate
  /\ step = "idle"
  /\ oldProtect = "NoAccess"
  /\ copied = {}
  /\ outcome = NoOutcome
  /\ before = Unrecorded

PatchNext ==
  \/ Process /\ UNCHANGED patchVars
  \/ \E a \in Image : Rewrite(a)
  \/ Reprotect
  \/ \E p \in Patchers : OpenWindow(p)
  \/ SuspendOthers
  \/ CommitPatch /\ UNCHANGED vars
  \/ CloseWindow

PatchSpec == PatchInit /\ [][PatchNext]_<<vars, patchVars>>
-----------------------------------------------------------------------------
(* Properties.  No thread of the game runs in a window, unless one was     *)
(* created since the window's snapshot (OnlyNewcomersRun): what is said of *)
(* outcomes, writes and protections is said of the windows where none was. *)

Outcomes == {"None", "Patched", "AlreadyPatched", "Skipped", "Failed"}
Steps == {"idle", "already", "expected", "executable", "unprotect", "copy", "restore", "verify"}

PatchTypeOK ==
  /\ TypeOK
  /\ bytes \in [Cells -> Bytes]
  /\ protection \in [Pages -> Protections]
  /\ \E n \in 0..Len(Candidates) : work = SubSeq(Candidates, n + 1, Len(Candidates))
  /\ current \in Listed \cup {NoCandidate}
  /\ step \in Steps
  /\ oldProtect \in Protections
  /\ copied \subseteq Cells
  /\ outcome \in [Listed -> Outcomes]
  /\ before \in [bytes : [Cells -> Bytes], protection : [Pages -> Protections]]

BetweenCommits == InWindow /\ step = "idle"

\* No thread was created since the window's snapshot.
NoNewcomer == newcomers = {}

\* PatchOutcome means what its comments say: "replacement written and
\* verified", "already in place", "nothing written", and no commit touches a
\* byte beside its replacement.
OutcomesTellTheBytes ==
  BetweenCommits /\ NoNewcomer =>
    \A c \in Listed :
      /\ outcome[c] \in {"Patched", "AlreadyPatched"} =>
           \A a \in c.replacement : bytes[a] = "replacement"
      /\ outcome[c] \in {"None", "AlreadyPatched", "Skipped"} =>
           \A a \in c.expected : bytes[a] = before.bytes[a]
      /\ \A a \in c.expected \ c.replacement : bytes[a] = before.bytes[a]

\* After a commit that did not fail the pages are protected as before it, the
\* ones a candidate shares with the next included.
ProtectionRestored ==
  BetweenCommits /\ NoNewcomer /\ (\A c \in Listed : outcome[c] # "Failed") =>
    protection = before.protection

\* "Full local pattern must still match exactly before we touch anything": it
\* does when the first byte is written, and so does the demand for an entry.
NoBlindWrite ==
  [][NoNewcomer /\ copied = {} /\ copied' # {} =>
       /\ \A a \in current.expected : bytes[a] = "expected"
       /\ current.requireUnwindFunctionStart => current.isFunctionStart
       /\ current.expected \subseteq Image]_<<vars, patchVars>>

\* A site as the threads of the game find it: they do not look into a window.
SeenBytes == IF phase = "window" /\ ok THEN before.bytes ELSE bytes

SiteHolds(c) ==
  IF \A a \in c.expected : SeenBytes[a] = "expected" THEN "original"
  ELSE IF \A a \in c.replacement : SeenBytes[a] = "replacement" THEN "replaced"
  ELSE IF \E a \in c.replacement : SeenBytes[a] = "replacement" THEN "torn"
  ELSE "other"

Patchable == {c \in Listed : WellFormed(c)}

Patched == INSTANCE PatchedSites WITH Sites <- Patchable, site <- [c \in Patchable |-> SiteHolds(c)]

\* Where no thread is created during a walk, commits byte by byte, with a failure
\* possible at every call, amount to replacing some original sites as wholes when
\* the window closes: none is left half-written, none is written over that had
\* changed.
ReplacesWholeSites == Patched!SitesSpec
=============================================================================
