-------------------------- MODULE ConstantDiscovery --------------------------
(***************************************************************************)
(* DiscoverConstants (antitamper/DD2FamilyBypass.cpp) and                  *)
(* DiscoverRe9Constants (antitamper/RE9FamilyBypass.cpp): one loop that    *)
(* collects every match of a signature as a site to patch.  The first      *)
(* search covers the module, a resumed one leaves a margin at its end out. *)
(***************************************************************************)
EXTENDS MemoryScan

CONSTANTS Signature,    \* "81 ? E1 53 BD 4C" or "E1 53 BD 4C 75 ?"
          Margin        \* how much of the module a resumed search leaves out (0x1000)

ASSUME SignatureAssumption ==
  Signature \in Patterns /\ Margin \in Nat /\ Len(Signature) <= Len(Image)

VARIABLES discovering,  \* the discovery has not returned
          sites,        \* out: the addresses found
          lasting       \* history: the pages readable ever since the discovery began,
                        \*   and whether any of its searches was raced

discoveryVars == <<discovering, sites, lasting>>

GameEnd == Len(Image) + 1

BeginDiscovery ==
  /\ discovering = FALSE /\ sites = {} /\ scan = NoScan
  /\ discovering' = TRUE
  /\ BeginScan(Signature, 1, GameEnd)
  /\ lasting' = [pages |-> ReadablePages, raced |-> FALSE]
  /\ UNCHANGED <<memory, sites>>

\* The bytes are read once more, wildcards included, and compared.
Collect(a) == IF \A j \in DOMAIN Signature : IsReadable(a + j - 1)
              THEN sites' = sites \cup {a}
              ELSE UNCHANGED sites

\* Mutated NextStart: the search goes on past the whole match.
PastMatch(a) == a + Len(Signature) + 1

\* *ref + 1
NextStart(a) == a + 1

CollectMatch ==
  /\ discovering /\ scan.phase = "hit"
  /\ Collect(scan.a)
  /\ IF NextStart(scan.a) + Margin >= GameEnd
     THEN discovering' = FALSE /\ EndScan
     ELSE BeginScan(Signature, NextStart(scan.a), GameEnd - Margin) /\ UNCHANGED discovering
  /\ lasting' = [lasting EXCEPT !.raced = @ \/ raced]
  /\ UNCHANGED memory

NoMoreMatches ==
  /\ discovering /\ scan.phase = "miss"
  /\ discovering' = FALSE /\ EndScan
  /\ lasting' = [lasting EXCEPT !.raced = @ \/ raced]
  /\ UNCHANGED <<memory, sites>>

\* The game changes a protection meanwhile.
ReprotectSites ==
  /\ discovering
  /\ \E p \in Pages, prot \in Protections :
       /\ Protect(p, prot)
       /\ lasting' = IF prot = "NoAccess" THEN [lasting EXCEPT !.pages = @ \ {p}] ELSE lasting
  /\ UNCHANGED <<discovering, sites>>

DiscoveryInit == discovering = FALSE /\ sites = {} /\ lasting = [pages |-> {}, raced |-> FALSE]

DiscoveryStep == \/ BeginDiscovery \/ CollectMatch \/ NoMoreMatches
                 \/ ScanStep /\ UNCHANGED discoveryVars
                 \/ ReprotectSites

DiscoverySpec ==
  MemoryInit /\ DiscoveryInit /\ [][DiscoveryStep]_<<memory, scanVars, discoveryVars>>
-----------------------------------------------------------------------------
(* Properties.                                                             *)

AllPages(a) == {PageOf(a + j - 1) : j \in DOMAIN Signature}

Occurrences == {a \in 1..Len(Image) - Len(Signature) + 1 : Matches(Signature, a)}

\* The searches are to find a: it is not in the margin, or the first of all.
Due(a) == a + Len(Signature) <= GameEnd - Margin \/ \A b \in Occurrences : a <= b

\* Whatever pages come and go, a site that can be read all through the discovery
\* is collected unless a search was raced; of the sites in the margin, only one
\* that is the first of the module.
EverySteadySiteFound ==
  ~discovering /\ ~lasting.raced =>
    \A a \in Occurrences : AllPages(a) \subseteq lasting.pages /\ Due(a) => a \in sites
=============================================================================
