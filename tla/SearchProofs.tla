---------------------------- MODULE SearchProofs ----------------------------
(***************************************************************************)
(* Proofs about the searches in the image, for any image, page size,       *)
(* patterns and limits: MemoryScan (nothing certain is passed over),       *)
(* ConstantDiscovery (every steady site is found), RendererBridge (answers *)
(* that were true, and a slot that is the context's) and PathWalk (what    *)
(* the walk finds can be reached, and what it does not find cannot).       *)
(***************************************************************************)
EXTENDS PathWalk, ConstantDiscovery, RendererBridge,
        SequenceTheorems, FiniteSetTheorems, WellFoundedInduction, TLAPS

(* Arithmetic.                                                             *)

\* Every non-empty set of naturals has a least member.
LEMMA Least ==
  ASSUME NEW S \in SUBSET Nat, S # {}
  PROVE  \E m \in S : \A n \in S : m <= n
<1>1. PICK m \in S : \A n \in S : <<n, m>> \notin OpToRel(<, Nat)
  BY WFMin, NatLessThanWellFounded
<1>2. \A n \in S : ~(n < m)
  BY <1>1, Zenon DEF OpToRel
<1> QED
  BY <1>2

\* Division with remainder.
LEMMA Division ==
  ASSUME NEW n \in Nat, NEW d \in Nat \ {0}
  PROVE  n \div d \in Nat /\ d * (n \div d) <= n /\ n < d * (n \div d) + d
  OBVIOUS

\* Multiples of a smaller number end before those of a larger one.
LEMMA Product ==
  ASSUME NEW d \in Nat \ {0}, NEW p \in Nat, NEW q \in Nat
  PROVE  /\ p < q => d * p + d <= d * q
         /\ d * p \in Nat
  OBVIOUS

\* A number that a divisor divides evenly is that multiple of it.
LEMMA Whole ==
  ASSUME NEW n \in Nat, NEW d \in Nat \ {0}, n % d = 0
  PROVE  n = d * (n \div d)
  OBVIOUS

\* Where a page begins.
First(p) == PageSize * (p - 1) + 1

\* An address lies on its page.
LEMMA FirstOfPage ==
  ASSUME NEW a \in Nat \ {0}
  PROVE  /\ PageOf(a) \in Nat \ {0}
         /\ First(PageOf(a)) <= a /\ a < First(PageOf(a)) + PageSize
<1> DEFINE n == a - 1
           k == n \div PageSize
<1>1. n \in Nat /\ PageSize \in Nat \ {0}
  BY ImageAssumption
<1> HIDE DEF n
<1>2. k \in Nat /\ PageSize * k <= n /\ n < PageSize * k + PageSize
  BY <1>1, Division
<1>3. PageOf(a) = k + 1 /\ n = a - 1
  BY DEF PageOf, n
<1> HIDE DEF k
<1>4. First(PageOf(a)) = PageSize * k + 1
  BY <1>2, <1>3 DEF First
<1> QED
  BY <1>1, <1>2, <1>3, <1>4, Product

\* A page is at or before another address's page when it begins at or before it.
LEMMA PageOrder ==
  ASSUME NEW a \in Nat \ {0}, NEW p \in Nat \ {0}
  PROVE  /\ First(p) \in Nat
         /\ p <= PageOf(a) => First(p) <= a
         /\ p > PageOf(a) => a < First(p)
<1> DEFINE m == p - 1
           k == PageOf(a) - 1
<1>4. First(p) = PageSize * m + 1 /\ First(PageOf(a)) = PageSize * k + 1
  BY DEF First
<1>5. m \in Nat /\ k \in Nat /\ PageSize \in Nat \ {0}
  BY FirstOfPage, ImageAssumption
<1>1. /\ m \in Nat /\ k \in Nat /\ PageSize \in Nat \ {0}
      /\ First(p) = PageSize * m + 1
      /\ PageSize * k + 1 <= a /\ a < PageSize * k + 1 + PageSize
  BY <1>4, <1>5, FirstOfPage
<1>3. p = m + 1 /\ PageOf(a) = k + 1
  BY FirstOfPage
<1> HIDE DEF m, k
<1>2. /\ m < k => PageSize * m + PageSize <= PageSize * k
      /\ k < m => PageSize * k + PageSize <= PageSize * m
      /\ PageSize * m \in Nat /\ PageSize * k \in Nat
  BY <1>1, Product
<1>6. CASE m < k
  BY <1>1, <1>2, <1>3, <1>6
<1>7. CASE k < m
  BY <1>1, <1>2, <1>3, <1>7
<1>8. CASE m = k
  BY <1>1, <1>2, <1>3, <1>8
<1> QED
  BY <1>1, <1>6, <1>7, <1>8

\* The addresses of the image lie on its pages.
LEMMA PagesOfImage ==
  /\ DOMAIN Image = 1..Len(Image) /\ Len(Image) \in Nat
  /\ \A a \in DOMAIN Image : a \in Nat \ {0} /\ PageOf(a) \in Pages
  /\ Pages \subseteq Nat \ {0}
<1> DEFINE k == Len(Image) \div PageSize
<1>1. k \in Nat /\ Len(Image) = PageSize * k /\ PageSize \in Nat \ {0} /\ Len(Image) \in Nat \ {0}
  BY ImageAssumption, Division, Whole
<1>2. Pages = 1..k /\ DOMAIN Image = 1..Len(Image)
  BY ImageAssumption DEF Pages
<1> HIDE DEF k
<1>3. ASSUME NEW a \in DOMAIN Image
      PROVE  a \in Nat \ {0} /\ PageOf(a) \in Pages
  <2>1. a \in Nat \ {0} /\ a <= PageSize * k
    BY <1>1, <1>2, <1>3
  <2>2. PageOf(a) \in Nat \ {0} /\ (k + 1 <= PageOf(a) => First(k + 1) <= a)
    BY <1>1, <2>1, FirstOfPage, PageOrder
  <2>3. First(k + 1) = PageSize * k + 1 /\ PageSize * k \in Nat
    BY <1>1 DEF First
  <2> QED
    BY <1>1, <1>2, <2>1, <2>2, <2>3
<1> QED
  BY <1>1, <1>2, <1>3

-----------------------------------------------------------------------------
\* A match that could be read ever since the scan began.
Certain(pattern, a) == Matches(pattern, a) /\ PagesRead(pattern, a) \subseteq steady

\* The scan looks for a pattern inside the image.
Fits == /\ scan.pattern \in Patterns
        /\ scan.start \in Nat \ {0} /\ scan.addr \in Nat /\ scan.a \in Nat /\ scan.last \in Int
        /\ scan.last + Len(scan.pattern) <= Len(Image) + 1

Active == scan.phase \in {"compare", "faulted", "hit"}

ScanTypes ==
  /\ protection \in [Pages -> Protections]
  /\ steady \subseteq ReadablePages
  /\ raced \in BOOLEAN
  /\ scan.phase \in Phases
  /\ DOMAIN scan = {"pattern", "start", "last", "addr", "a", "phase"}
  /\ scan.phase # "idle" => Fits
  /\ Active => scan.start <= scan.addr /\ scan.addr <= scan.a /\ scan.a <= scan.last

\* No certain match is behind the scan.
NonePassed ==
  ~raced =>
    /\ Active => \A b \in scan.start..scan.a - 1 : ~Certain(scan.pattern, b)
    /\ scan.phase = "faulted" => Faults(scan.pattern, scan.a)
    /\ scan.phase = "miss" => \A b \in scan.start..scan.last : ~Certain(scan.pattern, b)

ScanInv ==
  /\ ScanTypes
  /\ NonePassed
  /\ scan.phase = "hit" => Matches(scan.pattern, scan.a)

\* The region is past its address, protected like it, and ends at the first page that is not.
LEMMA RegionBounds ==
  ASSUME NEW a \in Nat \ {0}
  PROVE  /\ RegionEnd(a) \in Nat
         /\ a \in DOMAIN Image => RegionEnd(a) > a
         /\ \A q \in Pages : q > PageOf(a) /\ protection[q] # protection[PageOf(a)] =>
              RegionEnd(a) <= First(q)
         /\ \A b \in a..RegionEnd(a) - 1 : b \in DOMAIN Image =>
              protection[PageOf(b)] = protection[PageOf(a)]
<1> DEFINE others == {q \in Pages : q > PageOf(a) /\ protection[q] # protection[PageOf(a)]}
<1>1. /\ others \subseteq Pages /\ Pages \subseteq Nat \ {0} /\ PageOf(a) \in Nat \ {0}
      /\ Len(Image) \in Nat /\ DOMAIN Image = 1..Len(Image)
      /\ \A q \in others : q > PageOf(a) /\ protection[q] # protection[PageOf(a)]
  BY PagesOfImage, FirstOfPage
<1> HIDE DEF others
<1>2. ASSUME NEW b \in DOMAIN Image, b >= a, PageOf(b) \notin others
      PROVE  protection[PageOf(b)] = protection[PageOf(a)]
  <2>1. PageOf(b) \in Pages /\ b \in Nat \ {0}
    BY PagesOfImage
  <2>2. PageOf(b) >= PageOf(a)
    <3>1. First(PageOf(b)) <= b /\ b < First(PageOf(b)) + PageSize
      BY <2>1, FirstOfPage
    <3>2. First(PageOf(a)) <= a
      BY FirstOfPage
    <3>3. PageOf(a) > PageOf(b) => b < First(PageOf(a))
      BY <1>1, <2>1, PageOrder
    <3>4. First(PageOf(a)) \in Nat
      BY <1>1, PageOrder
    <3>5. PageOf(b) \in Nat /\ PageOf(a) \in Nat /\ b \in Nat /\ a \in Nat /\ b >= a
      BY <1>1, <1>2, <2>1
    <3>6. ~(PageOf(a) > PageOf(b))
      <4> SUFFICES ASSUME PageOf(a) > PageOf(b) PROVE FALSE
        OBVIOUS
      <4>1. b < First(PageOf(a))
        BY <3>3
      <4> QED
        BY <3>2, <3>4, <3>5, <4>1
    <3> QED
      BY <3>5, <3>6
  <2>3. PageOf(b) # PageOf(a) => PageOf(b) > PageOf(a)
    <3>1. PageOf(b) \in Nat /\ PageOf(a) \in Nat
      BY <1>1, <2>1
    <3> QED
      BY <2>2, <3>1
  <2> QED
    BY <1>2, <2>1, <2>3 DEF others
<1>3. CASE others = {}
  <2>1. RegionEnd(a) = Len(Image) + 1
    BY <1>3 DEF RegionEnd, others
  <2>2. RegionEnd(a) \in Nat /\ (a \in DOMAIN Image => RegionEnd(a) > a)
    BY <1>1, <2>1
  <2>3. \A q \in Pages : ~(q > PageOf(a) /\ protection[q] # protection[PageOf(a)])
    BY <1>3 DEF others
  <2>4. ASSUME NEW b \in a..RegionEnd(a) - 1, b \in DOMAIN Image
        PROVE  protection[PageOf(b)] = protection[PageOf(a)]
    <3>1. b >= a
      BY <2>2, <2>4
    <3> QED
      BY <1>2, <1>3, <2>4, <3>1
  <2> QED
    BY <2>2, <2>3, <2>4
<1>4. CASE others # {}
  <2>1. PICK p \in others : \A q \in others : p <= q
    <3>1. others \subseteq Nat
      BY <1>1
    <3> QED
      BY <1>4, <3>1, Least
  <2>2. RegionEnd(a) = (p - 1) * PageSize + 1
    <3>1. \A r \in others : (\A q \in others : r <= q) => r = p
      BY <1>1, <2>1
    <3>2. p = CHOOSE r \in others : \A q \in others : r <= q
      BY <2>1, <3>1
    <3> QED
      BY <1>4, <3>2 DEF RegionEnd, others
  <2>3. RegionEnd(a) = First(p) /\ p \in Nat \ {0} /\ p > PageOf(a) /\ First(p) \in Nat
    <3>1. p \in Nat \ {0} /\ p > PageOf(a) /\ PageSize \in Nat \ {0}
      BY <1>1, <2>1, ImageAssumption
    <3>2. (p - 1) * PageSize + 1 = PageSize * (p - 1) + 1
      BY <3>1
    <3> QED
      BY <2>2, <3>1, <3>2, PageOrder DEF First
  <2>4. a < First(p)
    BY <2>3, PageOrder
  <2>5. ASSUME NEW q \in others
        PROVE  First(p) <= First(q)
    <3> DEFINE m == p - 1
               k == q - 1
    <3>1. m \in Nat /\ k \in Nat /\ m <= k /\ PageSize \in Nat \ {0}
      BY <1>1, <2>1, <2>3, ImageAssumption
    <3> HIDE DEF m, k
    <3>2. PageSize * m <= PageSize * k /\ PageSize * m \in Nat /\ PageSize * k \in Nat
      BY <3>1, Product
    <3> QED
      BY <3>2 DEF First, m, k
  <2>6. ASSUME NEW b \in a..First(p) - 1, b \in DOMAIN Image
        PROVE  PageOf(b) \notin others /\ b >= a
    <3>1. b \in Nat \ {0} /\ b < First(p) /\ b >= a
      BY <2>3, <2>6
    <3>2. p <= PageOf(b) => First(p) <= b
      BY <2>3, <3>1, PageOrder
    <3>3. PageOf(b) \in Nat /\ ~(p <= PageOf(b))
      BY <2>3, <3>1, <3>2, FirstOfPage
    <3> QED
      BY <2>1, <3>1, <3>3
  <2>7. \A q \in Pages : q > PageOf(a) /\ protection[q] # protection[PageOf(a)] => q \in others
    BY DEF others
  <2>8. ASSUME NEW b \in a..RegionEnd(a) - 1, b \in DOMAIN Image
        PROVE  protection[PageOf(b)] = protection[PageOf(a)]
    BY <1>2, <2>3, <2>6, <2>8
  <2>9. RegionEnd(a) \in Nat /\ RegionEnd(a) > a
    BY <2>3, <2>4
  <2> QED
    BY <2>3, <2>5, <2>7, <2>8, <2>9
<1> QED
  BY <1>3, <1>4

\* No certain match begins where the scan skips.
LEMMA SkippedUncertain ==
  ASSUME ScanTypes, scan.phase = "faulted", Faults(scan.pattern, scan.a),
         NEW b \in scan.a..RegionEnd(scan.addr) - 1, b <= scan.last
  PROVE  ~Certain(scan.pattern, b)
<1> DEFINE pat == scan.pattern
           a == scan.a
           addr == scan.addr
<1>1. /\ pat \in Patterns /\ Len(pat) \in 1..PageSize /\ DOMAIN pat = 1..Len(pat) /\ pat[1] # Wild
      /\ a \in Nat /\ addr \in Nat \ {0} /\ addr <= a /\ a <= scan.last /\ scan.last \in Int
      /\ scan.last + Len(pat) <= Len(Image) + 1
      /\ steady \subseteq ReadablePages /\ Faults(pat, a) /\ PageSize \in Nat \ {0}
  BY PatternsAssumption, ImageAssumption DEF ScanTypes, Active, Fits
<1>2. DOMAIN Image = 1..Len(Image) /\ Len(Image) \in Nat /\ Pages \subseteq Nat \ {0}
  BY PagesOfImage
<1>3. RegionEnd(addr) \in Nat
  BY <1>1, RegionBounds
<1> HIDE DEF pat, a, addr
<1>4. /\ b \in Nat \ {0} /\ a <= b /\ addr <= b /\ b < RegionEnd(addr) /\ b <= scan.last
      /\ b \in addr..RegionEnd(addr) - 1
  BY <1>1, <1>3 DEF pat, a, addr
<1>5. \A j \in 1..Len(pat) : b + j - 1 \in DOMAIN Image /\ a + j - 1 \in DOMAIN Image
  BY <1>1, <1>2, <1>4
<1>6. b \in DOMAIN Image /\ addr \in DOMAIN Image /\ PageOf(addr) \in Pages
  <2>1. b \in DOMAIN Image /\ addr \in DOMAIN Image
    BY <1>1, <1>2, <1>4
  <2> QED
    BY <2>1, PagesOfImage
<1>7. CASE protection[PageOf(addr)] = "NoAccess"
  <2>1. protection[PageOf(b)] = "NoAccess"
    BY <1>1, <1>4, <1>6, <1>7, RegionBounds
  <2>2. PageOf(b) \notin steady
    BY <1>1, <2>1 DEF ReadablePages
  <2>3. 1 \in Fixed(pat) /\ b + 1 - 1 = b
    BY <1>1, <1>4 DEF Fixed
  <2>4. PageOf(b) \in PagesRead(pat, b)
    BY <2>3 DEF PagesRead
  <2> QED
    BY <2>2, <2>4 DEF Certain, pat
<1>8. CASE protection[PageOf(addr)] # "NoAccess"
  <2>1. PICK j \in Fixed(pat) : ~IsReadable(a + j - 1)
    BY <1>1 DEF Faults
  <2>2. j \in 1..Len(pat) /\ j \in Nat \ {0} /\ j <= PageSize
    BY <1>1, <2>1 DEF Fixed
  <2>3. a + j - 1 \in DOMAIN Image /\ b + j - 1 \in DOMAIN Image
    BY <1>5, <2>2
  <2> DEFINE x == a + j - 1
             y == b + j - 1
             P == PageOf(x)
  <2>4. /\ x \in Nat \ {0} /\ y \in Nat \ {0} /\ P \in Pages /\ P \in Nat \ {0}
        /\ protection[P] = "NoAccess"
    BY <1>2, <2>1, <2>3, PagesOfImage DEF IsReadable
  <2>5. addr <= x /\ x <= y /\ y < b + PageSize
    BY <1>1, <1>4, <2>2
  <2> HIDE DEF x, y, P
  <2>6. P > PageOf(addr)
    <3>1. P # PageOf(addr)
      BY <1>8, <2>4
    <3>2. /\ First(P) <= x /\ x < First(P) + PageSize /\ PageOf(addr) \in Nat \ {0}
          /\ First(PageOf(addr)) <= addr /\ First(PageOf(addr)) \in Nat
      BY <1>1, <2>4, FirstOfPage, PageOrder DEF P
    <3>3. PageOf(addr) > P => x < First(PageOf(addr))
      BY <2>4, <3>2, PageOrder DEF P
    <3>4. ~(PageOf(addr) > P)
      <4> SUFFICES ASSUME PageOf(addr) > P PROVE FALSE
        OBVIOUS
      <4>1. x < First(PageOf(addr))
        BY <3>3
      <4> QED
        BY <1>1, <2>4, <2>5, <3>2, <4>1
    <3> QED
      BY <2>4, <3>1, <3>2, <3>4
  <2>7. b < First(P) /\ First(P) \in Nat
    <3>1. RegionEnd(addr) <= First(P)
      BY <1>1, <1>8, <2>4, <2>6, RegionBounds
    <3>2. First(P) \in Nat
      BY <2>4, PageOrder
    <3> QED
      BY <1>3, <1>4, <3>1, <3>2
  <2>8. PageOf(y) = P
    <3>1. /\ First(P) <= x /\ x < First(P) + PageSize
          /\ PageOf(y) \in Nat \ {0}
      BY <2>4, FirstOfPage DEF P
    <3>2. First(P + 1) = First(P) + PageSize
      BY <1>1, <2>4 DEF First
    <3>3. /\ P > PageOf(y) => y < First(P)
          /\ P + 1 <= PageOf(y) => First(P + 1) <= y
      BY <2>4, PageOrder
    <3>4. First(P) <= y /\ y < First(P) + PageSize
      BY <1>1, <1>4, <2>4, <2>5, <2>7, <3>1
    <3>5. ~(P > PageOf(y)) /\ ~(P + 1 <= PageOf(y))
      BY <1>1, <2>4, <2>7, <3>2, <3>3, <3>4
    <3> QED
      BY <2>4, <3>1, <3>5
  <2>9. P \notin steady
    BY <1>1, <2>4 DEF ReadablePages
  <2>10. P \in PagesRead(pat, b)
    BY <2>1, <2>8 DEF PagesRead, y
  <2> QED
    BY <2>9, <2>10 DEF Certain, pat
<1> QED
  BY <1>7, <1>8

\* A search that begins has nothing behind it.
LEMMA BeginKeepsInv ==
  ASSUME ScanTypes, NEW pattern \in Patterns,
         NEW start \in 1..Len(Image) + 1, NEW end \in 1..Len(Image) + 1,
         BeginScan(pattern, start, end), UNCHANGED memory
  PROVE  ScanInv'
<1>1. /\ Len(pattern) \in Nat \ {0} /\ Len(Image) \in Nat
      /\ start \in Nat \ {0} /\ end \in Nat /\ end <= Len(Image) + 1
  BY PatternsAssumption, PagesOfImage
<1>2. scan' = Scanning(pattern, start, end) /\ steady' = ReadablePages /\ raced' = FALSE
      /\ protection' = protection
  BY DEF BeginScan, memory
<1>3. /\ scan'.pattern = pattern /\ scan'.start = start /\ scan'.last = end - Len(pattern)
      /\ scan'.addr = start /\ scan'.a = start
      /\ scan'.phase = IF start + Len(pattern) <= end THEN "compare" ELSE "miss"
      /\ DOMAIN scan' = {"pattern", "start", "last", "addr", "a", "phase"}
  BY <1>2 DEF Scanning
<1>4. Fits'
  BY <1>1, <1>3 DEF Fits
<1>5. Active' => scan'.start <= scan'.addr /\ scan'.addr <= scan'.a /\ scan'.a <= scan'.last
  BY <1>1, <1>3 DEF Active
<1>6. ScanTypes'
  <2>1. steady' \subseteq ReadablePages'
    BY <1>2 DEF ReadablePages
  <2>2. scan'.phase \in Phases
    BY <1>3 DEF Phases
  <2> QED
    BY <1>2, <1>3, <1>4, <1>5, <2>1, <2>2 DEF ScanTypes
<1>7. NonePassed'
  <2>1. scan'.phase \in {"compare", "miss"}
    BY <1>3
  <2>2. Active' => (scan'.start)..(scan'.a - 1) = {}
    BY <1>1, <1>3
  <2>3. scan'.phase = "miss" => (scan'.start)..(scan'.last) = {}
    BY <1>1, <1>3
  <2> QED
    BY <2>1, <2>2, <2>3 DEF NonePassed
<1> QED
  BY <1>3, <1>6, <1>7 DEF ScanInv

\* A search that ended promises nothing.
LEMMA EndKeepsInv ==
  ASSUME ScanTypes, EndScan, UNCHANGED memory
  PROVE  ScanInv'
  BY DEF ScanTypes, ScanInv, NonePassed, EndScan, NoScan, Active, Phases, memory, ReadablePages


\* An address that does not match, or the fault, leaves nothing certain behind.
LEMMA CompareKeepsInv ==
  ASSUME ScanInv, Compare, UNCHANGED memory
  PROVE  ScanInv'
<1> USE DEF ScanInv
<1>1. /\ scan.phase = "compare" /\ Active /\ Fits /\ UNCHANGED <<steady, raced, protection, changes>>
      /\ DOMAIN scan = {"pattern", "start", "last", "addr", "a", "phase"}
      /\ scan.start <= scan.addr /\ scan.addr <= scan.a /\ scan.a <= scan.last
  BY DEF Compare, memory, ScanTypes, Active
<1>2. /\ scan.start \in Nat \ {0} /\ scan.addr \in Nat /\ scan.a \in Nat /\ scan.last \in Int
      /\ scan.pattern \in Patterns
  BY <1>1 DEF Fits
<1>3. /\ \A p, b : Certain(p, b)' = Certain(p, b)
      /\ \A p, b : Faults(p, b)' = Faults(p, b)
      /\ \A p, b : Matches(p, b)' = Matches(p, b)
      /\ ReadablePages' = ReadablePages
  BY <1>1 DEF Certain, Matches, PagesRead, Fixed, Agrees, Faults, IsReadable, ReadablePages
<1>4. ~raced => \A b \in scan.start..scan.a - 1 : ~Certain(scan.pattern, b)
  BY <1>1 DEF NonePassed
<1>5. CASE Faults(scan.pattern, scan.a)
  <2>1. scan' = [scan EXCEPT !.phase = "faulted"]
    BY <1>5 DEF Compare
  <2>2. /\ scan'.phase = "faulted" /\ scan'.pattern = scan.pattern /\ scan'.start = scan.start
        /\ scan'.addr = scan.addr /\ scan'.a = scan.a /\ scan'.last = scan.last
        /\ DOMAIN scan' = DOMAIN scan
    BY <1>1, <2>1
  <2>3. ScanTypes'
    BY <1>1, <1>3, <2>2 DEF ScanTypes, Fits, Phases, Active
  <2>4. NonePassed'
    BY <1>1, <1>3, <1>4, <1>5, <2>2 DEF NonePassed
  <2> QED
    BY <2>2, <2>3, <2>4
<1>6. CASE ~Faults(scan.pattern, scan.a) /\ Matches(scan.pattern, scan.a)
  <2>1. scan' = [scan EXCEPT !.phase = "hit"]
    BY <1>6 DEF Compare
  <2>2. /\ scan'.phase = "hit" /\ scan'.pattern = scan.pattern /\ scan'.start = scan.start
        /\ scan'.addr = scan.addr /\ scan'.a = scan.a /\ scan'.last = scan.last
        /\ DOMAIN scan' = DOMAIN scan
    BY <1>1, <2>1
  <2>3. ScanTypes'
    BY <1>1, <1>3, <2>2 DEF ScanTypes, Fits, Phases, Active
  <2>4. NonePassed'
    BY <1>1, <1>3, <1>4, <2>2 DEF NonePassed
  <2> QED
    BY <1>3, <1>6, <2>2, <2>3, <2>4
<1>7. CASE ~Faults(scan.pattern, scan.a) /\ ~Matches(scan.pattern, scan.a)
  <2>1. ~Certain(scan.pattern, scan.a)
    BY <1>7 DEF Certain
  <2>2. ~raced => \A b \in scan.start..scan.a : ~Certain(scan.pattern, b)
    <3>1. \A b \in scan.start..scan.a : b = scan.a \/ b \in scan.start..scan.a - 1
      BY <1>2
    <3> QED
      BY <1>4, <2>1, <3>1
  <2>3. CASE scan.a = scan.last
    <3>1. scan' = [scan EXCEPT !.phase = "miss"]
      BY <1>7, <2>3 DEF Compare
    <3>2. /\ scan'.phase = "miss" /\ scan'.pattern = scan.pattern /\ scan'.start = scan.start
          /\ scan'.addr = scan.addr /\ scan'.a = scan.a /\ scan'.last = scan.last
          /\ DOMAIN scan' = DOMAIN scan
      BY <1>1, <3>1
    <3>3. ScanTypes'
      BY <1>1, <1>3, <3>2 DEF ScanTypes, Fits, Phases, Active
    <3>4. NonePassed'
      BY <1>1, <1>3, <2>2, <2>3, <3>2 DEF NonePassed, Active
    <3> QED
      BY <3>2, <3>3, <3>4
  <2>4. CASE scan.a # scan.last
    <3>1. scan' = [scan EXCEPT !.a = @ + 1]
      BY <1>7, <2>4 DEF Compare
    <3>2. /\ scan'.phase = "compare" /\ scan'.pattern = scan.pattern /\ scan'.start = scan.start
          /\ scan'.addr = scan.addr /\ scan'.a = scan.a + 1 /\ scan'.last = scan.last
          /\ DOMAIN scan' = DOMAIN scan
      BY <1>1, <3>1
    <3>3. scan.a + 1 \in Nat /\ scan.a + 1 <= scan.last /\ scan.addr <= scan.a + 1
          /\ scan.a + 1 - 1 = scan.a
      BY <1>1, <1>2, <2>4
    <3>4. ScanTypes'
      BY <1>1, <1>3, <3>2, <3>3 DEF ScanTypes, Fits, Phases, Active
    <3>5. scan'.a - 1 = scan.a /\ scan'.start = scan.start
      BY <1>2, <3>2
    <3>6. ~raced => \A b \in (scan'.start)..(scan'.a - 1) : ~Certain(scan.pattern, b)
      BY <2>2, <3>5
    <3>7. NonePassed'
      BY <1>1, <1>3, <3>2, <3>6 DEF NonePassed
    <3> QED
      BY <3>2, <3>4, <3>7
  <2> QED
    BY <2>3, <2>4
<1> QED
  BY <1>5, <1>6, <1>7

\* What is skipped was not certain, by SkippedUncertain.
LEMMA SkipKeepsInv ==
  ASSUME ScanInv, Skip, UNCHANGED memory
  PROVE  ScanInv'
<1> USE DEF ScanInv
<1> DEFINE next == RegionEnd(scan.addr)
<1>1. /\ scan.phase = "faulted" /\ Active /\ Fits /\ UNCHANGED <<steady, raced, protection, changes>>
      /\ DOMAIN scan = {"pattern", "start", "last", "addr", "a", "phase"}
      /\ scan.start <= scan.addr /\ scan.addr <= scan.a /\ scan.a <= scan.last
  BY DEF Skip, memory, ScanTypes, Active
<1>2. /\ scan.start \in Nat \ {0} /\ scan.addr \in Nat \ {0} /\ scan.a \in Nat /\ scan.last \in Int
      /\ scan.pattern \in Patterns /\ scan.addr \in DOMAIN Image
  <2>1. Len(scan.pattern) \in Nat \ {0}
    BY <1>1, PatternsAssumption DEF Fits
  <2> QED
    BY <1>1, <2>1, PagesOfImage DEF Fits
<1>3. /\ \A p, b : Certain(p, b)' = Certain(p, b)
      /\ ReadablePages' = ReadablePages
  BY <1>1 DEF Certain, Matches, PagesRead, Fixed, Agrees, ReadablePages
<1>4. next \in Nat /\ next > scan.addr
  BY <1>2, RegionBounds
<1>5. ~raced => \A b \in scan.start..scan.last : b < next => ~Certain(scan.pattern, b)
  <2> SUFFICES ASSUME ~raced, NEW b \in scan.start..scan.last, b < next
               PROVE  ~Certain(scan.pattern, b)
    OBVIOUS
  <2>1. Faults(scan.pattern, scan.a) /\ \A c \in scan.start..scan.a - 1 : ~Certain(scan.pattern, c)
    BY <1>1 DEF NonePassed
  <2>2. b \in scan.start..scan.a - 1 \/ b \in scan.a..next - 1
    BY <1>2, <1>4
  <2>3. b <= scan.last
    BY <1>2
  <2>4. b \in scan.a..next - 1 => ~Certain(scan.pattern, b)
    BY <1>1, <2>1, <2>3, SkippedUncertain
  <2> QED
    BY <2>1, <2>2, <2>4
<1> HIDE DEF next
<1>6. scan' = [scan EXCEPT !.addr = next, !.a = next,
                           !.phase = IF next <= scan.last THEN "compare" ELSE "miss"]
  BY DEF Skip, next
<1>7. /\ scan'.phase = (IF next <= scan.last THEN "compare" ELSE "miss")
      /\ scan'.pattern = scan.pattern /\ scan'.start = scan.start
      /\ scan'.addr = next /\ scan'.a = next /\ scan'.last = scan.last
      /\ DOMAIN scan' = DOMAIN scan
  BY <1>1, <1>6
<1>8. ScanTypes'
  <2>1. Fits'
    BY <1>1, <1>4, <1>7 DEF Fits
  <2>2. Active' => scan'.start <= scan'.addr /\ scan'.addr <= scan'.a /\ scan'.a <= scan'.last
    BY <1>1, <1>2, <1>4, <1>7 DEF Active
  <2>3. scan'.phase \in Phases
    BY <1>7 DEF Phases
  <2> QED
    BY <1>1, <1>3, <1>7, <2>1, <2>2, <2>3 DEF ScanTypes
<1>9. NonePassed'
  <2>1. CASE next <= scan.last
    <3>1. \A b \in scan.start..next - 1 : b \in scan.start..scan.last /\ b < next
      BY <1>2, <1>4, <2>1
    <3> QED
      BY <1>1, <1>3, <1>5, <1>7, <2>1, <3>1 DEF NonePassed
  <2>2. CASE ~(next <= scan.last)
    <3>1. \A b \in scan.start..scan.last : b < next
      BY <1>2, <1>4, <2>2
    <3> QED
      BY <1>1, <1>3, <1>5, <1>7, <2>2, <3>1 DEF NonePassed, Active
  <2> QED
    BY <2>1, <2>2
<1> QED
  BY <1>7, <1>8, <1>9

\* A change of protection makes fewer occurrences certain.
LEMMA ProtectKeepsInv ==
  ASSUME ScanInv, NEW p \in Pages, NEW prot \in Protections, Protect(p, prot)
  PROVE  ScanInv'
<1> USE DEF ScanInv
<1>1. /\ protection' = [protection EXCEPT ![p] = prot] /\ scan' = scan
      /\ steady' = (IF prot = "NoAccess" THEN steady \ {p} ELSE steady)
      /\ raced' = (raced \/ scan.phase = "faulted")
  BY DEF Protect
<1>2. steady' \subseteq steady
  BY <1>1
<1>3. \A q, b : Certain(q, b)' => Certain(q, b)
  BY <1>1, <1>2 DEF Certain, Matches, PagesRead, Fixed, Agrees
<1>4. \A q, b : Matches(q, b)' = Matches(q, b)
  BY DEF Matches, Fixed, Agrees
<1>5. ScanTypes'
  <2>1. protection' \in [Pages -> Protections] /\ raced' \in BOOLEAN
    BY <1>1 DEF ScanTypes
  <2>2. steady' \subseteq ReadablePages'
    BY <1>1 DEF ScanTypes, ReadablePages
  <2> QED
    BY <1>1, <2>1, <2>2 DEF ScanTypes, Fits, Active
<1>6. NonePassed'
  <2> SUFFICES ASSUME ~raced' PROVE NonePassed'
    BY DEF NonePassed
  <2>1. ~raced /\ scan.phase # "faulted"
    BY <1>1
  <2> QED
    BY <1>1, <1>3, <2>1 DEF NonePassed, Active
<1> QED
  BY <1>1, <1>4, <1>5, <1>6

\* Every step keeps the invariant of the search.
LEMMA ScanInvStep ==
  ASSUME ScanInv, [ScanNext]_<<memory, scanVars>>
  PROVE  ScanInv'
<1>1. CASE Client
  BY <1>1, BeginKeepsInv, EndKeepsInv DEF Client, ScanInv
<1>2. CASE ScanStep
  BY <1>2, CompareKeepsInv, SkipKeepsInv DEF ScanStep
<1>3. CASE \E p \in Pages, prot \in Protections : Protect(p, prot)
  BY <1>3, ProtectKeepsInv
<1>4. CASE UNCHANGED <<memory, scanVars>>
  <2>1. UNCHANGED <<protection, scan, steady, raced>>
    BY <1>4 DEF memory, scanVars
  <2>2. \A p, b : /\ Certain(p, b)' = Certain(p, b) /\ Faults(p, b)' = Faults(p, b)
                  /\ Matches(p, b)' = Matches(p, b)
    BY <2>1 DEF Certain, Matches, PagesRead, Fixed, Agrees, Faults, IsReadable
  <2>3. ScanTypes'
    BY <2>1 DEF ScanInv, ScanTypes, Fits, Active, ReadablePages
  <2>4. NonePassed'
    BY <2>1, <2>2 DEF ScanInv, NonePassed, Active
  <2> QED
    BY <2>1, <2>2, <2>3, <2>4 DEF ScanInv
<1> QED
  BY <1>1, <1>2, <1>3, <1>4 DEF ScanNext

\* The scan passes over no certain match, whatever the game does to the
\* protections and whatever is searched for.
THEOREM ScanInvariant == ScanSpec => []ScanInv
<1>1. MemoryInit => ScanInv
  <2> SUFFICES ASSUME MemoryInit PROVE ScanInv
    OBVIOUS
  <2>1. scan = NoScan /\ steady = {} /\ raced = FALSE /\ protection \in [Pages -> Protections]
    BY DEF MemoryInit
  <2> QED
    BY <2>1 DEF ScanInv, ScanTypes, NonePassed, NoScan, Active, Phases
<1> QED
  BY <1>1, ScanInvStep, PTL DEF ScanSpec

\* MemoryScan.h: Scan returns the first occurrence; one is passed over only if
\* part of it was unreadable at some time or a protection changed between a
\* fault and the query of the region.
THEOREM FirstOccurrenceHolds == ScanSpec => []FirstOccurrence
<1>1. ScanInv => FirstOccurrence
  <2> SUFFICES ASSUME ScanInv PROVE FirstOccurrence
    OBVIOUS
  <2>1. ASSUME scan.phase \in {"hit", "miss"}, ~raced, NEW a \in scan.start..scan.last,
               Certain(scan.pattern, a)
        PROVE  scan.phase = "hit" /\ scan.a <= a
    <3>1. Fits /\ (scan.phase = "hit" => Active)
      BY <2>1 DEF ScanInv, ScanTypes, Active
    <3>2. scan.start \in Nat /\ scan.a \in Nat /\ scan.last \in Int /\ a \in Int
      BY <2>1, <3>1 DEF Fits
    <3>3. scan.phase # "miss"
      BY <2>1 DEF ScanInv, NonePassed
    <3>4. a \notin scan.start..scan.a - 1
      BY <2>1, <3>1, <3>3 DEF ScanInv, NonePassed
    <3> QED
      BY <2>1, <3>2, <3>3, <3>4
  <2> QED
    BY <2>1 DEF FirstOccurrence, Certain, ScanInv
<1> QED
  BY <1>1, ScanInvariant, PTL

-----------------------------------------------------------------------------
(* The discovery of constants.                                            *)

\* A site that could be read ever since the discovery began.
Wanted(a) == a \in Occurrences /\ AllPages(a) \subseteq lasting.pages

FirstSite(a) == \A b \in Occurrences : a <= b

\* What the searches so far had to find is found.
Found ==
  ~lasting.raced =>
    /\ \A a \in Occurrences : Wanted(a) /\ a < scan.start => a \in sites
    /\ scan.start > 1 => \A a \in Occurrences : Wanted(a) /\ FirstSite(a) => a \in sites

Searching ==
  /\ scan.phase # "idle" /\ scan.pattern = Signature
  /\ lasting.pages \subseteq steady
  /\ IF scan.start = 1 THEN scan.last = GameEnd - Len(Signature)
     ELSE scan.last = GameEnd - Margin - Len(Signature)
  /\ Found

DiscoveryInv ==
  /\ ScanInv
  /\ discovering \in BOOLEAN
  /\ lasting \in [pages : SUBSET Pages, raced : BOOLEAN]
  /\ discovering => Searching
  /\ EverySteadySiteFound

\* What the assumptions say of the signature and the image.
LEMMA SiteFacts ==
  /\ Signature \in Patterns /\ Len(Signature) \in Nat \ {0} /\ DOMAIN Signature = 1..Len(Signature)
  /\ GameEnd = Len(Image) + 1 /\ Len(Image) \in Nat \ {0} /\ Margin \in Nat
  /\ DOMAIN Image = 1..Len(Image)
  /\ Len(Signature) <= Len(Image)
  /\ Occurrences \subseteq 1..Len(Image) - Len(Signature) + 1
  /\ \A a \in Occurrences : a \in Nat \ {0} /\ Matches(Signature, a)
  BY SignatureAssumption, PatternsAssumption, ImageAssumption DEF GameEnd, Occurrences

\* A site that is due and steady is certain for the search under way.
LEMMA WantedCertain ==
  ASSUME NEW a, Wanted(a), lasting.pages \subseteq steady
  PROVE  Certain(Signature, a)
<1>1. PagesRead(Signature, a) \subseteq AllPages(a)
  BY DEF PagesRead, AllPages, Fixed
<1> QED
  BY <1>1 DEF Wanted, Certain, Occurrences

\* A hit: all that had to be found up to it is found once it is collected.
LEMMA CollectedUpTo ==
  ASSUME DiscoveryInv, CollectMatch
  PROVE  ~(lasting.raced \/ raced) =>
           /\ \A a \in Occurrences : Wanted(a) /\ a <= scan.a => a \in sites'
           /\ \A a \in Occurrences : Wanted(a) /\ FirstSite(a) => a \in sites'
<1> DEFINE h == scan.a
<1>1. /\ scan.phase = "hit" /\ discovering /\ Collect(h) /\ Searching /\ ScanInv /\ Fits
      /\ scan.start <= h /\ h <= scan.last /\ Matches(Signature, h)
      /\ scan.start \in Nat \ {0} /\ h \in Nat /\ scan.last \in Int
  BY DEF DiscoveryInv, CollectMatch, Searching, ScanInv, ScanTypes, Fits, Active
<1> SUFFICES ASSUME ~lasting.raced, ~raced
             PROVE  /\ \A a \in Occurrences : Wanted(a) /\ a <= h => a \in sites'
                    /\ \A a \in Occurrences : Wanted(a) /\ FirstSite(a) => a \in sites'
  OBVIOUS
<1>2. sites \subseteq sites'
  BY <1>1 DEF Collect
<1>3. ASSUME NEW a \in Occurrences, Wanted(a), a <= h
      PROVE  a \in sites'
  <2>1. Certain(Signature, a) /\ a \in Nat
    BY <1>1, <1>3, WantedCertain, SiteFacts DEF Searching
  <2>2. CASE a < scan.start
    BY <1>1, <1>2, <1>3, <2>2 DEF Searching, Found
  <2>3. CASE scan.start <= a /\ a < h
    <3>1. a \in scan.start..h - 1
      BY <1>1, <2>1, <2>3
    <3>2. ~Certain(scan.pattern, a)
      BY <1>1, <3>1 DEF ScanInv, NonePassed, Active
    <3> QED
      BY <1>1, <2>1, <3>2 DEF Searching
  <2>4. CASE a = h
    <3>1. \A j \in DOMAIN Signature : IsReadable(a + j - 1)
      <4> SUFFICES ASSUME NEW j \in DOMAIN Signature
                   PROVE  IsReadable(a + j - 1)
        OBVIOUS
      <4>1. a + j - 1 \in DOMAIN Image
        <5>1. a <= Len(Image) - Len(Signature) + 1 /\ a \in Nat \ {0} /\ j \in 1..Len(Signature)
          BY SiteFacts
        <5> QED
          BY <5>1, SiteFacts
      <4>2. PageOf(a + j - 1) \in steady
        BY <1>1, <1>3 DEF Wanted, AllPages, Searching
      <4>3. protection[PageOf(a + j - 1)] # "NoAccess"
        BY <1>1, <4>2 DEF ScanInv, ScanTypes, ReadablePages
      <4> QED
        BY <4>1, <4>3 DEF IsReadable
    <3> QED
      BY <1>1, <2>4, <3>1 DEF Collect
  <2> QED
    BY <1>1, <1>3, <2>1, <2>2, <2>3, <2>4
<1>4. ASSUME NEW a \in Occurrences, Wanted(a), FirstSite(a)
      PROVE  a \in sites'
  <2>1. h \in Occurrences
    <3>1. h <= Len(Image) - Len(Signature) + 1
      BY <1>1, SiteFacts DEF Fits, Searching
    <3> QED
      BY <1>1, <3>1, SiteFacts DEF Occurrences
  <2>2. a <= h
    BY <1>4, <2>1 DEF FirstSite
  <2> QED
    BY <1>3, <1>4, <2>2
<1> QED
  BY <1>3, <1>4


\* The discovery begins with nothing to collect behind it.
LEMMA BeginDiscoveryStep ==
  ASSUME DiscoveryInv, BeginDiscovery
  PROVE  DiscoveryInv'
<1>1. /\ scan.phase = "idle" /\ ScanTypes /\ BeginScan(Signature, 1, GameEnd) /\ UNCHANGED memory
      /\ discovering' = TRUE /\ lasting' = [pages |-> ReadablePages, raced |-> FALSE]
      /\ 1 \in 1..Len(Image) + 1 /\ GameEnd \in 1..Len(Image) + 1 /\ Signature \in Patterns
  BY SiteFacts DEF BeginDiscovery, DiscoveryInv, ScanInv, NoScan
<1>2. ScanInv'
  BY <1>1, BeginKeepsInv
<1>3. /\ scan'.pattern = Signature /\ scan'.start = 1 /\ scan'.last = GameEnd - Len(Signature)
      /\ scan'.phase # "idle" /\ steady' = ReadablePages
  BY <1>1 DEF BeginScan, Scanning
<1>4. Occurrences' = Occurrences /\ \A a \in Occurrences : ~(a < 1)
  BY SiteFacts DEF Occurrences, Matches, Fixed, Agrees
<1>5. Found'
  BY <1>3, <1>4 DEF Found
<1>6. Searching'
  BY <1>1, <1>3, <1>5 DEF Searching, GameEnd
<1>7. lasting' \in [pages : SUBSET Pages, raced : BOOLEAN]
  BY <1>1 DEF ReadablePages
<1> QED
  BY <1>1, <1>2, <1>6, <1>7 DEF DiscoveryInv, EverySteadySiteFound, Due

\* A match is collected and the search goes on behind it, or the discovery ends.
LEMMA CollectMatchStep ==
  ASSUME DiscoveryInv, CollectMatch
  PROVE  DiscoveryInv'
<1> DEFINE h == scan.a
           r == lasting.raced \/ raced
<1>1. /\ scan.phase = "hit" /\ discovering /\ Searching /\ ScanInv /\ ScanTypes /\ Fits
      /\ h \in Nat \ {0} /\ UNCHANGED memory /\ raced \in BOOLEAN
      /\ lasting \in [pages : SUBSET Pages, raced : BOOLEAN]
      /\ lasting' = [lasting EXCEPT !.raced = @ \/ raced]
  BY DEF DiscoveryInv, CollectMatch, ScanInv, ScanTypes, Fits, Active
<1>2. lasting'.pages = lasting.pages /\ lasting'.raced = r
      /\ lasting' \in [pages : SUBSET Pages, raced : BOOLEAN]
  BY <1>1
<1>3. /\ Occurrences' = Occurrences
      /\ \A a : AllPages(a)' = AllPages(a)
      /\ \A a : Wanted(a)' = Wanted(a)
      /\ \A a : FirstSite(a)' = FirstSite(a)
  BY <1>2 DEF Occurrences, Matches, Fixed, Agrees, AllPages, Wanted, FirstSite
<1>4. ~lasting'.raced =>
        /\ \A a \in Occurrences : Wanted(a) /\ a <= h => a \in sites'
        /\ \A a \in Occurrences : Wanted(a) /\ FirstSite(a) => a \in sites'
  BY <1>2, CollectedUpTo
<1> HIDE DEF r
<1>5. CASE NextStart(h) + Margin >= GameEnd
  <2>1. discovering' = FALSE /\ EndScan
    BY <1>5 DEF CollectMatch
  <2>2. ScanInv'
    BY <1>1, <2>1, EndKeepsInv
  <2>3. ASSUME ~lasting'.raced, NEW a \in Occurrences, Wanted(a),
               a + Len(Signature) <= GameEnd - Margin \/ FirstSite(a)
        PROVE  a \in sites'
    <3>1. a + Len(Signature) <= GameEnd - Margin => a <= h
      BY <1>1, <1>5, SiteFacts DEF NextStart
    <3> QED
      BY <1>4, <2>3, <3>1
  <2>4. EverySteadySiteFound'
    BY <1>2, <1>3, <2>3 DEF EverySteadySiteFound, Due, Wanted, FirstSite, GameEnd
  <2> QED
    BY <1>2, <2>1, <2>2, <2>4 DEF DiscoveryInv
<1>6. CASE ~(NextStart(h) + Margin >= GameEnd)
  <2>1. /\ BeginScan(Signature, h + 1, GameEnd - Margin) /\ discovering' = discovering
    BY <1>6 DEF CollectMatch, NextStart
  <2>2. h + 1 \in 1..Len(Image) + 1 /\ GameEnd - Margin \in 1..Len(Image) + 1
    BY <1>1, <1>6, SiteFacts DEF NextStart
  <2>3. ScanInv'
    BY <1>1, <2>1, <2>2, SiteFacts, BeginKeepsInv
  <2>4. /\ scan'.pattern = Signature /\ scan'.start = h + 1
        /\ scan'.last = GameEnd - Margin - Len(Signature)
        /\ scan'.phase # "idle" /\ steady' = ReadablePages
    BY <2>1 DEF BeginScan, Scanning
  <2>5. lasting'.pages \subseteq steady'
    BY <1>1, <1>2, <2>4 DEF Searching, ScanTypes
  <2>6. Found'
    <3>1. \A a \in Occurrences : a < h + 1 => a <= h
      BY <1>1, SiteFacts
    <3> QED
      BY <1>3, <1>4, <2>4, <3>1 DEF Found
  <2>7. scan'.start # 1
    BY <1>1, <2>4
  <2>8. Searching'
    BY <2>4, <2>5, <2>6, <2>7 DEF Searching, GameEnd
  <2> QED
    BY <1>1, <1>2, <2>1, <2>3, <2>8 DEF DiscoveryInv, EverySteadySiteFound, Due
<1> QED
  BY <1>5, <1>6

\* The last search found nothing, and nothing certain was behind it.
LEMMA NoMoreMatchesStep ==
  ASSUME DiscoveryInv, NoMoreMatches
  PROVE  DiscoveryInv'
<1>1. /\ scan.phase = "miss" /\ Searching /\ ScanInv /\ ScanTypes /\ Fits
      /\ UNCHANGED memory /\ raced \in BOOLEAN /\ sites' = sites
      /\ lasting \in [pages : SUBSET Pages, raced : BOOLEAN]
      /\ lasting' = [lasting EXCEPT !.raced = @ \/ raced]
      /\ discovering' = FALSE /\ EndScan
  BY DEF DiscoveryInv, NoMoreMatches, ScanInv, ScanTypes
<1>2. lasting'.pages = lasting.pages /\ lasting'.raced = (lasting.raced \/ raced)
      /\ lasting' \in [pages : SUBSET Pages, raced : BOOLEAN]
  BY <1>1
<1>3. /\ Occurrences' = Occurrences
      /\ \A a : AllPages(a)' = AllPages(a)
      /\ \A a : Wanted(a)' = Wanted(a)
      /\ \A a : FirstSite(a)' = FirstSite(a)
  BY <1>2 DEF Occurrences, Matches, Fixed, Agrees, AllPages, Wanted, FirstSite
<1>4. ScanInv'
  BY <1>1, EndKeepsInv
<1>5. ASSUME ~lasting'.raced, NEW a \in Occurrences, Wanted(a),
             a + Len(Signature) <= GameEnd - Margin \/ FirstSite(a)
      PROVE  a \in sites
  <2>1. /\ ~lasting.raced /\ ~raced /\ Certain(Signature, a) /\ a \in Nat \ {0}
        /\ a <= Len(Image) - Len(Signature) + 1
    BY <1>1, <1>2, <1>5, WantedCertain, SiteFacts DEF Searching
  <2>2. ~(a \in scan.start..scan.last)
    BY <1>1, <2>1 DEF ScanInv, NonePassed, Searching
  <2>3. scan.start \in Nat \ {0} /\ scan.last \in Int
    BY <1>1 DEF Fits
  <2>4. a < scan.start => a \in sites
    BY <1>1, <1>5, <2>1 DEF Searching, Found
  <2>5. scan.start > 1 /\ FirstSite(a) => a \in sites
    BY <1>1, <1>5, <2>1 DEF Searching, Found
  <2>6. CASE a >= scan.start /\ scan.start = 1
    <3>1. scan.last = Len(Image) + 1 - Len(Signature)
      BY <1>1, <2>6, SiteFacts DEF Searching
    <3> QED
      BY <2>1, <2>2, <2>3, <2>6, <3>1, SiteFacts
  <2>7. CASE a >= scan.start /\ scan.start # 1 /\ ~FirstSite(a)
    <3>1. scan.last = GameEnd - Margin - Len(Signature) /\ a + Len(Signature) <= GameEnd - Margin
      BY <1>1, <1>5, <2>7 DEF Searching
    <3> QED
      BY <2>1, <2>2, <2>3, <2>7, <3>1, SiteFacts
  <2> QED
    BY <2>1, <2>3, <2>4, <2>5, <2>6, <2>7
<1>6. EverySteadySiteFound'
  BY <1>1, <1>2, <1>3, <1>5 DEF EverySteadySiteFound, Due, Wanted, FirstSite, GameEnd
<1> QED
  BY <1>1, <1>2, <1>4, <1>6 DEF DiscoveryInv

\* A step of the search under way.
LEMMA SearchStep ==
  ASSUME DiscoveryInv, ScanStep \/ UNCHANGED <<memory, scanVars>>, UNCHANGED discoveryVars
  PROVE  DiscoveryInv'
<1>1. /\ UNCHANGED <<discovering, sites, lasting>> /\ ScanInv /\ ScanTypes
      /\ scan.phase # "idle" => Fits
  BY DEF discoveryVars, DiscoveryInv, ScanInv, ScanTypes
<1>2. ScanInv'
  BY <1>1, ScanInvStep DEF ScanNext
<1>3. /\ Occurrences' = Occurrences
      /\ \A a : AllPages(a)' = AllPages(a)
      /\ \A a : Wanted(a)' = Wanted(a)
      /\ \A a : FirstSite(a)' = FirstSite(a)
  BY <1>1 DEF Occurrences, Matches, Fixed, Agrees, AllPages, Wanted, FirstSite
<1>4. EverySteadySiteFound'
  BY <1>1, <1>3 DEF EverySteadySiteFound, Due, DiscoveryInv, GameEnd
<1>5. /\ scan'.pattern = scan.pattern /\ scan'.start = scan.start /\ scan'.last = scan.last
      /\ scan.phase # "idle" => scan'.phase # "idle"
      /\ steady' = steady
  <2>1. DOMAIN scan = {"pattern", "start", "last", "addr", "a", "phase"}
    BY <1>1 DEF ScanTypes
  <2>2. CASE Compare
    BY <2>1, <2>2 DEF Compare
  <2>3. CASE Skip
    <3> DEFINE n == RegionEnd(scan.addr)
    <3> HIDE DEF n
    <3>1. /\ scan' = [scan EXCEPT !.addr = n, !.a = n,
                                  !.phase = IF n <= scan.last THEN "compare" ELSE "miss"]
          /\ steady' = steady
      BY <2>3 DEF Skip, n
    <3> QED
      BY <2>1, <3>1
  <2>4. CASE UNCHANGED <<memory, scanVars>>
    BY <2>4 DEF scanVars
  <2> QED
    BY <2>2, <2>3, <2>4 DEF ScanStep
<1>6. discovering => Searching'
  <2> SUFFICES ASSUME discovering PROVE Searching'
    OBVIOUS
  <2>1. Searching
    BY DEF DiscoveryInv
  <2>2. Found'
    BY <1>1, <1>3, <1>5, <2>1 DEF Searching, Found
  <2> QED
    BY <1>1, <1>5, <2>1, <2>2 DEF Searching, GameEnd
<1> QED
  BY <1>1, <1>2, <1>4, <1>6 DEF DiscoveryInv

\* The game changes a protection during the discovery.
LEMMA ReprotectStep ==
  ASSUME DiscoveryInv, ReprotectSites
  PROVE  DiscoveryInv'
<1> PICK p \in Pages, prot \in Protections :
      /\ Protect(p, prot)
      /\ lasting' = IF prot = "NoAccess" THEN [lasting EXCEPT !.pages = @ \ {p}] ELSE lasting
  BY DEF ReprotectSites
<1>1. /\ discovering /\ UNCHANGED <<discovering, sites, scan>> /\ ScanInv /\ Searching
      /\ steady' = (IF prot = "NoAccess" THEN steady \ {p} ELSE steady)
      /\ lasting \in [pages : SUBSET Pages, raced : BOOLEAN]
  BY DEF ReprotectSites, Protect, DiscoveryInv
<1>2. ScanInv'
  BY <1>1, ProtectKeepsInv
<1>3. /\ lasting' \in [pages : SUBSET Pages, raced : BOOLEAN]
      /\ lasting'.raced = lasting.raced
      /\ lasting'.pages = IF prot = "NoAccess" THEN lasting.pages \ {p} ELSE lasting.pages
  BY <1>1
<1>4. /\ Occurrences' = Occurrences
      /\ \A a : Wanted(a)' => Wanted(a)
      /\ \A a : FirstSite(a)' = FirstSite(a)
  BY <1>3 DEF Occurrences, Matches, Fixed, Agrees, AllPages, Wanted, FirstSite
<1>5. Found'
  BY <1>1, <1>3, <1>4 DEF Searching, Found
<1>6. Searching'
  BY <1>1, <1>3, <1>5 DEF Searching, GameEnd
<1> QED
  BY <1>1, <1>2, <1>3, <1>6 DEF DiscoveryInv, EverySteadySiteFound, Due

\* The discovery's loop: what the resumed searches need not look for again.
THEOREM DiscoveryInvariant == DiscoverySpec => []DiscoveryInv
<1>1. MemoryInit /\ DiscoveryInit => DiscoveryInv
  <2> SUFFICES ASSUME MemoryInit, DiscoveryInit PROVE DiscoveryInv
    OBVIOUS
  <2>1. /\ scan = NoScan /\ steady = {} /\ raced = FALSE /\ protection \in [Pages -> Protections]
        /\ discovering = FALSE /\ sites = {} /\ lasting = [pages |-> {}, raced |-> FALSE]
    BY DEF MemoryInit, DiscoveryInit
  <2>2. ScanInv
    BY <2>1 DEF ScanInv, ScanTypes, NonePassed, NoScan, Active, Phases
  <2>3. \A a : ~(AllPages(a) \subseteq lasting.pages)
    <3>1. 1 \in DOMAIN Signature
      BY SiteFacts
    <3> QED
      BY <2>1, <3>1 DEF AllPages
  <2> QED
    BY <2>1, <2>2, <2>3 DEF DiscoveryInv, EverySteadySiteFound, Due
<1>2. DiscoveryInv /\ [DiscoveryStep]_<<memory, scanVars, discoveryVars>> => DiscoveryInv'
  BY BeginDiscoveryStep, CollectMatchStep, NoMoreMatchesStep, SearchStep, ReprotectStep
     DEF DiscoveryStep
<1> QED
  BY <1>1, <1>2, PTL DEF DiscoverySpec

\* DiscoverConstants and DiscoverRe9Constants collect every site that stays
\* readable, except in the margin of a resumed search.
THEOREM EverySteadySiteFoundHolds == DiscoverySpec => []EverySteadySiteFound
<1>1. DiscoveryInv => EverySteadySiteFound
  BY DEF DiscoveryInv
<1> QED
  BY <1>1, DiscoveryInvariant, PTL

-----------------------------------------------------------------------------
(* The renderer bridge.                                                    *)

\* What the bridge keeps follows the order of its stages, and the truth.
StagesInv ==
  /\ call \in {"idle", "resolve"}
  /\ tdb \in {"absent", "expected", "mismatch"}
  /\ renderer \in Renderers \cup {None} /\ out \in Renderers \cup {None}
  /\ m_layoutUnsupported => tdb = "mismatch"
  /\ m_tdb => m_globalContextSlot # None /\ tdb = "expected"
  /\ m_rendererType => m_tdb
  /\ m_getRenderFrame => m_rendererType
  /\ out # None => m_getRenderFrame /\ call = "resolve"

\* The answers the call may give.
AllowedInv ==
  /\ call = "resolve" => TrueNow \subseteq allowed
  /\ call = "idle" => answer \in allowed
  /\ out # None => [status |-> "Ready", renderer |-> out] \in allowed

\* What may be answered in each state of the engine.
LEMMA TrueAnswers ==
  /\ [status |-> "NotReadyYet", renderer |-> None] \in TrueNow
  /\ tdb = "mismatch" => [status |-> "UnsupportedLayout", renderer |-> None] \in TrueNow
  /\ tdb = "expected" /\ renderer \in Renderers /\ renderer # None =>
       [status |-> "Ready", renderer |-> renderer] \in TrueNow
<1> DEFINE ans(s, r) == [status |-> s, renderer |-> r]
<1>1. /\ ans("NotReadyYet", None) \in Answers /\ ans("UnsupportedLayout", None) \in Answers
      /\ renderer \in Renderers => ans("Ready", renderer) \in Answers
  BY DEF Answers
<1> QED
  BY <1>1 DEF TrueNow, CanAnswer

\* The right answers depend on the type database and the renderer alone.
LEMMA TrueNowKept ==
  ASSUME UNCHANGED <<tdb, renderer>>
  PROVE  TrueNow' = TrueNow
<1>1. \A s : CanAnswer(s)' = CanAnswer(s)
  BY DEF CanAnswer
<1> QED
  BY <1>1 DEF TrueNow, Answers

\* A stage that has no result yet ends the call.
LEMMA FailedStage ==
  ASSUME StagesInv, AllowedInv, call = "resolve", NotReadyYet, out' = None, UNCHANGED allowed
  PROVE  call' = "idle" /\ AllowedInv'
<1>1. answer' \in allowed /\ call' = "idle"
  BY TrueAnswers DEF AllowedInv, NotReadyYet, Return
<1> QED
  BY <1>1 DEF AllowedInv

\* Steps that touch neither the call nor the engine.
LEMMA AllowedKept ==
  ASSUME AllowedInv, UNCHANGED <<call, answer, out, allowed, tdb, renderer>>
  PROVE  AllowedInv'
  BY TrueNowKept DEF AllowedInv

AnswersInv == StagesInv /\ AllowedInv

\* A call begins, or is answered at once for good.
LEMMA CallAnswers ==
  ASSUME AnswersInv, Call
  PROVE  AnswersInv'
<1>1. /\ call = "idle" /\ out = None /\ allowed' = TrueNow
      /\ UNCHANGED <<tdb, renderer, out, m_globalContextSlot, m_tdb, m_layoutUnsupported,
                     m_rendererType, m_getRenderFrame>>
  BY DEF Call, AnswersInv, StagesInv, engine, kept
<1>2. TrueNow' = TrueNow
  BY <1>1, TrueNowKept
<1>3. CASE m_layoutUnsupported
  <2>1. Return("UnsupportedLayout", None)
    BY <1>3 DEF Call
  <2>2. call' = "idle" /\ answer' \in allowed'
    BY <1>1, <1>3, <2>1, TrueAnswers DEF Return, AnswersInv, StagesInv
  <2> QED
    BY <1>1, <2>2 DEF AnswersInv, StagesInv, AllowedInv
<1>4. CASE ~m_layoutUnsupported
  <2>1. call' = "resolve"
    BY <1>4 DEF Call
  <2> QED
    BY <1>1, <1>2, <2>1 DEF AnswersInv, StagesInv, AllowedInv
<1> QED
  BY <1>3, <1>4

\* The stage of the context.
LEMMA ContextAnswers ==
  ASSUME AnswersInv, SearchContext \/ ContextMatch \/ ContextMissed
  PROVE  AnswersInv'
<1>1. /\ call = "resolve" /\ m_globalContextSlot = None /\ ~m_tdb /\ out = None /\ out' = None
      /\ UNCHANGED <<tdb, renderer, m_tdb, m_layoutUnsupported, m_rendererType, m_getRenderFrame,
                     allowed>>
  BY DEF SearchContext, ContextMatch, ContextMissed, At, AnswersInv, StagesInv, engine, kept
<1>2. NotReadyYet \/ UNCHANGED <<call, answer>>
  BY DEF SearchContext, ContextMatch, ContextMissed, KeepContext
<1>3. CASE NotReadyYet
  BY <1>1, <1>3, FailedStage DEF AnswersInv, StagesInv
<1>4. CASE UNCHANGED <<call, answer>>
  BY <1>1, <1>4, AllowedKept DEF AnswersInv, StagesInv
<1> QED
  BY <1>2, <1>3, <1>4

\* The stage of the type database.
LEMMA TdbAnswers ==
  ASSUME AnswersInv, FindTdb
  PROVE  AnswersInv'
<1>1. /\ call = "resolve" /\ m_globalContextSlot # None /\ ~m_tdb /\ out = None /\ out' = None
      /\ UNCHANGED <<tdb, renderer, m_globalContextSlot, m_rendererType, m_getRenderFrame, allowed>>
  BY DEF FindTdb, At, AnswersInv, StagesInv, engine
<1>2. CASE Expected /\ m_tdb' = TRUE /\ UNCHANGED <<m_layoutUnsupported, call, answer>>
  BY <1>1, <1>2, AllowedKept DEF AnswersInv, StagesInv, Expected
<1>3. CASE /\ tdb # "absent" /\ ~Expected /\ m_layoutUnsupported' = TRUE
           /\ Return("UnsupportedLayout", None) /\ UNCHANGED m_tdb
  <2>1. tdb = "mismatch" /\ call' = "idle"
    BY <1>3 DEF AnswersInv, StagesInv, Expected, Return
  <2>2. answer' \in allowed
    BY <1>1, <1>3, <2>1, TrueAnswers DEF AnswersInv, AllowedInv, Return
  <2> QED
    BY <1>1, <1>3, <2>1, <2>2 DEF AnswersInv, StagesInv, AllowedInv
<1>4. CASE NotReadyYet /\ UNCHANGED <<m_tdb, m_layoutUnsupported>>
  BY <1>1, <1>4, FailedStage DEF AnswersInv, StagesInv
<1> QED
  BY <1>2, <1>3, <1>4 DEF FindTdb

\* The stage of the renderer type.
LEMMA TypeAnswers ==
  ASSUME AnswersInv, FindRendererType
  PROVE  AnswersInv'
<1>1. /\ call = "resolve" /\ m_tdb /\ ~m_rendererType /\ out = None /\ out' = None
      /\ UNCHANGED <<tdb, renderer, m_globalContextSlot, m_tdb, m_layoutUnsupported,
                     m_getRenderFrame, allowed>>
  BY DEF FindRendererType, At, AnswersInv, StagesInv, engine
<1>2. CASE m_rendererType' = TRUE /\ UNCHANGED <<call, answer>>
  BY <1>1, <1>2, AllowedKept DEF AnswersInv, StagesInv
<1>3. CASE NotReadyYet /\ UNCHANGED m_rendererType
  BY <1>1, <1>3, FailedStage DEF AnswersInv, StagesInv
<1> QED
  BY <1>2, <1>3 DEF FindRendererType

\* The stage of get_RenderFrame.
LEMMA FrameAnswers ==
  ASSUME AnswersInv, SearchEncodedBase \/ EncodedBaseSearched \/ FindGetRenderFrame
  PROVE  AnswersInv'
<1>1. /\ call = "resolve" /\ m_rendererType /\ ~m_getRenderFrame /\ out = None /\ out' = None
      /\ UNCHANGED <<tdb, renderer, m_globalContextSlot, m_tdb, m_layoutUnsupported,
                     m_rendererType, allowed>>
  BY DEF SearchEncodedBase, EncodedBaseSearched, FindGetRenderFrame, At, AnswersInv, StagesInv, engine
<1>2. \/ UNCHANGED m_getRenderFrame /\ NotReadyYet
      \/ m_getRenderFrame' \in {m_getRenderFrame, TRUE} /\ UNCHANGED <<call, answer>>
  BY DEF SearchEncodedBase, EncodedBaseSearched, FindGetRenderFrame
<1>3. CASE UNCHANGED m_getRenderFrame /\ NotReadyYet
  BY <1>1, <1>3, FailedStage DEF AnswersInv, StagesInv
<1>4. CASE m_getRenderFrame' \in {m_getRenderFrame, TRUE} /\ UNCHANGED <<call, answer>>
  BY <1>1, <1>4, AllowedKept DEF AnswersInv, StagesInv
<1> QED
  BY <1>2, <1>3, <1>4

\* The stage of the singleton: what it was given was right when it was given.
LEMMA SingletonAnswers ==
  ASSUME AnswersInv, AskSingleton \/ ReturnSingleton
  PROVE  AnswersInv'
<1>1. /\ call = "resolve" /\ m_tdb /\ m_getRenderFrame /\ tdb = "expected" /\ renderer \in Renderers \cup {None}
      /\ UNCHANGED <<tdb, renderer, m_globalContextSlot, m_tdb, m_layoutUnsupported,
                     m_rendererType, m_getRenderFrame, allowed>>
  BY DEF AskSingleton, ReturnSingleton, At, AnswersInv, StagesInv, engine, kept
<1>2. CASE out = None /\ out' = renderer /\ renderer # None /\ UNCHANGED <<call, answer>>
  <2>1. [status |-> "Ready", renderer |-> renderer] \in allowed
    BY <1>1, <1>2, TrueAnswers DEF AnswersInv, AllowedInv
  <2>2. TrueNow' = TrueNow
    BY <1>1, TrueNowKept
  <2> QED
    BY <1>1, <1>2, <2>1, <2>2 DEF AnswersInv, StagesInv, AllowedInv
<1>3. CASE NotReadyYet /\ out' = None
  BY <1>1, <1>3, FailedStage DEF AnswersInv, StagesInv
<1>4. CASE out # None /\ Return("Ready", out) /\ out' = None
  <2>1. call' = "idle" /\ answer' \in allowed'
    BY <1>1, <1>4 DEF Return, AnswersInv, AllowedInv
  <2> QED
    BY <1>1, <1>4, <2>1 DEF AnswersInv, StagesInv, AllowedInv
<1> QED
  BY <1>2, <1>3, <1>4 DEF AskSingleton, ReturnSingleton

\* The engine moves: answers become right, none is forgotten.
LEMMA EngineAnswers ==
  ASSUME AnswersInv, EngineStep \/ CalmDown
  PROVE  AnswersInv'
<1>1. UNCHANGED <<call, answer, m_globalContextSlot, m_tdb, m_layoutUnsupported, m_rendererType,
                 m_getRenderFrame, out>>
  BY DEF EngineStep, CalmDown, bridge, kept
<1>2. CASE EngineStep
  <2>1. /\ allowed' = allowed \cup TrueNow'
        /\ tdb' # tdb => tdb = "absent" /\ tdb' \in {"expected", "mismatch"}
        /\ renderer' \in Renderers \cup {None}
    BY <1>2 DEF EngineStep, CreateContext, BuildTdb, FillIn, Replace, AnswersInv, StagesInv
  <2>2. StagesInv'
    BY <1>1, <2>1 DEF AnswersInv, StagesInv
  <2>3. AllowedInv'
    BY <1>1, <2>1 DEF AnswersInv, AllowedInv
  <2> QED
    BY <2>2, <2>3 DEF AnswersInv
<1>3. CASE CalmDown
  BY <1>1, <1>3, AllowedKept DEF CalmDown, AnswersInv, StagesInv
<1> QED
  BY <1>2, <1>3

\* The invariant of the answers.
THEOREM AnswersInvariant == BridgeSpec => []AnswersInv
<1>1. MemoryInit /\ BridgeIdle => AnswersInv
  BY DEF BridgeIdle, AnswersInv, StagesInv, AllowedInv
<1>2. AnswersInv /\ [BridgeStep]_bridgeVars => AnswersInv'
  <2> SUFFICES ASSUME AnswersInv, [BridgeStep]_bridgeVars
               PROVE  AnswersInv'
    OBVIOUS
  <2>1. CASE ResolveStep
    <3>1. CASE ScanStep /\ UNCHANGED <<engine, bridge, allowed>>
      BY <3>1, AllowedKept DEF engine, bridge, kept, AnswersInv, StagesInv
    <3> QED
      BY <2>1, <3>1, CallAnswers, ContextAnswers, TdbAnswers, TypeAnswers, FrameAnswers,
         SingletonAnswers DEF ResolveStep
  <2>2. CASE EngineStep \/ CalmDown
    BY <2>2, EngineAnswers
  <2>3. CASE Reprotect \/ UNCHANGED bridgeVars
    <3>1. UNCHANGED <<engine, bridge, allowed>>
      BY <2>3 DEF Reprotect, bridgeVars
    <3> QED
      BY <3>1, AllowedKept DEF engine, bridge, kept, AnswersInv, StagesInv
  <2> QED
    BY <2>1, <2>2, <2>3 DEF BridgeStep
<1> QED
  BY <1>1, <1>2, PTL DEF BridgeSpec

\* RendererBridge::Resolve: what a call answers was the case at some time of the
\* call, whatever the engine does meanwhile.
THEOREM AnswersWereTrueHolds == BridgeSpec => []AnswersWereTrue
<1>1. AnswersInv => AnswersWereTrue
  BY DEF AnswersInv, AllowedInv, AnswersWereTrue
<1> QED
  BY <1>1, AnswersInvariant, PTL

\* The references behind the point where the search began last.
Behind(ref) == {a \in Referring(ref) : a < scan.start}

\* The counter counts each of them at most once.
CountInv ==
  /\ ScanInv
  /\ call \in {"idle", "resolve"}
  /\ call = "idle" => scan.phase = "idle"
  /\ refs \in [InModule -> Nat]
  /\ m_globalContextSlot = None /\ scan.phase # "idle" =>
       /\ scan.pattern = ContextPattern
       /\ \A ref \in InModule : refs[ref] <= Cardinality(Behind(ref))
  /\ ContextFound

\* What the assumptions say of the patterns and the image.
LEMMA PatternFacts ==
  /\ ContextPattern \in Patterns /\ EncodedPattern \in Patterns
  /\ Len(ContextPattern) \in Nat \ {0} /\ Len(Image) \in Nat \ {0}
  /\ ModuleEnd = Len(Image) + 1
  BY ReferencesAssumption, PatternsAssumption, ImageAssumption DEF ModuleEnd

\* References can be counted.
LEMMA ReferringFinite ==
  ASSUME NEW ref
  PROVE  /\ IsFiniteSet(Referring(ref)) /\ Cardinality(Referring(ref)) \in Nat
         /\ \A S \in SUBSET Referring(ref) :
              IsFiniteSet(S) /\ Cardinality(S) \in Nat /\ Cardinality(S) <= Cardinality(Referring(ref))
<1> DEFINE n == Len(Image) - Len(ContextPattern) + 1
<1>1. n \in Int /\ 1 \in Int
  BY PatternFacts
<1>2. Referring(ref) \subseteq 1..n
  BY DEF Referring
<1>3. IsFiniteSet(1..n)
  BY <1>1, FS_Interval
<1>4. IsFiniteSet(Referring(ref))
  BY <1>2, <1>3, FS_Subset
<1> QED
  BY <1>4, FS_Subset, FS_CardinalityType

\* Resuming past a match that was counted.
LEMMA CountedOnce ==
  ASSUME CountInv, scan.phase = "hit", m_globalContextSlot = None, NEW h, h = scan.a
  PROVE  /\ h \in 1..Len(Image) /\ h \in Referring(Reference(h))
         /\ \A ref : \A S : S = {a \in Referring(ref) : a < h + 1} =>
              /\ S \in SUBSET Referring(ref)
              /\ Cardinality(Behind(ref)) <= Cardinality(S)
              /\ ref = Reference(h) => Cardinality(Behind(ref)) + 1 <= Cardinality(S)
<1>1. /\ scan.pattern = ContextPattern /\ Matches(ContextPattern, h) /\ Fits
      /\ scan.start <= h /\ h <= scan.last
  <2>1. ScanTypes /\ Matches(scan.pattern, scan.a) /\ scan.pattern = ContextPattern
    BY DEF CountInv, ScanInv
  <2>2. Fits /\ scan.start <= scan.addr /\ scan.addr <= scan.a /\ scan.a <= scan.last
    BY <2>1 DEF ScanTypes, Active
  <2> QED
    BY <2>1, <2>2 DEF Fits
<1>2. /\ scan.start \in Nat \ {0} /\ h \in Nat /\ scan.last \in Int
      /\ scan.last + Len(ContextPattern) <= Len(Image) + 1
  BY <1>1 DEF Fits
<1>3. h \in 1..Len(Image) - Len(ContextPattern) + 1 /\ h \in 1..Len(Image)
  BY <1>1, <1>2, PatternFacts
<1>4. h \in Referring(Reference(h))
  BY <1>1, <1>3 DEF Referring
<1>5. ASSUME NEW ref, NEW S, S = {a \in Referring(ref) : a < h + 1}
      PROVE  /\ S \in SUBSET Referring(ref)
             /\ Cardinality(Behind(ref)) <= Cardinality(S)
             /\ ref = Reference(h) => Cardinality(Behind(ref)) + 1 <= Cardinality(S)
  <2>1. \A a \in Referring(ref) : a \in Nat
    BY DEF Referring
  <2>2. /\ S \in SUBSET Referring(ref) /\ Behind(ref) \in SUBSET S /\ Behind(ref) \in SUBSET Referring(ref)
        /\ h \notin Behind(ref)
        /\ ref = Reference(h) => Behind(ref) \cup {h} \in SUBSET S
    BY <1>1, <1>2, <1>4, <1>5, <2>1 DEF Behind
  <2>3. IsFiniteSet(S) /\ IsFiniteSet(Behind(ref))
    BY <2>2, ReferringFinite
  <2>4. Cardinality(Behind(ref) \cup {h}) = Cardinality(Behind(ref)) + 1
    BY <2>2, <2>3, FS_AddElement
  <2>5. Cardinality(Behind(ref)) <= Cardinality(S)
    BY <2>2, <2>3, FS_Subset
  <2>6. ref = Reference(h) => Cardinality(Behind(ref) \cup {h}) <= Cardinality(S)
    BY <2>2, <2>3, FS_Subset
  <2> QED
    BY <2>2, <2>4, <2>5, <2>6
<1> QED
  BY <1>3, <1>4, <1>5

\* A match is counted, and the slot kept once it was counted often enough.
LEMMA ContextMatchCounts ==
  ASSUME CountInv, ContextMatch
  PROVE  CountInv'
<1> DEFINE h == scan.a
           ref == Reference(h)
<1>1. /\ call = "resolve" /\ m_globalContextSlot = None /\ scan.phase = "hit" /\ ScanInv /\ ScanTypes
      /\ scan.pattern = ContextPattern
      /\ refs \in [InModule -> Nat] /\ \A r \in InModule : refs[r] <= Cardinality(Behind(r))
      /\ UNCHANGED memory
  BY DEF ContextMatch, At, CountInv, ScanInv
<1>2. /\ h \in 1..Len(Image) /\ h \in Nat /\ h \in Referring(ref)
      /\ \A r : \A S : S = {a \in Referring(r) : a < h + 1} =>
           /\ S \in SUBSET Referring(r)
           /\ Cardinality(Behind(r)) <= Cardinality(S)
           /\ r = ref => Cardinality(Behind(r)) + 1 <= Cardinality(S)
  BY <1>1, CountedOnce
<1>3. /\ \A r : Referring(r)' = Referring(r)
      /\ \A r : Behind(r)' = {a \in Referring(r) : a < scan'.start}
  BY DEF Referring, Behind, Matches, Fixed, Agrees, Reference
<1>4. \A r : Cardinality(Behind(r)) \in Nat
  BY ReferringFinite DEF Behind
<1>5. ASSUME ResumeSearch(h)
      PROVE  /\ ScanInv' /\ scan'.pattern = ContextPattern /\ scan'.start = h + 1
             /\ \A r : /\ Cardinality(Behind(r)') \in Nat
                       /\ Cardinality(Behind(r)) <= Cardinality(Behind(r)')
                       /\ r = ref => Cardinality(Behind(r)) + 1 <= Cardinality(Behind(r)')
  <2>1. BeginScan(ContextPattern, h + 1, ModuleEnd)
    BY <1>5 DEF ResumeSearch
  <2>2. h + 1 \in 1..Len(Image) + 1 /\ ModuleEnd \in 1..Len(Image) + 1
    BY <1>2, PatternFacts
  <2>3. ScanInv'
    BY <1>1, <2>1, <2>2, PatternFacts, BeginKeepsInv
  <2>4. scan'.pattern = ContextPattern /\ scan'.start = h + 1
    BY <2>1 DEF BeginScan, Scanning
  <2>5. ASSUME NEW r
        PROVE  Cardinality(Behind(r)') \in Nat
    BY <1>3, <2>4, ReferringFinite
  <2>6. \A r : Behind(r)' = {a \in Referring(r) : a < h + 1}
    BY <1>3, <2>4
  <2> QED
    BY <1>2, <2>3, <2>4, <2>5, <2>6
<1>6. CASE ~Decodes(h) \/ ref \notin InModule
  <2>1. ResumeSearch(h) /\ UNCHANGED <<call, answer, kept, refs>>
    BY <1>6 DEF ContextMatch
  <2>2. ScanInv' /\ scan'.pattern = ContextPattern /\ \A r \in InModule : refs'[r] <= Cardinality(Behind(r)')
    BY <1>1, <1>4, <1>5, <2>1
  <2>3. UNCHANGED m_globalContextSlot
    BY <2>1 DEF kept
  <2> QED
    BY <1>1, <2>1, <2>2, <2>3 DEF CountInv, ContextFound
<1>7. CASE ~(~Decodes(h) \/ ref \notin InModule)
  <2>1. /\ ref \in InModule /\ refs' = [refs EXCEPT ![ref] = @ + 1]
        /\ IF refs'[ref] > kThreshold
           THEN KeepContext(ref)
           ELSE ResumeSearch(h) /\ UNCHANGED <<call, answer, m_globalContextSlot>>
    BY <1>7 DEF ContextMatch
  <2>2. refs' \in [InModule -> Nat] /\ refs'[ref] = refs[ref] + 1 /\ \A r \in InModule \ {ref} : refs'[r] = refs[r]
    BY <1>1, <2>1
  <2>3. CASE ResumeSearch(h) /\ UNCHANGED <<call, answer, m_globalContextSlot>>
    <3>1. ASSUME NEW r \in InModule
          PROVE  refs'[r] <= Cardinality(Behind(r)')
      <4>1. /\ refs[r] \in Nat /\ refs[r] <= Cardinality(Behind(r)) /\ Cardinality(Behind(r)) \in Nat
            /\ Cardinality(Behind(r)') \in Nat /\ Cardinality(Behind(r)) <= Cardinality(Behind(r)')
            /\ r = ref => Cardinality(Behind(r)) + 1 <= Cardinality(Behind(r)')
        BY <1>1, <1>4, <1>5, <2>3
      <4>2. refs'[r] = IF r = ref THEN refs[r] + 1 ELSE refs[r]
        BY <2>2
      <4> HIDE DEF ref
      <4> QED
        BY <4>1, <4>2
    <3> QED
      BY <1>1, <1>5, <2>2, <2>3, <3>1 DEF CountInv, ContextFound
  <2>4. CASE refs'[ref] > kThreshold /\ KeepContext(ref)
    <3>1. EndScan /\ call' \in {"idle", "resolve"} /\ m_globalContextSlot' \in {None, ref}
      BY <1>1, <2>4 DEF KeepContext, NotReadyYet, Return
    <3>2. ScanInv' /\ scan'.phase = "idle"
      BY <1>1, <3>1, EndKeepsInv DEF EndScan, NoScan
    <3>3. ref = GlobalContext
      <4>1. PICK S : S = {a \in Referring(ref) : a < h + 1}
        OBVIOUS
      <4>2. /\ Cardinality(S) \in Nat /\ Cardinality(S) <= Cardinality(Referring(ref))
            /\ Cardinality(Referring(ref)) \in Nat
            /\ Cardinality(Behind(ref)) + 1 <= Cardinality(S)
        BY <1>2, <4>1, ReferringFinite
      <4>3. /\ refs[ref] \in Nat /\ refs[ref] <= Cardinality(Behind(ref)) /\ Cardinality(Behind(ref)) \in Nat
            /\ kThreshold \in Nat /\ refs[ref] + 1 > kThreshold
        BY <1>1, <1>4, <2>1, <2>2, <2>4, ReferencesAssumption
      <4>4. ref # GlobalContext => Cardinality(Referring(ref)) <= kThreshold
        BY <2>1, ReferencesAssumption
      <4> HIDE DEF ref
      <4> QED
        BY <4>2, <4>3, <4>4
    <3> QED
      BY <1>1, <2>2, <3>1, <3>2, <3>3 DEF CountInv, ContextFound
  <2> QED
    BY <2>1, <2>3, <2>4
<1> QED
  BY <1>6, <1>7

\* The other steps of a call leave the slot alone once it is kept.
LEMMA OtherCounts ==
  ASSUME CountInv,
         Call \/ SearchContext \/ ContextMissed \/ FindTdb \/ FindRendererType \/ SearchEncodedBase
           \/ EncodedBaseSearched \/ FindGetRenderFrame \/ AskSingleton \/ ReturnSingleton
  PROVE  CountInv'
<1>1. /\ UNCHANGED memory /\ UNCHANGED m_globalContextSlot /\ ScanInv /\ ScanTypes
      /\ refs \in [InModule -> Nat] /\ ContextFound
  BY DEF Call, SearchContext, ContextMissed, FindTdb, FindRendererType, SearchEncodedBase,
         EncodedBaseSearched, FindGetRenderFrame, AskSingleton, ReturnSingleton, CountInv, ScanInv, kept
<1>2. CASE SearchContext
  <2>1. 1 \in 1..Len(Image) + 1 /\ ModuleEnd \in 1..Len(Image) + 1
    BY PatternFacts
  <2>2. ScanInv' /\ scan'.pattern = ContextPattern
    BY <1>1, <1>2, <2>1, PatternFacts, BeginKeepsInv DEF SearchContext, BeginScan, Scanning
  <2>3. refs' = NoCounts /\ call' = "resolve"
    BY <1>2 DEF SearchContext, FreshCounts, At
  <2>4. \A ref : Cardinality(Behind(ref)') \in Nat
    <3>1. \A ref : Referring(ref)' = Referring(ref)
      BY DEF Referring, Matches, Fixed, Agrees, Reference
    <3>2. \A ref : Behind(ref)' \in SUBSET Referring(ref)
      BY <3>1 DEF Behind
    <3> QED
      BY <3>2, ReferringFinite
  <2>5. \A ref \in InModule : refs'[ref] <= Cardinality(Behind(ref)')
    <3> SUFFICES ASSUME NEW ref \in InModule PROVE refs'[ref] <= Cardinality(Behind(ref)')
      OBVIOUS
    <3>1. refs'[ref] = 0 /\ Cardinality(Behind(ref)') \in Nat
      BY <2>3, <2>4 DEF NoCounts
    <3> QED
      BY <3>1
  <2>6. refs' \in [InModule -> Nat]
    BY <2>3 DEF NoCounts
  <2> QED
    BY <1>1, <2>2, <2>3, <2>5, <2>6 DEF CountInv, ContextFound
<1>3. CASE SearchEncodedBase
  <2>1. 1 \in 1..Len(Image) + 1 /\ ModuleEnd \in 1..Len(Image) + 1
    BY PatternFacts
  <2>2. ScanInv'
    BY <1>1, <1>3, <2>1, PatternFacts, BeginKeepsInv DEF SearchEncodedBase
  <2>3. m_globalContextSlot # None /\ call' = "resolve" /\ UNCHANGED refs
    BY <1>3 DEF SearchEncodedBase, At
  <2> QED
    BY <1>1, <2>2, <2>3 DEF CountInv, ContextFound
<1>4. CASE UNCHANGED <<scan, steady, raced, refs>> /\ call' = "resolve"
  <2>1. ScanInv'
    <3>1. [ScanNext]_<<memory, scanVars>>
      BY <1>1, <1>4 DEF scanVars
    <3> QED
      BY <1>1, <3>1, ScanInvStep
  <2>2. \A ref : Cardinality(Behind(ref))' = Cardinality(Behind(ref))
    BY <1>4 DEF Behind, Referring, Matches, Fixed, Agrees, Reference
  <2> QED
    BY <1>1, <1>4, <2>1, <2>2 DEF CountInv, ContextFound
<1>5. CASE EndScan /\ UNCHANGED refs /\ call' \in {"idle", "resolve"}
  <2>1. ScanInv' /\ scan'.phase = "idle"
    BY <1>1, <1>5, EndKeepsInv DEF EndScan, NoScan
  <2> QED
    BY <1>1, <1>5, <2>1 DEF CountInv, ContextFound
<1>6. CASE Call
  BY <1>4, <1>5, <1>6 DEF Call, Return, scanVars
<1>7. CASE ContextMissed \/ FindTdb \/ FindRendererType
  BY <1>4, <1>5, <1>7 DEF ContextMissed, FindTdb, FindRendererType, At, NotReadyYet, Return, scanVars
<1>8. CASE EncodedBaseSearched \/ FindGetRenderFrame
  BY <1>4, <1>5, <1>8 DEF EncodedBaseSearched, FindGetRenderFrame, At, NotReadyYet, Return, scanVars
<1>9. CASE AskSingleton \/ ReturnSingleton
  BY <1>4, <1>5, <1>9 DEF AskSingleton, ReturnSingleton, At, NotReadyYet, Return, scanVars
<1> QED
  BY <1>2, <1>3, <1>6, <1>7, <1>8, <1>9

\* The scan itself and the game leave the start of the scan, and so what is behind it.
LEMMA ScanCounts ==
  ASSUME CountInv, [ScanNext]_<<memory, scanVars>>, UNCHANGED <<call, m_globalContextSlot, refs>>,
         scan'.start = scan.start, scan'.pattern = scan.pattern,
         scan'.phase = "idle" <=> scan.phase = "idle"
  PROVE  CountInv'
<1>1. ScanInv'
  BY ScanInvStep DEF CountInv
<1>2. \A ref : Cardinality(Behind(ref))' = Cardinality(Behind(ref))
  BY DEF Behind, Referring, Matches, Fixed, Agrees, Reference
<1> QED
  BY <1>1, <1>2 DEF CountInv, ContextFound

\* The invariant of the counter.
THEOREM CountInvariant == BridgeSpec => []CountInv
<1>1. MemoryInit /\ BridgeIdle => CountInv
  <2> SUFFICES ASSUME MemoryInit, BridgeIdle PROVE CountInv
    OBVIOUS
  <2>1. scan = NoScan /\ steady = {} /\ raced = FALSE /\ protection \in [Pages -> Protections]
    BY DEF MemoryInit
  <2>2. ScanInv /\ scan.phase = "idle"
    BY <2>1 DEF ScanInv, ScanTypes, NonePassed, NoScan, Active, Phases
  <2> QED
    BY <2>2 DEF BridgeIdle, CountInv, NoCounts, ContextFound
<1>2. CountInv /\ [BridgeStep]_bridgeVars => CountInv'
  <2> SUFFICES ASSUME CountInv, [BridgeStep]_bridgeVars
               PROVE  CountInv'
    OBVIOUS
  <2>1. DOMAIN scan = {"pattern", "start", "last", "addr", "a", "phase"}
    BY DEF CountInv, ScanInv, ScanTypes
  <2>2. CASE ScanStep /\ UNCHANGED <<engine, bridge, allowed>>
    <3>1. /\ scan'.start = scan.start /\ scan'.pattern = scan.pattern
          /\ scan'.phase = "idle" <=> scan.phase = "idle"
      BY <2>1, <2>2 DEF ScanStep, Compare, Skip
    <3> QED
      BY <2>2, <3>1, ScanCounts DEF ScanNext, bridge, kept
  <2>3. CASE Reprotect
    <3>1. UNCHANGED <<scan, call, m_globalContextSlot, refs>> /\ ScanNext
      BY <2>3 DEF Reprotect, Protect, bridge, kept, ScanNext
    <3> QED
      BY <3>1, ScanCounts
  <2>4. CASE EngineStep \/ CalmDown \/ UNCHANGED bridgeVars
    <3>1. UNCHANGED <<scan, call, m_globalContextSlot, refs, memory, scanVars>>
      BY <2>4 DEF EngineStep, CalmDown, bridgeVars, bridge, kept, scanVars
    <3> QED
      BY <3>1, ScanCounts
  <2> QED
    BY <2>2, <2>3, <2>4, ContextMatchCounts, OtherCounts DEF BridgeStep, ResolveStep
<1> QED
  BY <1>1, <1>2, PTL DEF BridgeSpec

\* ResolveVmContext keeps no slot but the global context's, as long as no other
\* slot of the module is referred to more than kThreshold times.
THEOREM ContextFoundHolds == BridgeSpec => []ContextFound
<1>1. CountInv => ContextFound
  BY DEF CountInv
<1> QED
  BY <1>1, CountInvariant, PTL

-----------------------------------------------------------------------------
(* The types of the bridge.                                                *)

\* A count goes past the threshold once, and ends the search.
BridgeTypes ==
  /\ encodedBase \in {"untried", "missed", "cached"}
  /\ m_getRenderFrame => encodedBase = "cached"
  /\ refs \in [InModule -> 0..kThreshold + 1]
  /\ m_globalContextSlot = None /\ scan.phase # "idle" => \A ref \in InModule : refs[ref] <= kThreshold
  /\ answer \in Answers
  /\ changes \in 0..MaxChanges

\* A call ends with an answer.
LEMMA ReturnTypes ==
  ASSUME NEW status \in {"NotReadyYet", "UnsupportedLayout", "Ready"}, NEW r \in Renderers \cup {None},
         Return(status, r)
  PROVE  answer' \in Answers /\ scan'.phase = "idle"
BY DEF Return, Answers, EndScan, NoScan

\* A match is counted.
LEMMA ContextMatchTypes ==
  ASSUME BridgeTypes, ContextMatch
  PROVE  BridgeTypes'
<1> DEFINE ref == Reference(scan.a)
<1>1. /\ m_globalContextSlot = None /\ scan.phase = "hit"
      /\ \A r \in InModule : refs[r] <= kThreshold
      /\ UNCHANGED <<encodedBase, m_getRenderFrame, changes>>
  BY DEF ContextMatch, At, BridgeTypes, kept, memory
<1>2. answer' \in Answers
  <2>1. NotReadyYet \/ UNCHANGED answer
    BY DEF ContextMatch, KeepContext
  <2> QED
    BY <2>1, ReturnTypes DEF NotReadyYet, BridgeTypes
<1>3. CASE UNCHANGED refs
  BY <1>1, <1>2, <1>3 DEF BridgeTypes
<1>4. CASE ~UNCHANGED refs
  <2>1. /\ ref \in InModule /\ refs' = [refs EXCEPT ![ref] = @ + 1]
        /\ refs'[ref] > kThreshold => KeepContext(ref)
    BY <1>4 DEF ContextMatch
  <2>2. kThreshold \in Nat /\ \A r \in InModule : refs[r] \in Nat /\ refs[r] <= kThreshold
    BY <1>1, ReferencesAssumption DEF BridgeTypes
  <2> HIDE DEF ref
  <2>3. refs' \in [InModule -> 0..kThreshold + 1]
    BY <2>1, <2>2 DEF BridgeTypes
  <2>4. \A r \in InModule : r # ref => refs'[r] <= kThreshold
    BY <2>1, <2>2 DEF BridgeTypes
  <2>5. KeepContext(ref) => scan'.phase = "idle"
    BY ReturnTypes DEF KeepContext, NotReadyYet, EndScan, NoScan
  <2>6. scan'.phase # "idle" => refs'[ref] <= kThreshold
    BY <2>1, <2>2, <2>3, <2>5
  <2> QED
    BY <1>1, <1>2, <2>3, <2>4, <2>6 DEF BridgeTypes
<1> QED
  BY <1>3, <1>4

\* Every step keeps the types.
LEMMA BridgeTypesStep ==
  ASSUME CountInv, StagesInv, BridgeTypes, [BridgeStep]_bridgeVars
  PROVE  BridgeTypes'
<1>1. CASE SearchContext
  <2>1. refs' = NoCounts /\ kThreshold \in Nat
    BY <1>1, ReferencesAssumption DEF SearchContext, FreshCounts
  <2>2. refs' \in [InModule -> 0..kThreshold + 1] /\ \A r \in InModule : refs'[r] <= kThreshold
    BY <2>1 DEF NoCounts
  <2> QED
    BY <1>1, <2>2 DEF SearchContext, BridgeTypes, kept, memory
<1>2. ASSUME UNCHANGED <<refs, changes>>, answer' \in Answers,
             encodedBase' \in {"untried", "missed", "cached"}, m_getRenderFrame' => encodedBase' = "cached",
             \/ scan'.phase = "idle"
             \/ (scan'.phase = scan.phase /\ m_globalContextSlot' = m_globalContextSlot)
             \/ m_globalContextSlot' # None
      PROVE  BridgeTypes'
  BY <1>2 DEF BridgeTypes
<1>3. ASSUME UNCHANGED <<refs, changes, encodedBase, m_getRenderFrame, m_globalContextSlot>>,
             UNCHANGED <<answer, scan>> \/ NotReadyYet \/ Return("UnsupportedLayout", None)
      PROVE  BridgeTypes'
  <2>1. answer' \in Answers /\ (scan'.phase = "idle" \/ scan'.phase = scan.phase)
    BY <1>3, ReturnTypes DEF NotReadyYet, BridgeTypes
  <2> QED
    BY <1>2, <1>3, <2>1 DEF BridgeTypes
<1>4. CASE Call \/ ContextMissed \/ FindTdb \/ FindRendererType
  BY <1>3, <1>4 DEF Call, ContextMissed, FindTdb, FindRendererType, kept, memory, scanVars
<1>5. CASE SearchEncodedBase \/ EncodedBaseSearched \/ FindGetRenderFrame
  <2>1. /\ m_globalContextSlot' = m_globalContextSlot /\ m_globalContextSlot # None
        /\ UNCHANGED <<refs, changes>>
        /\ encodedBase' \in {"untried", "missed", "cached"}
        /\ m_getRenderFrame' => encodedBase' = "cached"
    BY <1>5 DEF SearchEncodedBase, EncodedBaseSearched, FindGetRenderFrame, At, kept, memory, BridgeTypes
  <2>2. NotReadyYet \/ UNCHANGED answer
    BY <1>5 DEF SearchEncodedBase, EncodedBaseSearched, FindGetRenderFrame
  <2>3. answer' \in Answers
    BY <2>2, ReturnTypes DEF NotReadyYet, BridgeTypes
  <2> QED
    BY <1>2, <2>1, <2>3
<1>6. CASE AskSingleton \/ ReturnSingleton
  <2>1. /\ UNCHANGED <<refs, changes, encodedBase, m_getRenderFrame, m_globalContextSlot>>
        /\ UNCHANGED <<answer, scan>> \/ NotReadyYet \/ Return("Ready", out)
    BY <1>6 DEF AskSingleton, ReturnSingleton, kept, memory, scanVars
  <2>2. CASE Return("Ready", out)
    <3>1. answer' \in Answers /\ scan'.phase = "idle"
      BY <2>2, ReturnTypes DEF StagesInv
    <3> QED
      BY <1>2, <2>1, <3>1 DEF BridgeTypes
  <2> QED
    BY <1>3, <2>1, <2>2
<1>7. CASE ScanStep /\ UNCHANGED <<engine, bridge, allowed>>
  <2>1. scan.phase # "idle" /\ UNCHANGED <<refs, changes, encodedBase, m_getRenderFrame, m_globalContextSlot, answer>>
    BY <1>7 DEF ScanStep, Compare, Skip, memory, bridge, kept
  <2> QED
    BY <2>1 DEF BridgeTypes
<1>8. CASE Reprotect
  <2>1. /\ UNCHANGED <<refs, encodedBase, m_getRenderFrame, m_globalContextSlot, answer, scan>>
        /\ changes' = changes + 1 /\ changes < MaxChanges
    BY <1>8 DEF Reprotect, Protect, bridge, kept
  <2>2. changes' \in 0..MaxChanges
    BY <2>1, ImageAssumption DEF BridgeTypes
  <2> QED
    BY <2>1, <2>2 DEF BridgeTypes
<1>9. CASE EngineStep \/ CalmDown \/ UNCHANGED bridgeVars
  BY <1>9 DEF EngineStep, CalmDown, bridgeVars, bridge, kept, memory, scanVars, BridgeTypes
<1> QED
  BY <1>1, <1>4, <1>5, <1>6, <1>7, <1>8, <1>9, ContextMatchTypes DEF BridgeStep, ResolveStep

\* Type correctness of the bridge and of the searches it makes.
THEOREM BridgeTypeCorrect == BridgeSpec => []BridgeTypeOK
<1>1. MemoryInit /\ BridgeIdle => BridgeTypes
  BY ImageAssumption, ReferencesAssumption
  DEF MemoryInit, BridgeIdle, BridgeTypes, NoCounts, NoScan, Answers
<1>2. BridgeTypes /\ CountInv /\ AnswersInv /\ [BridgeStep]_bridgeVars => BridgeTypes'
  BY BridgeTypesStep DEF AnswersInv
<1>3. BridgeTypes /\ CountInv /\ AnswersInv => BridgeTypeOK
  <2> SUFFICES ASSUME BridgeTypes, CountInv, AnswersInv
               PROVE  BridgeTypeOK
    OBVIOUS
  <2>1. MemoryTypeOK
    BY DEF BridgeTypes, CountInv, ScanInv, ScanTypes, Active, ReadablePages, MemoryTypeOK
  <2> QED
    BY <2>1, ReferencesAssumption
    DEF BridgeTypes, CountInv, ContextFound, AnswersInv, StagesInv, BridgeTypeOK
<1> QED
  BY <1>1, <1>2, <1>3, CountInvariant, AnswersInvariant, PTL DEF BridgeSpec

-----------------------------------------------------------------------------
(* The searches come to an end.  Addresses are bounded by the image; every *)
(* step makes a later one the start of the search, of its attempt or of    *)
(* its comparison, or ends an attempt.                                     *)

\* The attempt gets on, or gives way to one that begins further on.
Further ==
  \/ scan'.addr > scan.addr
  \/ scan'.addr = scan.addr /\ scan'.a > scan.a
  \/ /\ scan'.addr = scan.addr /\ scan'.a = scan.a
     /\ scan.phase = "compare" /\ scan'.phase \in {"faulted", "hit", "miss"}

\* The search gets on, or is resumed further on.
Nearer == scan'.start > scan.start \/ (scan'.start = scan.start /\ Further)

\* ScanParsed never goes back to an attempt it has given up: the end of a region
\* lies past the address it was asked for.
LEMMA ScanGetsOn ==
  ASSUME ScanTypes, ScanStep
  PROVE  Nearer
<1>1. DOMAIN scan = {"pattern", "start", "last", "addr", "a", "phase"}
  BY DEF ScanTypes
<1>2. CASE Compare
  <2>1. scan.a \in Nat
    BY <1>2 DEF Compare, ScanTypes, Fits
  <2> QED
    BY <1>1, <1>2, <2>1 DEF Compare, Nearer, Further
<1>3. CASE Skip
  <2>1. /\ scan.pattern \in Patterns /\ scan.last + Len(scan.pattern) <= Len(Image) + 1
        /\ scan.start \in Nat \ {0} /\ scan.addr \in Nat /\ scan.a \in Nat /\ scan.last \in Int
        /\ scan.start <= scan.addr /\ scan.addr <= scan.a /\ scan.a <= scan.last
    BY <1>3 DEF Skip, ScanTypes, Fits, Active
  <2>2. Len(scan.pattern) \in Nat \ {0} /\ Len(Image) \in Nat /\ DOMAIN Image = 1..Len(Image)
    BY <2>1, PatternsAssumption, ImageAssumption
  <2>3. scan.addr \in Nat \ {0} /\ scan.addr \in DOMAIN Image
    BY <2>1, <2>2
  <2>4. RegionEnd(scan.addr) > scan.addr
    BY <2>3, RegionBounds
  <2>5. scan'.addr = RegionEnd(scan.addr) /\ scan'.start = scan.start
    BY <1>1, <1>3 DEF Skip
  <2> QED
    BY <2>4, <2>5 DEF Nearer, Further
<1> QED
  BY <1>2, <1>3 DEF ScanStep

\* A search is resumed past the match it has found.
LEMMA ResumedFurtherOn ==
  ASSUME ScanTypes, scan.phase = "hit", NEW pattern, NEW end, BeginScan(pattern, scan.a + 1, end)
  PROVE  Nearer
<1>1. scan.start \in Nat /\ scan.a \in Nat /\ scan.start <= scan.a
  BY DEF ScanTypes, Fits, Active
<1>2. scan'.start = scan.a + 1
  BY DEF BeginScan, Scanning
<1> QED
  BY <1>1, <1>2 DEF Nearer

\* Every search ends: no step of ScanParsed goes back, nor do the searches that a
\* discovery of constants or of the context makes one after the other, whatever
\* protections the game changes meanwhile.
THEOREM SearchesGetOn ==
  /\ ScanSpec => [][ScanStep => Nearer]_<<memory, scanVars>>
  /\ DiscoverySpec => [][scan.phase # "idle" /\ scan'.phase # "idle" /\ scan' # scan => Nearer
                        ]_<<memory, scanVars, discoveryVars>>
  /\ BridgeSpec => [][scan.phase # "idle" /\ scan'.phase # "idle" /\ scan' # scan => Nearer]_bridgeVars
<1>1. ScanInv /\ [ScanNext]_<<memory, scanVars>> => [ScanStep => Nearer]_<<memory, scanVars>>
  BY ScanGetsOn DEF ScanInv
<1>2. ASSUME DiscoveryInv, DiscoveryStep, scan.phase # "idle", scan'.phase # "idle", scan' # scan
      PROVE  Nearer
  <2>1. CASE CollectMatch
    <3>1. ~EndScan
      BY <1>2 DEF EndScan, NoScan
    <3>2. scan.phase = "hit" /\ BeginScan(Signature, scan.a + 1, GameEnd - Margin)
      BY <2>1, <3>1, Zenon DEF CollectMatch, NextStart
    <3> QED
      BY <1>2, <3>2, ResumedFurtherOn DEF DiscoveryInv, ScanInv
  <2>2. CASE ScanStep
    BY <1>2, <2>2, ScanGetsOn DEF DiscoveryInv, ScanInv
  <2> QED
    BY <1>2, <2>1, <2>2
    DEF DiscoveryStep, BeginDiscovery, NoMoreMatches, ReprotectSites, Protect, EndScan, NoScan
<1>3. ASSUME CountInv, BridgeStep, scan.phase # "idle", scan'.phase # "idle", scan' # scan
      PROVE  Nearer
  <2>1. CASE ContextMatch
    <3>1. scan.phase = "hit" /\ ResumeSearch(scan.a)
      BY <1>3, <2>1 DEF ContextMatch, KeepContext, NotReadyYet, Return, EndScan, NoScan
    <3> QED
      BY <1>3, <3>1, ResumedFurtherOn DEF ResumeSearch, CountInv, ScanInv
  <2>2. CASE ScanStep
    BY <1>3, <2>2, ScanGetsOn DEF CountInv, ScanInv
  <2>3. ~EngineStep /\ ~CalmDown /\ ~Reprotect
    BY <1>3 DEF EngineStep, CalmDown, Reprotect, Protect, scanVars
  <2>4. ~SearchContext /\ ~SearchEncodedBase
    BY <1>3 DEF SearchContext, SearchEncodedBase
  <2>5. ~EndScan
    BY <1>3 DEF EndScan, NoScan
  <2>6. ~Call /\ ~ContextMissed /\ ~FindTdb /\ ~FindRendererType /\ ~EncodedBaseSearched
        /\ ~FindGetRenderFrame /\ ~AskSingleton /\ ~ReturnSingleton
    BY <1>3, <2>5 DEF Call, ContextMissed, FindTdb, FindRendererType, EncodedBaseSearched,
                      FindGetRenderFrame, AskSingleton, ReturnSingleton, NotReadyYet, Return, scanVars
  <2> QED
    BY <1>3, <2>1, <2>2, <2>3, <2>4, <2>6 DEF BridgeStep, ResolveStep
<1> QED
  BY <1>1, <1>2, <1>3, ScanInvariant, DiscoveryInvariant, CountInvariant, PTL
  DEF ScanSpec, DiscoverySpec, BridgeSpec

-----------------------------------------------------------------------------
(* The walk along the paths of code.                                       *)

Queued == {worklist[i] : i \in 1..Len(worklist)}

\* The instruction the path goes on with, if there is one.
Next == IF walk = "path" THEN {cursor} ELSE {}

WalkTypes ==
  /\ insn \in [Code -> Instructions]
  /\ entry \in Code
  /\ walk \in {"path", "pop", "found", "none"}
  /\ worklist \in Seq(Addresses)
  /\ visited \subseteq Addresses
  /\ cursor \in Addresses
  /\ cut \in BOOLEAN

\* The walk stays inside every closed set that holds its entry.
Inside(S) == entry \in S /\ Closed(S) => Queued \subseteq S /\ Next \subseteq S

StaysInside == \A S \in SUBSET Addresses : Inside(S)

\* Whatever can follow a visited instruction is visited too, or is to come, as
\* long as no limit has cut a path.
Frontier ==
  /\ ~cut => entry \in visited \cup Queued \cup Next
  /\ ~cut => \A a \in visited : Successors(a) \subseteq visited \cup Queued \cup Next
  /\ walk = "none" /\ ~cut => Queued = {}

\* A visited instruction the pattern matches ends the walk.
StopsAtMatch ==
  /\ walk # "found" => visited \intersect Code \intersect matches = {}
  /\ walk = "found" => /\ cursor \in matches \intersect Code
                       /\ \A S \in SUBSET Addresses : entry \in S /\ Closed(S) => cursor \in S

WalkInv == WalkTypes /\ StaysInside /\ (walk # "found" => Frontier) /\ StopsAtMatch

USE CodeAssumption, LimitsAssumption
-----------------------------------------------------------------------------
\* Control goes to addresses.
LEMMA SuccessorsType ==
  ASSUME WalkTypes, NEW a \in Code
  PROVE  /\ insn[a].kind \in {"jump", "cond"} => insn[a].target \in Addresses
         /\ a \in Addresses /\ a + 1 \in Addresses
  BY DEF WalkTypes, Instructions

\* What pop_back() leaves.
LEMMA AllButLast ==
  ASSUME NEW S, NEW w \in Seq(S), w # <<>>
  PROVE  /\ SubSeq(w, 1, Len(w) - 1) \in Seq(S)
         /\ Len(SubSeq(w, 1, Len(w) - 1)) = Len(w) - 1
         /\ \A i \in 1..Len(w) - 1 : SubSeq(w, 1, Len(w) - 1)[i] = w[i]
<1>1. PICK m \in Nat : m = Len(w) - 1 /\ m + 1 = Len(w)
  <2>1. Len(w) \in Nat /\ Len(w) # 0
    BY EmptySeq
  <2> QED
    BY <2>1
<1>2. \A i \in 1..m : w[i] \in S
  BY <1>1, ElementOfSeq
<1>3. m \in Int /\ 1 \in Int /\ m - 1 + 1 = m /\ \A i \in 1..m : 1 + i - 1 = i
  OBVIOUS
<1>4. /\ SubSeq(w, 1, m) \in Seq(S)
      /\ Len(SubSeq(w, 1, m)) = IF 1 <= m THEN m - 1 + 1 ELSE 0
      /\ \A i \in 1..m - 1 + 1 : SubSeq(w, 1, m)[i] = w[1 + i - 1]
  BY <1>2, <1>3, SubSeqProperties
<1>5. m = IF 1 <= m THEN m - 1 + 1 ELSE 0
  OBVIOUS
<1>6. \A i \in 1..m : SubSeq(w, 1, m)[i] = w[i]
  BY <1>3, <1>4
<1> QED
  BY <1>1, <1>4, <1>5, <1>6

\* The walk takes the newest path, or ends.
LEMMA PopStep ==
  ASSUME WalkInv, Pop
  PROVE  WalkInv'
<1> USE DEF WalkInv
<1>1. CASE worklist # <<>> /\ budget > 0
  <2> DEFINE n == Len(worklist)
  <2>1. /\ n \in Nat /\ n > 0 /\ worklist[n] \in Addresses
        /\ worklist' = SubSeq(worklist, 1, n - 1) /\ cursor' = worklist[n]
        /\ walk = "pop" /\ walk' = "path"
        /\ UNCHANGED <<insn, entry, matches, visited, cut>>
    BY <1>1 DEF Pop, WalkTypes, program
  <2>2. /\ worklist' \in Seq(Addresses) /\ Len(worklist') = n - 1
        /\ \A i \in 1..n - 1 : worklist'[i] = worklist[i]
    BY <1>1, <2>1, AllButLast DEF WalkTypes
  <2>3. Queued \cup Next = Queued' \cup Next'
    <3>1. Queued = {worklist[i] : i \in 1..n - 1} \cup {worklist[n]}
      BY <2>1 DEF Queued
    <3>2. Queued' = {worklist[i] : i \in 1..n - 1}
      BY <2>1, <2>2 DEF Queued
    <3> QED
      BY <2>1, <3>1, <3>2 DEF Next
  <2>4. \A S : Closed(S)' = Closed(S)
    BY <2>1 DEF Closed, Successors
  <2>5. \A a : Successors(a)' = Successors(a)
    BY <2>1 DEF Successors
  <2>6. WalkTypes'
    BY <2>1, <2>2 DEF WalkTypes
  <2>7. StaysInside'
    BY <2>1, <2>3, <2>4 DEF StaysInside, Inside
  <2>8. Frontier'
    BY <2>1, <2>3, <2>5 DEF Frontier
  <2>9. StopsAtMatch'
    BY <2>1 DEF StopsAtMatch
  <2> QED
    BY <2>6, <2>7, <2>8, <2>9
<1>2. CASE ~(worklist # <<>> /\ budget > 0)
  <2>1. /\ walk = "pop" /\ walk' = "none"
        /\ cut' = (cut \/ worklist # <<>>)
        /\ UNCHANGED <<insn, entry, matches, visited, worklist, cursor>>
    BY <1>2 DEF Pop, program
  <2>2. Queued' = Queued /\ Next = {} /\ Next' = {}
    BY <2>1 DEF Queued, Next
  <2>3. \A S : Closed(S)' = Closed(S)
    BY <2>1 DEF Closed, Successors
  <2>4. \A a : Successors(a)' = Successors(a)
    BY <2>1 DEF Successors
  <2>5. WalkTypes'
    BY <2>1 DEF WalkTypes
  <2>6. StaysInside'
    BY <2>1, <2>2, <2>3 DEF StaysInside, Inside
  <2>9. StopsAtMatch'
    BY <2>1 DEF StopsAtMatch
  <2>7. ~cut' => Queued' = {}
    <3>1. ~cut' => worklist' = <<>>
      BY <2>1
    <3>2. worklist' = <<>> => Queued' = {}
      BY DEF Queued
    <3> QED
      BY <3>1, <3>2
  <2>8. Frontier'
    BY <2>1, <2>2, <2>4, <2>7 DEF Frontier
  <2> QED
    BY <2>5, <2>6, <2>8, <2>9
<1> QED
  BY <1>1, <1>2

\* What a visit adds to the worklist, and what the path goes on with.
LEMMA VisitCases ==
  ASSUME WalkInv, Visit
  PROVE  /\ walk = "path" /\ visited' = visited \cup {cursor}
         /\ UNCHANGED <<insn, entry, matches>>
         /\ worklist' \in Seq(Addresses) /\ cursor' \in Addresses
         /\ walk' \in {"path", "pop", "found"} /\ cut' \in BOOLEAN
         /\ walk' = "found" <=> cursor \notin visited /\ cursor \in Code \intersect matches
         /\ walk' = "found" => cursor' = cursor
         /\ Queued \subseteq Queued'
         /\ Queued' \cup Next' \subseteq Queued \cup Successors(cursor)
         /\ ~cut' => ~cut
         /\ ~cut' /\ walk' # "found" /\ cursor \notin visited =>
              Successors(cursor) \subseteq visited' \cup Queued' \cup Next'
<1> USE DEF WalkInv
<1>1. /\ walk = "path" /\ visited' = visited \cup {cursor}
      /\ UNCHANGED <<insn, entry, matches>>
      /\ cursor \in Addresses /\ cut \in BOOLEAN /\ worklist \in Seq(Addresses)
  BY DEF Visit, program, WalkTypes
<1>2. ASSUME UNCHANGED worklist
      PROVE  Queued' = Queued
  BY <1>2 DEF Queued
<1>3. CASE cursor \in visited \/ cursor \notin Code
  BY <1>1, <1>2, <1>3 DEF Visit, EndPath, Next, Successors
<1>4. CASE cursor \notin visited /\ cursor \in Code /\ cursor \in matches
  BY <1>1, <1>2, <1>4 DEF Visit, Next
<1>5. CASE cursor \notin visited /\ cursor \in Code /\ cursor \notin matches
  <2>1. /\ cursor + 1 \in Addresses
        /\ insn[cursor].kind \in {"jump", "cond"} => insn[cursor].target \in Addresses
        /\ insn[cursor].kind \in {"jump", "cond", "next", "stop", "lost"}
    BY <1>5, SuccessorsType DEF WalkTypes, Instructions
  <2>2. CASE insn[cursor].kind = "jump"
    BY <1>1, <1>2, <1>5, <2>1, <2>2 DEF Visit, EndPath, GoOn, Next, Successors
  <2>3. CASE insn[cursor].kind = "cond"
    <3> DEFINE t == insn[cursor].target
    <3>1. worklist' = Append(worklist, t) /\ GoOn(cursor + 1)
      BY <1>1, <1>5, <2>3 DEF Visit, Queue
    <3>2. Queued' = Queued \cup {t} /\ worklist' \in Seq(Addresses)
      <4>1. /\ worklist' \in Seq(Addresses) /\ Len(worklist') = Len(worklist) + 1
            /\ worklist'[Len(worklist) + 1] = t
            /\ \A i \in 1..Len(worklist) : worklist'[i] = worklist[i]
        BY <1>1, <2>1, <2>3, <3>1
      <4> HIDE DEF t
      <4>2. 1..Len(worklist') = 1..Len(worklist) \cup {Len(worklist) + 1}
        BY <1>1, <4>1
      <4> QED
        BY <4>1, <4>2 DEF Queued
    <3>3. Successors(cursor) = {cursor + 1, t}
      BY <1>5, <2>3 DEF Successors
    <3> HIDE DEF t
    <3> QED
      BY <1>1, <1>5, <2>1, <3>1, <3>2, <3>3 DEF GoOn, Next
  <2>4. CASE insn[cursor].kind = "next"
    BY <1>1, <1>2, <1>5, <2>1, <2>4 DEF Visit, GoOn, Next, Successors
  <2>5. CASE insn[cursor].kind \in {"stop", "lost"}
    BY <1>1, <1>2, <1>5, <2>5 DEF Visit, EndPath, Next, Successors
  <2> QED
    BY <2>1, <2>2, <2>3, <2>4, <2>5
<1> QED
  BY <1>3, <1>4, <1>5

\* The walk takes an instruction, by the cases above.
LEMMA VisitStep ==
  ASSUME WalkInv, Visit
  PROVE  WalkInv'
<1> USE DEF WalkInv
<1>1. Next = {cursor} /\ cursor \in Addresses
  BY VisitCases DEF Next, WalkTypes
<1>2. \A S : Closed(S)' = Closed(S)
  BY VisitCases DEF Closed, Successors
<1>3. \A a : Successors(a)' = Successors(a)
  BY VisitCases DEF Successors
<1>4. WalkTypes'
  BY <1>1, VisitCases DEF WalkTypes
<1>5. StaysInside'
  <2> SUFFICES ASSUME NEW S \in SUBSET Addresses, entry \in S, Closed(S)
               PROVE  Queued' \subseteq S /\ Next' \subseteq S
    BY <1>2, VisitCases DEF StaysInside, Inside
  <2>1. cursor \in S /\ Queued \subseteq S
    BY <1>1 DEF StaysInside, Inside
  <2>2. Successors(cursor) \subseteq S
    BY <2>1 DEF Closed
  <2> QED
    BY <2>1, <2>2, VisitCases
<1>6. walk' # "found" => Frontier'
  <2> SUFFICES ASSUME walk' # "found", ~cut'
               PROVE  /\ entry \in visited' \cup Queued' \cup Next'
                      /\ \A a \in visited' : Successors(a) \subseteq visited' \cup Queued' \cup Next'
    BY <1>3, VisitCases DEF Frontier
  <2>1. Frontier /\ ~cut /\ walk # "found"
    BY VisitCases
  <2>2. visited \cup Queued \cup Next \subseteq visited' \cup Queued' \cup Next'
    BY <1>1, VisitCases
  <2>3. \A a \in visited : Successors(a) \subseteq visited' \cup Queued' \cup Next'
    BY <2>1, <2>2 DEF Frontier
  <2>4. cursor \notin visited => Successors(cursor) \subseteq visited' \cup Queued' \cup Next'
    BY VisitCases
  <2> QED
    BY <2>1, <2>2, <2>3, <2>4, VisitCases DEF Frontier
<1>7. StopsAtMatch'
  <2>1. \A S \in SUBSET Addresses : entry \in S /\ Closed(S) => cursor \in S
    BY <1>1 DEF StaysInside, Inside
  <2>2. visited \intersect Code \intersect matches = {}
    BY VisitCases DEF StopsAtMatch
  <2>3. walk' # "found" => visited' \intersect Code \intersect matches' = {}
    BY <2>2, VisitCases
  <2> QED
    BY <1>2, <2>1, <2>3, VisitCases DEF StopsAtMatch
<1> QED
  BY <1>4, <1>5, <1>6, <1>7

\* The walk begins with its entry queued.
LEMMA WalkInvInit == WalkInit => WalkInv
<1> SUFFICES ASSUME WalkInit
             PROVE  WalkInv
  OBVIOUS
<1>1. WalkTypes
  <2>1. entry \in Addresses
    BY DEF WalkInit
  <2>2. <<entry>> \in Seq(Addresses)
    BY <2>1
  <2> QED
    BY <2>1, <2>2 DEF WalkInit, WalkTypes
<1>2. Queued = {entry} /\ Next = {} /\ visited = {}
  BY DEF WalkInit, Queued, Next
<1>3. StaysInside /\ Frontier /\ StopsAtMatch
  BY <1>2 DEF WalkInit, StaysInside, Inside, Frontier, StopsAtMatch
<1> QED
  BY <1>1, <1>3 DEF WalkInv

\* The inductive invariant of the walk.
THEOREM WalkInvariant == WalkSpec => []WalkInv
<1>1. WalkInv /\ [WalkStep]_walkVars => WalkInv'
  <2> SUFFICES ASSUME WalkInv, [WalkStep]_walkVars
               PROVE  WalkInv'
    OBVIOUS
  <2>1. CASE UNCHANGED walkVars
    <3> USE <2>1 DEF walkVars, WalkInv
    <3>1. Queued' = Queued /\ Next' = Next
      BY DEF Queued, Next
    <3>2. \A S : Closed(S)' = Closed(S)
      BY DEF Closed, Successors
    <3>3. \A a : Successors(a)' = Successors(a)
      BY DEF Successors
    <3>4. WalkTypes'
      BY DEF WalkTypes
    <3>7. walk' # "found" => Frontier'
      BY <3>1, <3>3 DEF Frontier
    <3>5. StaysInside'
      BY <3>1, <3>2 DEF StaysInside, Inside
    <3>6. StopsAtMatch'
      BY <3>2 DEF StopsAtMatch
    <3> QED
      BY <3>4, <3>5, <3>6, <3>7
  <2> QED
    BY <2>1, PopStep, VisitStep DEF WalkStep
<1> QED
  BY <1>1, WalkInvInit, PTL DEF WalkSpec

\* What the walk finds can be reached, and what it does not find cannot, unless
\* a limit cut a path.
THEOREM WalkExactHolds == WalkSpec => []WalkExact
<1>1. WalkInv => WalkExact
  <2> SUFFICES ASSUME WalkInv
               PROVE  WalkExact
    OBVIOUS
  <2>1. ASSUME walk = "none", ~cut
        PROVE  /\ visited \in SUBSET Addresses /\ entry \in visited /\ Closed(visited)
               /\ visited \intersect Code \intersect matches = {}
    BY <2>1 DEF WalkInv, WalkTypes, Frontier, StopsAtMatch, Closed, Next
  <2> QED
    BY <2>1 DEF WalkInv, StopsAtMatch, WalkExact
<1> QED
  BY <1>1, WalkInvariant, PTL
-----------------------------------------------------------------------------
(* The limits of the walk.                                                 *)

\* A path never exceeds maxSize nor the walk its budget, which does not wrap.
WithinLimits ==
  /\ steps \in 0..maxSize /\ budget \in 0..globalBudget
  /\ walk = "path" => steps < maxSize /\ budget > 0
  /\ IsFiniteSet(visited) /\ Cardinality(visited) + budget <= globalBudget

\* What the walk may still do.
Left == 2 * budget + IF walk = "pop" THEN 1 ELSE 0

\* A step keeps the limits and uses some of what is left.
LEMMA WalkGetsOn ==
  ASSUME WithinLimits, WalkStep
  PROVE  WithinLimits' /\ Left' \in Nat /\ Left' < Left
<1>1. CASE Pop
  <2>1. walk = "pop" /\ UNCHANGED <<visited, budget>> /\ walk' # "pop"
        /\ \/ walk' = "path" /\ budget > 0 /\ steps' = 0
           \/ walk' = "none" /\ steps' = steps
    BY <1>1 DEF Pop
  <2> QED
    BY <2>1 DEF WithinLimits, Left
<1>2. CASE Visit
  <2>1. /\ walk = "path" /\ steps' = steps + 1 /\ budget' = budget - 1
        /\ visited' = visited \cup {cursor}
    BY <1>2 DEF Visit
  <2>2. walk' = "path" => steps + 1 < maxSize /\ budget > 1
    BY <1>2 DEF Visit, GoOn, EndPath
  <2>3. IsFiniteSet(visited') /\ Cardinality(visited') \in Nat /\ Cardinality(visited) \in Nat
        /\ Cardinality(visited') <= Cardinality(visited) + 1
    <3>1. Cardinality(visited) \in Nat /\ IsFiniteSet(visited)
      BY FS_CardinalityType DEF WithinLimits
    <3>2. IsFiniteSet(visited \cup {cursor})
          /\ Cardinality(visited \cup {cursor})
               = IF cursor \in visited THEN Cardinality(visited) ELSE Cardinality(visited) + 1
      BY <3>1, FS_AddElement
    <3> QED
      BY <2>1, <3>1, <3>2
  <2> DEFINE m == Cardinality(visited)
             n == Cardinality(visited')
  <2>4. m + budget <= globalBudget /\ n \in Nat /\ m \in Nat /\ n <= m + 1
    BY <2>3 DEF WithinLimits
  <2>5. budget' \in 0..globalBudget /\ steps' \in 0..maxSize
    BY <2>1 DEF WithinLimits
  <2>6. n + budget' <= globalBudget
    <3> HIDE DEF m, n
    <3> QED
      BY <2>1, <2>4 DEF WithinLimits
  <2>7. Left' \in Nat /\ Left' < Left
    BY <2>1, <2>5 DEF WithinLimits, Left
  <2> QED
    BY <2>1, <2>2, <2>3, <2>5, <2>6, <2>7 DEF WithinLimits
<1> QED
  BY <1>1, <1>2 DEF WalkStep

\* FindPatternInPath keeps its limits and ends, whatever the program: with each step
\* less is left, and it never visits more instructions than its budget.
THEOREM WalkComesToAnEnd ==
  WalkSpec => /\ []WithinLimits
              /\ [][Left' \in Nat /\ Left' < Left]_walkVars
<1>1. WalkInit => WithinLimits
  BY FS_EmptySet DEF WalkInit, WithinLimits
<1>2. WithinLimits /\ [WalkStep]_walkVars
        => WithinLimits' /\ [Left' \in Nat /\ Left' < Left]_walkVars
  <2>1. CASE UNCHANGED walkVars
    BY <2>1 DEF walkVars, WithinLimits
  <2> QED
    BY <2>1, WalkGetsOn
<1> QED
  BY <1>1, <1>2, PTL DEF WalkSpec
=============================================================================
