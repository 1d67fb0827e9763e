--------------------------- MODULE SegmentsProofs ---------------------------
(***************************************************************************)
(* Segments: the bookkeeping of pages and tables, the page table memory    *)
(* and the shared segments, for any number of processes and names and any  *)
(* address space.                                                          *)
(*                                                                         *)
(* The provers have to know that a caller's segment does not reach past    *)
(* the end of an unsigned word: NoWrap is a hypothesis of the theorems.    *)
(***************************************************************************)
EXTENDS Segments, FiniteSetTheorems, TLAPS

\* The sum in segmentFits does not wrap around.
InWord(address, size) ==
  address \in Nat /\ size \in Nat \ {0} /\ address + size * PageSize <= 2 ^ WordBits
NoWrap == \A address \in Addresses, size \in Sizes : InWord(address, size)

---------------------------------------------------------------------------
(* Shapes.                                                                 *)

Partial(X, Y) == UNION {[S -> Y] : S \in SUBSET X}

Process ==
  [segments : Partial(PageIds, Segment),
   allocated : SUBSET PageIds,
   pmt1 : [TableIds -> [pmt2Valid : BOOLEAN, numValidPMT2Entries : Nat]],
   sharedSegmentVirtualAddressMap : Partial(Names, Nat),
   virtualAddressSharedSegmentMap : Partial(Nat, Names \cup {NoName})]

LoadCall       == [op : {"load"}, address : Addresses]
AttachCall     == [op : {"attach"}, address : Nat, size : Nat \ {0}, name : Names,
                   dangling : BOOLEAN]
DisconnectCall == [op : {"disconnect"}, name : Names]
RefusedCall    == [op : {"refused", "erase"}, address : Nat, name : Names]
SegmentCall    == {Idle} \cup LoadCall \cup AttachCall \cup DisconnectCall \cup RefusedCall

CloneJob    == [op : {"clone"}, parent : Procs, process : Procs, todo : SUBSET PageIds]
RollbackJob == [op : {"rollback"}, parent : Procs, process : Procs, isShared : BOOLEAN]
DestroyJob  == [op : {"destroy"}, process : Procs]
ProcessJob  == {NoJob} \cup CloneJob \cup RollbackJob \cup DestroyJob

Shaped ==
  /\ life \in [Procs -> Stages]
  /\ proc \in [Procs -> Process]
  /\ call \in [Procs -> SegmentCall]
  /\ sizeInFrames \in PMTSizes
  /\ freeFrames \in Nat
  /\ segmentsMap \in Partial(Names, [size : Nat \ {0}, owners : SUBSET Procs])
  /\ job \in ProcessJob
  /\ crashed \in BOOLEAN
  /\ spoiled \subseteq Procs

\* A segment ends inside the address space, each allocated page is covered by
\* one segment, and pmt1 counts the allocated pages of each table.
Span(pr, s) == SpanOf(s, pr.segments[s].numPages)
Used(pr, t) == Cardinality(pr.allocated \cap pagesOfTable(t))
Inside(pr)  == \A s \in DOMAIN pr.segments : s + pr.segments[s].numPages <= PagesNum
Owned(pr) ==
  /\ pr.allocated = UNION {Span(pr, s) : s \in DOMAIN pr.segments}
  /\ \A s, t \in DOMAIN pr.segments : s # t => Span(pr, s) \cap Span(pr, t) = {}
Counted(pr) ==
  \A t \in TableIds :
    pr.pmt1[t] = [pmt2Valid |-> Used(pr, t) # 0, numValidPMT2Entries |-> Used(pr, t)]
Good(pr) == Inside(pr) /\ Owned(pr) /\ Counted(pr)

\* The loop under ksMutex works on a process that is not live, and the parent
\* of a clone stays live under it.
JobFits ==
  /\ job.op \in {"clone", "rollback"} =>
       life[job.process] = "cloning" /\ life[job.parent] = "live"
  /\ job.op = "destroy" => life[job.process] = "destroying"
  /\ \A p \in Procs : life[p] = "cloning" => job.op \in {"clone", "rollback"} /\ job.process = p

\* The empty name is only in a map that is being cleaned up.
Cleaned(p) == job.op \in {"destroy", "rollback"} /\ job.process = p
Known(map) == \A a \in DOMAIN map : map[a] # NoName
NamesKnown ==
  \A p \in Procs : Cleaned(p) \/ Known(proc[p].virtualAddressSharedSegmentMap)

CallsFit ==
  \A p \in Procs : call[p].op = "attach" => InWord(call[p].address, call[p].size)

ProcsGood == \A p \in Procs : Good(proc[p])

\* The inductive invariant
Bookkeeping ==
  /\ Shaped
  /\ ProcsGood
  /\ JobFits
  /\ NamesKnown
  /\ CallsFit

---------------------------------------------------------------------------
(* Address arithmetic.                                                     *)

LEMMA Powers ==
  /\ 2 ^ Page1BitNum \in Nat \ {0} /\ 2 ^ Page2BitNum \in Nat \ {0} /\ PageSize \in Nat \ {0}
  /\ PagesNum \in Nat \ {0} /\ 2 ^ WordBits \in Nat \ {0}
  /\ PagesNum = 2 ^ Page1BitNum * 2 ^ Page2BitNum
  /\ PagesNum * PageSize <= 2 ^ WordBits
<1> DEFINE a == 2 ^ Page1BitNum
           b == 2 ^ Page2BitNum
<1>1. a \in Nat \ {0} /\ b \in Nat \ {0} /\ PageSize \in Nat \ {0} /\ 2 ^ WordBits \in Nat \ {0}
      /\ PagesNum = a * b /\ PagesNum * PageSize <= 2 ^ WordBits
  BY PowersAssumption
<1> HIDE DEF a, b
<1>2. a * b \in Nat \ {0}
  BY <1>1
<1> QED BY <1>1, <1>2 DEF a, b

\* Division by a positive number
LEMMA Quotient ==
  ASSUME NEW n \in Nat, NEW b \in Nat \ {0}
  PROVE  n \div b \in Nat /\ n % b \in 0 .. b - 1 /\ n = (n \div b) * b + (n % b)
OBVIOUS

LEMMA QuotientOf ==
  ASSUME NEW b \in Nat \ {0}, NEW q \in Nat, NEW r \in 0 .. b - 1
  PROVE  (q * b + r) \div b = q /\ (q * b + r) % b = r
OBVIOUS

LEMMA Cancelled ==
  ASSUME NEW b \in Nat \ {0}, NEW x \in Int, NEW y \in Int, NEW r \in 0 .. b - 1
  PROVE  /\ x * b <= y * b => x <= y
         /\ x * b + r < y * b => x < y
         /\ x < y => x * b + r < y * b
OBVIOUS

LEMMA InOneWord ==
  ASSUME NEW n \in Nat, n < 2 ^ WordBits
  PROVE  Word(n) = n
<1> DEFINE w == 2 ^ WordBits
<1>1. w \in Nat \ {0}
  BY Powers
<1> HIDE DEF w
<1>2. n < w => n % w = n
  BY <1>1
<1> QED BY <1>2 DEF w, Word

\* virtualAddressFromPage and pageFromVA are each other's inverse.
LEMMA AddressOfPage ==
  ASSUME NEW s \in PageIds
  PROVE  /\ virtualAddressFromPage(s) = s * PageSize /\ s * PageSize \in Nat
         /\ pageFromVA(s * PageSize) = s
         /\ isVirtualAddressAligned(s * PageSize)
         /\ checkVirtualAddressBounds(s * PageSize)
<1>1. s \in Nat /\ s < PagesNum
  BY Powers DEF PageIds
<1>2. s * PageSize \in Nat /\ s * PageSize < PagesNum * PageSize
  BY <1>1, Powers
<1>3. Word(s * PageSize) = s * PageSize
  <2>1. s * PageSize < 2 ^ WordBits
    <3> DEFINE w == 2 ^ WordBits
               m == PagesNum * PageSize
    <3>1. w \in Nat /\ m \in Nat /\ m <= w
      BY Powers
    <3> HIDE DEF w, m
    <3>2. s * PageSize < m => s * PageSize < w
      BY <1>2, <3>1
    <3> QED BY <1>2, <3>2 DEF w, m
  <2> QED BY <1>2, <2>1, InOneWord
<1>4. (s * PageSize) \div PageSize = s /\ (s * PageSize) % PageSize = 0
  <2>1. 0 \in 0 .. PageSize - 1 /\ s * PageSize + 0 = s * PageSize
    BY <1>2, Powers
  <2> QED BY <1>1, <2>1, Powers, QuotientOf
<1>5. s * PageSize <= PagesNum * PageSize - 1
  <2>1. PagesNum * PageSize \in Nat
    BY Powers
  <2> QED BY <1>2, <2>1
<1> QED
  BY <1>2, <1>3, <1>4, <1>5
  DEF virtualAddressFromPage, pageFromVA, isVirtualAddressAligned, checkVirtualAddressBounds,
      MaxVirtualAddress

\* The segments that segmentFits admits lie in the address space.
LEMMA FittingSegment ==
  ASSUME NEW address, NEW size, InWord(address, size), segmentFits(address, size)
  PROVE  /\ pageFromVA(address) \in PageIds
         /\ pageFromVA(address) + size <= PagesNum
         /\ address = pageFromVA(address) * PageSize
         /\ size \in Nat \ {0}
<1> DEFINE s == pageFromVA(address)
           n == address + size * PageSize - 1
<1>1. address \in Nat /\ size \in Nat \ {0} /\ address + size * PageSize <= 2 ^ WordBits
  BY DEF InWord
<1>2. s \in Nat /\ address = s * PageSize
  <2>1. address % PageSize = 0
    BY DEF segmentFits, isVirtualAddressAligned
  <2>2. s \in Nat /\ address = s * PageSize + (address % PageSize)
    BY <1>1, Powers, Quotient DEF pageFromVA
  <2>3. s * PageSize \in Nat
    BY <2>2, Powers
  <2> QED BY <2>1, <2>2, <2>3
<1>3. size * PageSize \in Nat /\ size * PageSize > 0 /\ s * PageSize \in Nat
  BY <1>1, <1>2, Powers
<1>4. n \in Nat /\ n < 2 ^ WordBits
  BY <1>1, <1>3, Powers
<1>5. n <= PagesNum * PageSize - 1
  BY <1>4, InOneWord DEF segmentFits, MaxVirtualAddress
<1>6. PagesNum * PageSize \in Nat /\ (s + size) * PageSize = s * PageSize + size * PageSize
  BY <1>1, <1>2, Powers
<1>7. (s + size) * PageSize <= PagesNum * PageSize
  BY <1>1, <1>2, <1>3, <1>5, <1>6
<1>8. s + size <= PagesNum
  <2>1. 0 \in 0 .. PageSize - 1
    BY Powers
  <2> QED BY <1>1, <1>2, <1>7, <2>1, Powers, Cancelled
<1>9. s \in PageIds
  BY <1>1, <1>2, <1>8, Powers DEF PageIds
<1> QED BY <1>1, <1>2, <1>8, <1>9

\* The table of a page
LEMMA TableOfPage ==
  ASSUME NEW i \in PageIds
  PROVE  page1FromPage(i) = i \div 2 ^ Page2BitNum /\ page1FromPage(i) \in TableIds
<1> DEFINE a == 2 ^ Page1BitNum
           b == 2 ^ Page2BitNum
           q == i \div b
<1>1. a \in Nat \ {0} /\ b \in Nat \ {0} /\ PagesNum = a * b /\ i \in Nat /\ i < PagesNum
      /\ PagesNum \in Nat
  BY Powers DEF PageIds
<1>2. q \in Nat /\ i % b \in 0 .. b - 1 /\ i = q * b + (i % b)
  <2> HIDE DEF b
  <2> QED BY <1>1, Quotient
<1> HIDE DEF a, b, q
<1>3. q < a
  <2>1. q * b + (i % b) < a * b
    BY <1>1, <1>2
  <2> QED BY <1>1, <1>2, <2>1, Cancelled
<1>4. q % a = q /\ q \in 0 .. a - 1
  BY <1>1, <1>2, <1>3
<1> QED BY <1>4 DEF page1FromPage, TableIds, a, b, q

LEMMA FinitePages ==
  /\ IsFiniteSet(PageIds) /\ IsFiniteSet(TableIds)
  /\ \A S \in SUBSET PageIds : IsFiniteSet(S) /\ Cardinality(S) \in Nat
  /\ \A S \in SUBSET TableIds : IsFiniteSet(S) /\ Cardinality(S) \in Nat
<1>1. IsFiniteSet(PageIds) /\ IsFiniteSet(TableIds)
  <2>1. PagesNum - 1 \in Int /\ 2 ^ Page1BitNum - 1 \in Int
    BY Powers
  <2> QED BY <2>1, FS_Interval DEF PageIds, TableIds
<1> QED BY <1>1, FS_Subset, FS_CardinalityType

---------------------------------------------------------------------------
(* The maps of a process.                                                  *)

LEMMA PartialIs ==
  ASSUME NEW X, NEW Y, NEW f
  PROVE  f \in Partial(X, Y) <=>
           /\ f = [x \in DOMAIN f |-> f[x]]
           /\ DOMAIN f \subseteq X
           /\ \A x \in DOMAIN f : f[x] \in Y
<1>1. ASSUME f \in Partial(X, Y)
      PROVE  f = [x \in DOMAIN f |-> f[x]] /\ DOMAIN f \subseteq X /\ \A x \in DOMAIN f : f[x] \in Y
  <2>1. PICK S \in SUBSET X : f \in [S -> Y]
    BY <1>1 DEF Partial
  <2> QED BY <2>1
<1>2. ASSUME f = [x \in DOMAIN f |-> f[x]], DOMAIN f \subseteq X, \A x \in DOMAIN f : f[x] \in Y
      PROVE  f \in Partial(X, Y)
  <2>1. f \in [DOMAIN f -> Y] /\ DOMAIN f \in SUBSET X
    BY <1>2
  <2> QED BY <2>1 DEF Partial
<1> QED BY <1>1, <1>2

LEMMA PartialMaps ==
  ASSUME NEW X, NEW Y, NEW f \in Partial(X, Y)
  PROVE  /\ \A x : Without(f, x) \in Partial(X, Y)
         /\ \A x \in X, y \in Y : With(f, x, y) \in Partial(X, Y)
         /\ \A x \in X, y \in Y : Emplace(f, x, y) \in Partial(X, Y)
<1>1. DOMAIN f \subseteq X /\ \A z \in DOMAIN f : f[z] \in Y
  BY PartialIs
<1>2. ASSUME NEW x
      PROVE  Without(f, x) \in Partial(X, Y)
  <2>1. Without(f, x) \in [DOMAIN f \ {x} -> Y] /\ DOMAIN f \ {x} \in SUBSET X
    BY <1>1 DEF Without, Restrict
  <2> QED BY <2>1 DEF Partial
<1>3. ASSUME NEW x \in X, NEW y \in Y
      PROVE  With(f, x, y) \in Partial(X, Y)
  <2>1. With(f, x, y) \in [DOMAIN f \cup {x} -> Y] /\ DOMAIN f \cup {x} \in SUBSET X
    BY <1>1 DEF With
  <2> QED BY <2>1 DEF Partial
<1> QED BY <1>2, <1>3 DEF Emplace

LEMMA EmptyMapIs ==
  ASSUME NEW X, NEW Y
  PROVE  EmptyMap \in Partial(X, Y) /\ DOMAIN EmptyMap = {}
<1>1. EmptyMap \in [{} -> Y] /\ {} \in SUBSET X
  BY DEF EmptyMap
<1> QED BY <1>1 DEF Partial, EmptyMap

---------------------------------------------------------------------------
(* What the operations on a process make of its bookkeeping.               *)

LEMMA Spans ==
  ASSUME NEW s \in PageIds, NEW size \in Nat \ {0}
  PROVE  /\ s \in SpanOf(s, size)
         /\ s + size <= PagesNum => SpanOf(s, size) \subseteq PageIds
BY Powers DEF SpanOf, PageIds

\* Only the segments, the allocated pages and the tables matter to Good.
LEMMA SameBookkeeping ==
  ASSUME NEW pr, Good(pr), NEW new, new.segments = pr.segments, new.allocated = pr.allocated,
         new.pmt1 = pr.pmt1
  PROVE  Good(new)
BY DEF Good, Inside, Owned, Counted, Span, Used

\* Its segments lie in the address space and are of pages that are allocated.
LEMMA SegmentOf ==
  ASSUME NEW pr \in Process, Good(pr), NEW s \in DOMAIN pr.segments
  PROVE  /\ s \in PageIds /\ pr.segments[s] \in Segment
         /\ pr.segments[s].numPages \in Nat \ {0}
         /\ s + pr.segments[s].numPages <= PagesNum
         /\ s \in Span(pr, s) /\ Span(pr, s) \subseteq pr.allocated
         /\ Span(pr, s) \subseteq PageIds
<1>1. pr.segments \in Partial(PageIds, Segment)
  BY DEF Process
<1>2. s \in PageIds /\ pr.segments[s] \in Segment
  BY <1>1, PartialIs
<1>3. pr.segments[s].numPages \in Nat \ {0}
  BY <1>2 DEF Segment
<1>4. s + pr.segments[s].numPages <= PagesNum
  BY DEF Good, Inside
<1>5. s \in Span(pr, s) /\ Span(pr, s) \subseteq PageIds
  BY <1>2, <1>3, <1>4, Spans DEF Span
<1>6. Span(pr, s) \subseteq pr.allocated
  BY DEF Good, Owned
<1> QED BY <1>2, <1>3, <1>4, <1>5, <1>6

\* A segment laid over pages that are free
LEMMA AllocatedGood ==
  ASSUME NEW pr \in Process, Good(pr), NEW start \in PageIds, NEW segment \in Segment,
         start + segment.numPages <= PagesNum,
         SpanOf(start, segment.numPages) \cap pr.allocated = {}
  PROVE  LET new == Allocated(pr, start, segment)
         IN  /\ new \in Process /\ Good(new)
             /\ start \notin DOMAIN pr.segments
             /\ new.segments = With(pr.segments, start, segment)
             /\ new.sharedSegmentVirtualAddressMap = pr.sharedSegmentVirtualAddressMap
             /\ new.virtualAddressSharedSegmentMap = pr.virtualAddressSharedSegmentMap
             /\ new.pmt1 = [t \in TableIds |->
                              IF SpanOf(start, segment.numPages) \cap pagesOfTable(t) = {}
                              THEN pr.pmt1[t]
                              ELSE [pmt2Valid |-> TRUE, numValidPMT2Entries |-> Used(new, t)]]
<1> DEFINE new == Allocated(pr, start, segment)
           span == SpanOf(start, segment.numPages)
           entries(t) == Cardinality(span \cap pagesOfTable(t))
<1>1. /\ pr.segments \in Partial(PageIds, Segment) /\ pr.allocated \in SUBSET PageIds
      /\ segment.numPages \in Nat \ {0}
  BY DEF Process, Segment
<1>2. start \in span /\ span \subseteq PageIds
  BY <1>1, Spans
<1>3. start \notin DOMAIN pr.segments
  BY <1>2, SegmentOf
<1>4. /\ new.segments = With(pr.segments, start, segment)
      /\ new.allocated = pr.allocated \cup span
      /\ new.pmt1 = [t \in TableIds |->
                       IF entries(t) = 0 THEN pr.pmt1[t]
                       ELSE [pmt2Valid |-> TRUE,
                             numValidPMT2Entries |-> entries(t) +
                               IF pr.pmt1[t].pmt2Valid THEN pr.pmt1[t].numValidPMT2Entries ELSE 0]]
      /\ new.sharedSegmentVirtualAddressMap = pr.sharedSegmentVirtualAddressMap
      /\ new.virtualAddressSharedSegmentMap = pr.virtualAddressSharedSegmentMap
      /\ new = [segments |-> new.segments, allocated |-> new.allocated, pmt1 |-> new.pmt1,
                sharedSegmentVirtualAddressMap |-> new.sharedSegmentVirtualAddressMap,
                virtualAddressSharedSegmentMap |-> new.virtualAddressSharedSegmentMap]
  <2>1. pr = [segments |-> pr.segments, allocated |-> pr.allocated, pmt1 |-> pr.pmt1,
              sharedSegmentVirtualAddressMap |-> pr.sharedSegmentVirtualAddressMap,
              virtualAddressSharedSegmentMap |-> pr.virtualAddressSharedSegmentMap]
    BY DEF Process
  <2> DEFINE a == With(pr.segments, start, segment)
             b == pr.allocated \cup span
             c == [t \in TableIds |->
                       IF entries(t) = 0 THEN pr.pmt1[t]
                       ELSE [pmt2Valid |-> TRUE,
                             numValidPMT2Entries |-> entries(t) +
                               IF pr.pmt1[t].pmt2Valid THEN pr.pmt1[t].numValidPMT2Entries ELSE 0]]
  <2>2. new = [pr EXCEPT !.segments = a, !.allocated = b, !.pmt1 = c]
    BY DEF Allocated
  <2> HIDE DEF a, b, c, new
  <2>3. new = [segments |-> a, allocated |-> b, pmt1 |-> c,
               sharedSegmentVirtualAddressMap |-> pr.sharedSegmentVirtualAddressMap,
               virtualAddressSharedSegmentMap |-> pr.virtualAddressSharedSegmentMap]
    BY <2>1, <2>2
  <2> QED BY <2>3 DEF a, b, c
<1> HIDE DEF new, span
<1>5. ASSUME NEW t \in TableIds
      PROVE  /\ entries(t) \in Nat /\ Used(pr, t) \in Nat /\ Used(new, t) = Used(pr, t) + entries(t)
             /\ entries(t) = 0 <=> span \cap pagesOfTable(t) = {}
             /\ pr.pmt1[t] = [pmt2Valid |-> Used(pr, t) # 0, numValidPMT2Entries |-> Used(pr, t)]
  <2> DEFINE A == pr.allocated \cap pagesOfTable(t)
             S == span \cap pagesOfTable(t)
  <2>1. IsFiniteSet(A) /\ IsFiniteSet(S) /\ Cardinality(A) \in Nat /\ Cardinality(S) \in Nat
    BY <1>1, <1>2, FinitePages
  <2>2. A \cap S = {}
    BY DEF span
  <2>3. new.allocated \cap pagesOfTable(t) = A \cup S
    BY <1>4
  <2>4. Cardinality(S) = 0 <=> S = {}
    BY <2>1, FS_EmptySet
  <2> HIDE DEF A, S
  <2>5. Cardinality(A \cup S) = Cardinality(A) + Cardinality(S)
    BY <2>1, <2>2, FS_Union, FS_EmptySet
  <2> QED BY <2>1, <2>3, <2>4, <2>5 DEF A, S, Used, Good, Counted
<1>6. ASSUME NEW t \in TableIds
      PROVE  /\ new.pmt1[t] = [pmt2Valid |-> Used(new, t) # 0, numValidPMT2Entries |-> Used(new, t)]
             /\ new.pmt1[t] = IF span \cap pagesOfTable(t) = {} THEN pr.pmt1[t]
                              ELSE [pmt2Valid |-> TRUE, numValidPMT2Entries |-> Used(new, t)]
  <2> DEFINE n == entries(t)
             u == Used(pr, t)
  <2>1. n \in Nat /\ u \in Nat /\ Used(new, t) = u + n
        /\ pr.pmt1[t] = [pmt2Valid |-> u # 0, numValidPMT2Entries |-> u]
        /\ (n = 0 <=> span \cap pagesOfTable(t) = {})
    BY <1>5
  <2>2. new.pmt1[t] = IF n = 0 THEN pr.pmt1[t]
                      ELSE [pmt2Valid |-> TRUE,
                            numValidPMT2Entries |-> n +
                              IF pr.pmt1[t].pmt2Valid THEN pr.pmt1[t].numValidPMT2Entries ELSE 0]
    BY <1>4
  <2> HIDE DEF n, u
  <2>3. CASE n = 0
    <3>1. Used(new, t) = u /\ span \cap pagesOfTable(t) = {} /\ new.pmt1[t] = pr.pmt1[t]
      BY <2>1, <2>2, <2>3
    <3> QED BY <2>1, <3>1
  <2>4. CASE n # 0
    <3>1. (IF pr.pmt1[t].pmt2Valid THEN pr.pmt1[t].numValidPMT2Entries ELSE 0) = u
      <4>1. pr.pmt1[t].pmt2Valid = (u # 0) /\ pr.pmt1[t].numValidPMT2Entries = u
        BY <2>1
      <4> QED BY <2>1, <4>1
    <3>2. new.pmt1[t] = [pmt2Valid |-> TRUE, numValidPMT2Entries |-> n + u]
      BY <2>2, <2>4, <3>1
    <3>3. n + u = Used(new, t) /\ (Used(new, t) # 0) = TRUE
      BY <2>1, <2>4
    <3> QED BY <2>1, <2>4, <3>2, <3>3
  <2> QED BY <2>3, <2>4
<1>7. new \in Process
  <2>1. new.segments \in Partial(PageIds, Segment) /\ new.allocated \in SUBSET PageIds
    <3> DEFINE f == pr.segments
    <3>1. f \in Partial(PageIds, Segment)
      BY <1>1
    <3> HIDE DEF f
    <3>2. With(f, start, segment) \in Partial(PageIds, Segment)
      BY <3>1, PartialMaps
    <3> QED BY <1>1, <1>2, <1>4, <3>2 DEF f
  <2>2. ASSUME NEW t \in TableIds
        PROVE  new.pmt1[t] \in [pmt2Valid : BOOLEAN, numValidPMT2Entries : Nat]
    <3>1. Used(new, t) \in Nat
      <4> DEFINE n == entries(t)
      <4>1. n \in Nat /\ Used(pr, t) \in Nat /\ Used(new, t) = Used(pr, t) + n
        BY <1>5
      <4> HIDE DEF n
      <4> QED BY <4>1
    <3>2. new.pmt1[t] = [pmt2Valid |-> Used(new, t) # 0, numValidPMT2Entries |-> Used(new, t)]
      BY <1>6
    <3> QED BY <3>1, <3>2
  <2>3. new.pmt1 \in [TableIds -> [pmt2Valid : BOOLEAN, numValidPMT2Entries : Nat]]
    BY <1>4, <2>2
  <2> QED BY <1>4, <2>1, <2>3 DEF Process
<1>8. Inside(new) /\ Owned(new)
  <2>1. /\ DOMAIN new.segments = DOMAIN pr.segments \cup {start}
        /\ new.segments[start] = segment
        /\ \A s \in DOMAIN pr.segments : new.segments[s] = pr.segments[s]
    <3>1. \A s \in DOMAIN pr.segments : s # start
      BY <1>3
    <3> QED BY <1>4, <3>1 DEF With
  <2>2. Span(new, start) = span /\ \A s \in DOMAIN pr.segments : Span(new, s) = Span(pr, s)
    BY <2>1 DEF Span, span
  <2>3. Inside(new)
    BY <2>1 DEF Good, Inside
  <2>4. \A s \in DOMAIN pr.segments : Span(pr, s) \subseteq pr.allocated
    BY SegmentOf
  <2>5. \A s, t \in DOMAIN new.segments : s # t => Span(new, s) \cap Span(new, t) = {}
    <3>1. span \cap pr.allocated = {}
      BY DEF span
    <3> QED BY <2>1, <2>2, <2>4, <3>1 DEF Good, Owned
  <2>6. new.allocated = UNION {Span(new, s) : s \in DOMAIN new.segments}
    <3>1. pr.allocated = UNION {Span(pr, s) : s \in DOMAIN pr.segments}
      BY DEF Good, Owned
    <3>2. \A x : x \in new.allocated <=> \E s \in DOMAIN new.segments : x \in Span(new, s)
      BY <1>4, <2>1, <2>2, <3>1
    <3> QED BY <3>2
  <2> QED BY <2>3, <2>5, <2>6 DEF Owned
<1>9. Good(new)
  BY <1>6, <1>8 DEF Good, Counted
<1>10. new.pmt1 = [t \in TableIds |->
                     IF span \cap pagesOfTable(t) = {} THEN pr.pmt1[t]
                     ELSE [pmt2Valid |-> TRUE, numValidPMT2Entries |-> Used(new, t)]]
  BY <1>4, <1>6
<1> QED BY <1>3, <1>4, <1>7, <1>9, <1>10 DEF new, span

LEMMA DeletedGood ==
  ASSUME NEW pr \in Process, Good(pr), NEW start \in DOMAIN pr.segments
  PROVE  LET new == Deleted(pr, start)
         IN  /\ new \in Process /\ Good(new)
             /\ new.segments = Without(pr.segments, start)
             /\ new.allocated \subseteq pr.allocated
             /\ new.sharedSegmentVirtualAddressMap = pr.sharedSegmentVirtualAddressMap
             /\ new.virtualAddressSharedSegmentMap = pr.virtualAddressSharedSegmentMap
<1> DEFINE new == Deleted(pr, start)
           span == SpanOf(start, pr.segments[start].numPages)
           entries(t) == Cardinality(span \cap pagesOfTable(t))
           left(t) == pr.pmt1[t].numValidPMT2Entries - entries(t)
<1>1. /\ pr.segments \in Partial(PageIds, Segment) /\ pr.allocated \in SUBSET PageIds
      /\ pr.pmt1 \in [TableIds -> [pmt2Valid : BOOLEAN, numValidPMT2Entries : Nat]]
  BY DEF Process
<1>2. span \subseteq pr.allocated /\ span = Span(pr, start) /\ start \in span
  BY SegmentOf DEF Span
<1>3. /\ new.segments = Without(pr.segments, start)
      /\ new.allocated = pr.allocated \ span
      /\ new.pmt1 = [t \in TableIds |->
                       IF entries(t) = 0 THEN pr.pmt1[t]
                       ELSE [pmt2Valid |-> left(t) # 0, numValidPMT2Entries |-> left(t)]]
      /\ new.sharedSegmentVirtualAddressMap = pr.sharedSegmentVirtualAddressMap
      /\ new.virtualAddressSharedSegmentMap = pr.virtualAddressSharedSegmentMap
      /\ new = [segments |-> new.segments, allocated |-> new.allocated, pmt1 |-> new.pmt1,
                sharedSegmentVirtualAddressMap |-> new.sharedSegmentVirtualAddressMap,
                virtualAddressSharedSegmentMap |-> new.virtualAddressSharedSegmentMap]
  <2>1. pr = [segments |-> pr.segments, allocated |-> pr.allocated, pmt1 |-> pr.pmt1,
              sharedSegmentVirtualAddressMap |-> pr.sharedSegmentVirtualAddressMap,
              virtualAddressSharedSegmentMap |-> pr.virtualAddressSharedSegmentMap]
    BY DEF Process
  <2> DEFINE a == Without(pr.segments, start)
             b == pr.allocated \ span
             c == [t \in TableIds |->
                       IF entries(t) = 0 THEN pr.pmt1[t]
                       ELSE [pmt2Valid |-> left(t) # 0, numValidPMT2Entries |-> left(t)]]
  <2>2. new = [pr EXCEPT !.segments = a, !.allocated = b, !.pmt1 = c]
    BY DEF Deleted
  <2> HIDE DEF a, b, c, new
  <2>3. new = [segments |-> a, allocated |-> b, pmt1 |-> c,
               sharedSegmentVirtualAddressMap |-> pr.sharedSegmentVirtualAddressMap,
               virtualAddressSharedSegmentMap |-> pr.virtualAddressSharedSegmentMap]
    BY <2>1, <2>2
  <2> QED BY <2>3 DEF a, b, c
<1> HIDE DEF new, span
<1>4. ASSUME NEW t \in TableIds
      PROVE  /\ Used(new, t) \in Nat
             /\ new.pmt1[t] = [pmt2Valid |-> Used(new, t) # 0, numValidPMT2Entries |-> Used(new, t)]
  <2> DEFINE A == pr.allocated \cap pagesOfTable(t)
             S == span \cap pagesOfTable(t)
             n == entries(t)
             u == Used(pr, t)
             w == Used(new, t)
  <2>1. IsFiniteSet(A) /\ IsFiniteSet(S) /\ Cardinality(A) \in Nat /\ Cardinality(S) \in Nat
    BY <1>1, <1>2, FinitePages
  <2>2. A \cap S = S
    BY <1>2
  <2>3. new.allocated \cap pagesOfTable(t) = A \ S
    BY <1>3
  <2>4. Cardinality(A \ S) = Cardinality(A) - Cardinality(S) /\ Cardinality(A \ S) \in Nat
    <3> HIDE DEF A, S
    <3> QED BY <2>1, <2>2, FS_Difference, FS_CardinalityType
  <2>5. n \in Nat /\ u \in Nat /\ w \in Nat /\ w = u - n
    <3>1. n = Cardinality(S) /\ u = Cardinality(A) /\ w = Cardinality(A \ S)
      BY <2>3 DEF Used
    <3> HIDE DEF n, u, w, A, S
    <3> QED BY <2>1, <2>4, <3>1
  <2>6. pr.pmt1[t] = [pmt2Valid |-> u # 0, numValidPMT2Entries |-> u]
    BY DEF Good, Counted
  <2>7. new.pmt1[t] = IF n = 0 THEN pr.pmt1[t]
                      ELSE [pmt2Valid |-> pr.pmt1[t].numValidPMT2Entries - n # 0,
                            numValidPMT2Entries |-> pr.pmt1[t].numValidPMT2Entries - n]
    BY <1>3
  <2> HIDE DEF n, u, w, A, S
  <2>8. pr.pmt1[t].numValidPMT2Entries = u
    BY <2>6
  <2>9. CASE n = 0
    <3>1. w = u /\ new.pmt1[t] = pr.pmt1[t]
      BY <2>5, <2>7, <2>9
    <3> QED BY <2>5, <2>6, <3>1 DEF w
  <2>10. CASE n # 0
    BY <2>5, <2>7, <2>8, <2>10 DEF w
  <2> QED BY <2>9, <2>10
<1>5. new \in Process
  <2>1. new.segments \in Partial(PageIds, Segment) /\ new.allocated \in SUBSET PageIds
    <3> DEFINE f == pr.segments
    <3>1. f \in Partial(PageIds, Segment)
      BY <1>1
    <3> HIDE DEF f
    <3>2. Without(f, start) \in Partial(PageIds, Segment)
      BY <3>1, PartialMaps
    <3> QED BY <1>1, <1>2, <1>3, <3>2 DEF f
  <2>2. new.pmt1 \in [TableIds -> [pmt2Valid : BOOLEAN, numValidPMT2Entries : Nat]]
    <3>1. ASSUME NEW t \in TableIds
          PROVE  new.pmt1[t] \in [pmt2Valid : BOOLEAN, numValidPMT2Entries : Nat]
      <4>1. Used(new, t) \in Nat
        BY <1>4
      <4>2. new.pmt1[t] = [pmt2Valid |-> Used(new, t) # 0, numValidPMT2Entries |-> Used(new, t)]
        BY <1>4
      <4> QED BY <4>1, <4>2
    <3> QED BY <1>3, <3>1
  <2> QED BY <1>3, <2>1, <2>2 DEF Process
<1>6. Inside(new) /\ Owned(new)
  <2>1. /\ DOMAIN new.segments = DOMAIN pr.segments \ {start}
        /\ \A s \in DOMAIN pr.segments \ {start} : new.segments[s] = pr.segments[s]
    BY <1>3 DEF Without, Restrict
  <2>2. \A s \in DOMAIN new.segments : Span(new, s) = Span(pr, s)
    BY <2>1 DEF Span
  <2>3. Inside(new)
    BY <2>1 DEF Good, Inside
  <2>4. \A s, t \in DOMAIN new.segments : s # t => Span(new, s) \cap Span(new, t) = {}
    BY <2>1, <2>2 DEF Good, Owned
  <2>5. new.allocated = UNION {Span(new, s) : s \in DOMAIN new.segments}
    <3>1. pr.allocated = UNION {Span(pr, s) : s \in DOMAIN pr.segments}
      BY DEF Good, Owned
    <3>2. \A s \in DOMAIN pr.segments \ {start} : Span(pr, s) \cap span = {}
      BY <1>2 DEF Good, Owned
    <3>3. \A x : x \in new.allocated <=> \E s \in DOMAIN new.segments : x \in Span(new, s)
      BY <1>2, <1>3, <2>1, <2>2, <3>1, <3>2
    <3> QED BY <3>3
  <2> QED BY <2>3, <2>4, <2>5 DEF Owned
<1>7. Good(new)
  BY <1>4, <1>6 DEF Good, Counted
<1> QED BY <1>3, <1>5, <1>7 DEF new


\* The private segments of a process stay as they are.
Stay(pr, new, S) ==
  \A s \in S : s \in DOMAIN new.segments /\ new.segments[s] = pr.segments[s]

LEMMA ProcessIs ==
  ASSUME NEW pr \in Process
  PROVE  /\ pr = [segments |-> pr.segments, allocated |-> pr.allocated, pmt1 |-> pr.pmt1,
                  sharedSegmentVirtualAddressMap |-> pr.sharedSegmentVirtualAddressMap,
                  virtualAddressSharedSegmentMap |-> pr.virtualAddressSharedSegmentMap]
         /\ pr.segments \in Partial(PageIds, Segment)
         /\ pr.allocated \in SUBSET PageIds
         /\ pr.pmt1 \in [TableIds -> [pmt2Valid : BOOLEAN, numValidPMT2Entries : Nat]]
         /\ pr.sharedSegmentVirtualAddressMap \in Partial(Names, Nat)
         /\ pr.virtualAddressSharedSegmentMap \in Partial(Nat, Names \cup {NoName})
BY DEF Process

\* Writing the two maps of names leaves the bookkeeping alone.
Renamed(pr, f, g) ==
  [segments |-> pr.segments, allocated |-> pr.allocated, pmt1 |-> pr.pmt1,
   sharedSegmentVirtualAddressMap |-> f, virtualAddressSharedSegmentMap |-> g]

LEMMA RenamedGood ==
  ASSUME NEW pr \in Process, Good(pr), NEW f \in Partial(Names, Nat),
         NEW g \in Partial(Nat, Names \cup {NoName})
  PROVE  LET new == Renamed(pr, f, g)
         IN  /\ new \in Process /\ Good(new)
             /\ new.segments = pr.segments /\ new.pmt1 = pr.pmt1 /\ new.allocated = pr.allocated
             /\ new.sharedSegmentVirtualAddressMap = f /\ new.virtualAddressSharedSegmentMap = g
<1> DEFINE new == Renamed(pr, f, g)
<1>1. new = [segments |-> pr.segments, allocated |-> pr.allocated, pmt1 |-> pr.pmt1,
             sharedSegmentVirtualAddressMap |-> f, virtualAddressSharedSegmentMap |-> g]
  BY DEF Renamed
<1> HIDE DEF new
<1>2. new \in Process
  BY <1>1, ProcessIs DEF Process
<1>3. /\ new.segments = pr.segments /\ new.pmt1 = pr.pmt1 /\ new.allocated = pr.allocated
      /\ new.sharedSegmentVirtualAddressMap = f /\ new.virtualAddressSharedSegmentMap = g
  BY <1>1
<1>4. Good(new)
  BY <1>3, SameBookkeeping
<1> QED BY <1>2, <1>3, <1>4 DEF new

LEMMA StartsAre ==
  ASSUME NEW address, NEW start \in Starts(address)
  PROVE  start = pageFromVA(address) /\ Starts(address) = {start}
BY DEF Starts

LEMMA PrivateDeletedGood ==
  ASSUME NEW pr \in Process, Good(pr), NEW address
  PROVE  LET new == deleteSegmentPrivate(pr, address)
         IN  /\ new \in Process /\ Good(new)
             /\ Stay(pr, new, DOMAIN pr.segments \ Starts(address))
             /\ new.allocated \subseteq pr.allocated
             /\ new.sharedSegmentVirtualAddressMap = pr.sharedSegmentVirtualAddressMap
             /\ new.virtualAddressSharedSegmentMap = pr.virtualAddressSharedSegmentMap
<1> DEFINE new == deleteSegmentPrivate(pr, address)
           start == pageFromVA(address)
<1>1. CASE PrivateAt(pr, address) = {}
  <2>1. new = pr
    BY <1>1 DEF deleteSegmentPrivate
  <2> QED BY <2>1 DEF Stay
<1>2. CASE PrivateAt(pr, address) # {}
  <2>1. start \in DOMAIN pr.segments /\ start \in Starts(address) /\ new = Deleted(pr, start)
    BY <1>2 DEF deleteSegmentPrivate, PrivateAt, PrivateStarts, Starts
  <2> HIDE DEF new, start
  <2>2. /\ new \in Process /\ Good(new)
        /\ new.segments = Without(pr.segments, start)
        /\ new.allocated \subseteq pr.allocated
        /\ new.sharedSegmentVirtualAddressMap = pr.sharedSegmentVirtualAddressMap
        /\ new.virtualAddressSharedSegmentMap = pr.virtualAddressSharedSegmentMap
    BY <2>1, DeletedGood
  <2>3. \A s \in DOMAIN pr.segments \ {start} :
          s \in DOMAIN new.segments /\ new.segments[s] = pr.segments[s]
    BY <2>2 DEF Without, Restrict
  <2> QED BY <2>1, <2>2, <2>3 DEF Stay, new
<1> QED BY <1>1, <1>2

LEMMA DisconnectedGood ==
  ASSUME NEW pr \in Process, Good(pr), NEW name \in Names
  PROVE  LET new == Disconnected(pr, name)
         IN  /\ new \in Process /\ Good(new)
             /\ Stay(pr, new, PrivateStarts(pr)) /\ PrivateStarts(pr) \subseteq PrivateStarts(new)
             /\ new.allocated \subseteq pr.allocated
             /\ Known(pr.virtualAddressSharedSegmentMap) => Known(new.virtualAddressSharedSegmentMap)
<1> DEFINE new == Disconnected(pr, name)
           f == Emplace(pr.sharedSegmentVirtualAddressMap, name, 0)
           g == pr.virtualAddressSharedSegmentMap
           looked == [pr EXCEPT !.sharedSegmentVirtualAddressMap = f]
           address == looked.sharedSegmentVirtualAddressMap[name]
           start == pageFromVA(address)
<1>1. f \in Partial(Names, Nat) /\ g \in Partial(Nat, Names \cup {NoName})
  <2> DEFINE m == pr.sharedSegmentVirtualAddressMap
  <2>1. m \in Partial(Names, Nat) /\ g \in Partial(Nat, Names \cup {NoName})
    BY ProcessIs
  <2> HIDE DEF m
  <2>2. Emplace(m, name, 0) \in Partial(Names, Nat)
    BY <2>1, PartialMaps
  <2> QED BY <2>1, <2>2 DEF m
<1> HIDE DEF f
<1>2. /\ looked \in Process /\ Good(looked) /\ looked.segments = pr.segments
      /\ looked.allocated = pr.allocated
      /\ looked.virtualAddressSharedSegmentMap = g
  <2>1. pr = [segments |-> pr.segments, allocated |-> pr.allocated, pmt1 |-> pr.pmt1,
              sharedSegmentVirtualAddressMap |-> pr.sharedSegmentVirtualAddressMap,
              virtualAddressSharedSegmentMap |-> pr.virtualAddressSharedSegmentMap]
    BY ProcessIs
  <2>2. looked = Renamed(pr, f, g)
    BY <2>1 DEF Renamed
  <2> HIDE DEF looked, g
  <2> QED BY <1>1, <2>2, RenamedGood
<1>3. CASE SharedAt(pr, address) = {}
  <2>1. new = looked
    BY <1>3 DEF Disconnected, f
  <2> HIDE DEF new, looked
  <2> QED BY <1>2, <2>1 DEF Stay, PrivateStarts, SharedStarts, new
<1>4. CASE SharedAt(pr, address) # {}
  <2> DEFINE del == Deleted(looked, start)
             f2 == Without(del.sharedSegmentVirtualAddressMap, name)
             g2 == Without(del.virtualAddressSharedSegmentMap, address)
  <2>1. new = [del EXCEPT !.virtualAddressSharedSegmentMap = g2,
                          !.sharedSegmentVirtualAddressMap = f2]
    BY <1>4 DEF Disconnected, f
  <2>2. start \in SharedStarts(pr)
    BY <1>4 DEF SharedAt, Starts
  <2>3. start \in DOMAIN looked.segments
    BY <1>2, <2>2 DEF SharedStarts
  <2> HIDE DEF looked, start
  <2>4. /\ del \in Process /\ Good(del) /\ del.segments = Without(pr.segments, start)
        /\ del.allocated \subseteq pr.allocated
        /\ del.virtualAddressSharedSegmentMap = g
    BY <1>2, <2>3, DeletedGood
  <2> HIDE DEF del, address
  <2>5. f2 \in Partial(Names, Nat) /\ g2 \in Partial(Nat, Names \cup {NoName})
    <3> DEFINE m == del.sharedSegmentVirtualAddressMap
               n == del.virtualAddressSharedSegmentMap
    <3>1. m \in Partial(Names, Nat) /\ n \in Partial(Nat, Names \cup {NoName})
      BY <2>4, ProcessIs
    <3> HIDE DEF m, n
    <3>2. Without(m, name) \in Partial(Names, Nat)
          /\ Without(n, address) \in Partial(Nat, Names \cup {NoName})
      BY <3>1, PartialMaps
    <3> QED BY <3>2 DEF m, n
  <2>6. Known(g) => Known(g2)
    BY <2>4 DEF Without, Restrict, Known
  <2> HIDE DEF f2, g2, new
  <2>7. new = Renamed(del, f2, g2)
    <3>1. del = [segments |-> del.segments, allocated |-> del.allocated, pmt1 |-> del.pmt1,
                 sharedSegmentVirtualAddressMap |-> del.sharedSegmentVirtualAddressMap,
                 virtualAddressSharedSegmentMap |-> del.virtualAddressSharedSegmentMap]
      BY <2>4, ProcessIs
    <3> QED BY <2>1, <3>1 DEF Renamed
  <2>8. /\ new \in Process /\ Good(new) /\ new.segments = Without(pr.segments, start)
        /\ new.allocated = del.allocated
        /\ new.virtualAddressSharedSegmentMap = g2
    BY <2>4, <2>5, <2>7, RenamedGood
  <2>9. \A s \in PrivateStarts(pr) : s \in DOMAIN new.segments /\ new.segments[s] = pr.segments[s]
    BY <2>2, <2>8 DEF Without, Restrict, PrivateStarts
  <2>10. PrivateStarts(pr) \subseteq PrivateStarts(new)
    BY <2>9 DEF PrivateStarts, SharedStarts
  <2> QED BY <2>4, <2>6, <2>8, <2>9, <2>10 DEF Stay, new
<1> QED BY <1>3, <1>4


\* The erases at the end of a failed createSharedSegment write the two maps.
LEMMA ErasedGood ==
  ASSUME NEW pr \in Process, Good(pr), NEW address, NEW name
  PROVE  LET new == Erased(pr, address, name)
         IN  /\ new \in Process /\ Good(new)
             /\ new.segments = pr.segments /\ new.allocated = pr.allocated /\ new.pmt1 = pr.pmt1
             /\ Known(pr.virtualAddressSharedSegmentMap) => Known(new.virtualAddressSharedSegmentMap)
             /\ \E f \in Partial(Names, Nat), g \in Partial(Nat, Names \cup {NoName}) :
                  /\ new = Renamed(pr, f, g)
                  /\ Known(pr.virtualAddressSharedSegmentMap) => Known(g)
<1> DEFINE m == pr.sharedSegmentVirtualAddressMap
           n == pr.virtualAddressSharedSegmentMap
           f == Without(m, name)
           g == Without(n, address)
           new == Erased(pr, address, name)
<1>1. m \in Partial(Names, Nat) /\ n \in Partial(Nat, Names \cup {NoName})
  BY ProcessIs
<1>2. new = [pr EXCEPT !.sharedSegmentVirtualAddressMap = f, !.virtualAddressSharedSegmentMap = g]
  BY DEF Erased
<1>3. Known(n) => Known(g)
  BY DEF Known, Without, Restrict
<1> HIDE DEF m, n, new
<1>4. f \in Partial(Names, Nat) /\ g \in Partial(Nat, Names \cup {NoName})
  BY <1>1, PartialMaps
<1> HIDE DEF f, g
<1>5. new = Renamed(pr, f, g)
  <2>1. pr = [segments |-> pr.segments, allocated |-> pr.allocated, pmt1 |-> pr.pmt1,
              sharedSegmentVirtualAddressMap |-> pr.sharedSegmentVirtualAddressMap,
              virtualAddressSharedSegmentMap |-> pr.virtualAddressSharedSegmentMap]
    BY ProcessIs
  <2> QED BY <1>2, <2>1 DEF Renamed
<1>6. /\ new \in Process /\ Good(new)
      /\ new.segments = pr.segments /\ new.allocated = pr.allocated /\ new.pmt1 = pr.pmt1
      /\ new.virtualAddressSharedSegmentMap = g
  BY <1>4, <1>5, RenamedGood
<1> QED BY <1>3, <1>4, <1>5, <1>6 DEF new, n

Refused(pr, address, name) == Erased(Disconnected(pr, name), address, name)

LEMMA RefusedGood ==
  ASSUME NEW pr \in Process, Good(pr), NEW address, NEW name \in Names
  PROVE  LET new == Refused(pr, address, name)
         IN  /\ new \in Process /\ Good(new) /\ Stay(pr, new, PrivateStarts(pr))
             /\ new.allocated \subseteq pr.allocated
             /\ Known(pr.virtualAddressSharedSegmentMap) => Known(new.virtualAddressSharedSegmentMap)
<1> DEFINE gone == Disconnected(pr, name)
           new == Refused(pr, address, name)
<1>1. /\ gone \in Process /\ Good(gone) /\ Stay(pr, gone, PrivateStarts(pr))
      /\ gone.allocated \subseteq pr.allocated
      /\ Known(pr.virtualAddressSharedSegmentMap) => Known(gone.virtualAddressSharedSegmentMap)
  BY DisconnectedGood
<1>2. new = Erased(gone, address, name)
  BY DEF Refused
<1> HIDE DEF gone, new
<1>3. /\ new \in Process /\ Good(new)
      /\ new.segments = gone.segments /\ new.allocated = gone.allocated
      /\ Known(gone.virtualAddressSharedSegmentMap) => Known(new.virtualAddressSharedSegmentMap)
  BY <1>1, <1>2, ErasedGood
<1>4. Stay(pr, new, PrivateStarts(pr))
  BY <1>1, <1>3 DEF Stay
<1> QED BY <1>1, <1>3, <1>4 DEF new

---------------------------------------------------------------------------
(* The frames that a segment takes.                                        *)

LEMMA ProbesAreNat ==
  ASSUME NEW pr \in Process, NEW s \in Nat, NEW e \in Nat
  PROVE  getNumOfPMT2ToBeAllocated(pr, s, e) \in Nat
<1> DEFINE b == 2 ^ Page2BitNum
           adjusted == IF page2FromPage(e) = 0 THEN e
                       ELSE pageFromPage1AndPage2(page1FromPage(e) + 1, 0)
           taken == {i \in {i \in s .. adjusted - 1 : (i - s) % 2 ^ Page1BitNum = 0} :
                       ~pr.pmt1[page1FromPage(i)].pmt2Valid}
<1>1. adjusted \in Nat
  <2>1. page1FromPage(e) \in Nat
    <3> DEFINE a == 2 ^ Page1BitNum
    <3>1. a \in Nat \ {0} /\ b \in Nat \ {0}
      BY Powers
    <3> HIDE DEF a, b
    <3>2. e \div b \in Nat
      BY <3>1, Quotient
    <3>3. (e \div b) % a \in Nat
      BY <3>1, <3>2, Quotient
    <3> QED BY <3>3 DEF page1FromPage, a, b
  <2> DEFINE q == page1FromPage(e)
  <2>2. b \in Nat
    BY Powers
  <2> HIDE DEF q, b
  <2>3. q \in Nat
    BY <2>1 DEF q
  <2>4. (q + 1) * b + 0 \in Nat
    BY <2>2, <2>3
  <2> QED BY <2>4 DEF q, b, pageFromPage1AndPage2
<1> HIDE DEF adjusted
<1>2. IsFiniteSet(s .. adjusted - 1)
  BY <1>1, FS_Interval
<1>3. taken \in SUBSET (s .. adjusted - 1)
  OBVIOUS
<1> HIDE DEF taken
<1>4. Cardinality(taken) \in Nat
  BY <1>2, <1>3, FS_Subset, FS_CardinalityType
<1> QED BY <1>4 DEF getNumOfPMT2ToBeAllocated, taken, adjusted


---------------------------------------------------------------------------
(* What each action leaves.  An action that commits changes one process,   *)
(* the free frames and, when it touches freed memory, crashed.             *)

ProcsShaped == proc \in [Procs -> Process] /\ freeFrames \in Nat /\ crashed \in BOOLEAN

LEMMA Typing ==
  ASSUME Bookkeeping
  PROVE  /\ \A p \in Procs : life[p] \in Stages /\ proc[p] \in Process /\ Good(proc[p]) /\ call[p] \in SegmentCall
         /\ ProcsShaped /\ ProcsGood
         /\ life \in [Procs -> Stages] /\ call \in [Procs -> SegmentCall]
         /\ segmentsMap \in Partial(Names, [size : Nat \ {0}, owners : SUBSET Procs])
         /\ job \in ProcessJob /\ sizeInFrames \in PMTSizes /\ spoiled \subseteq Procs
         /\ JobFits /\ NamesKnown /\ CallsFit
BY DEF Bookkeeping, Shaped, ProcsShaped, ProcsGood

LEMMA ReturnedIsNat ==
  ASSUME NEW old, NEW new
  PROVE  Returned(old, new) \in Nat
<1>1. {t \in TableIds : old.pmt1[t].pmt2Valid /\ ~new.pmt1[t].pmt2Valid} \in SUBSET TableIds
  OBVIOUS
<1> QED BY <1>1, FinitePages DEF Returned

LEMMA CommitKept ==
  ASSUME Bookkeeping, NEW p \in Procs, NEW new \in Process, Good(new), NEW taken \in 0 .. freeFrames,
         Known(proc[p].virtualAddressSharedSegmentMap) => Known(new.virtualAddressSharedSegmentMap),
         \A q \in Procs : Cleaned(q) => Cleaned(q)',
         Commit(p, new, taken)
  PROVE  ProcsShaped' /\ ProcsGood' /\ NamesKnown'
<1>1. proc \in [Procs -> Process] /\ freeFrames \in Nat /\ crashed \in BOOLEAN
  BY Typing DEF ProcsShaped
<1>2. proc' = [proc EXCEPT ![p] = new] /\ freeFrames' = freeFrames - taken + Returned(proc[p], new)
      /\ crashed' \in BOOLEAN
  BY <1>1 DEF Commit
<1>3. freeFrames' \in Nat
  <2> DEFINE r == Returned(proc[p], new)
  <2>1. r \in Nat
    BY ReturnedIsNat
  <2> HIDE DEF r
  <2> QED BY <1>1, <1>2, <2>1 DEF r
<1>4. proc'[p] = new /\ \A q \in Procs \ {p} : proc'[q] = proc[q]
  BY <1>1, <1>2
<1>5. \A q \in Procs : Good(proc'[q])
  BY <1>4, Typing
<1>6. NamesKnown'
  <2>1. ASSUME NEW q \in Procs
        PROVE  Cleaned(q)' \/ Known(proc'[q].virtualAddressSharedSegmentMap)
    BY <1>4, Typing DEF NamesKnown
  <2> QED BY <2>1 DEF NamesKnown
<1> QED BY <1>1, <1>2, <1>3, <1>5, <1>6 DEF ProcsShaped, ProcsGood


LEMMA JobIs ==
  ASSUME job \in ProcessJob
  PROVE  /\ job.op \in {"none", "clone", "rollback", "destroy"}
         /\ job.op = "none" <=> job = NoJob
         /\ job.op = "clone" => job \in CloneJob /\ job.parent \in Procs /\ job.process \in Procs
                                /\ job.todo \in SUBSET PageIds
         /\ job.op = "rollback" => job \in RollbackJob /\ job.parent \in Procs /\ job.process \in Procs
         /\ job.op = "destroy" => job \in DestroyJob /\ job.process \in Procs
BY DEF ProcessJob, NoJob, CloneJob, RollbackJob, DestroyJob

LEMMA CallIs ==
  ASSUME NEW c \in SegmentCall
  PROVE  /\ c.op \in {"idle", "load", "attach", "disconnect", "refused", "erase"}
         /\ c.op = "idle" <=> c = Idle
         /\ c.op = "load" => c \in LoadCall /\ c.address \in Addresses
         /\ c.op = "attach" => /\ c \in AttachCall /\ c.address \in Nat /\ c.size \in Nat \ {0}
                               /\ c.name \in Names /\ c.dangling \in BOOLEAN
         /\ c.op = "disconnect" => c \in DisconnectCall /\ c.name \in Names
         /\ c.op \in {"refused", "erase"} => /\ c \in RefusedCall
                                            /\ c.address \in Nat /\ c.name \in Names
BY DEF SegmentCall, Idle, LoadCall, AttachCall, DisconnectCall, RefusedCall

\* A segment that allocateEmptySegment admits
LEMMA AdmittedGood ==
  ASSUME NEW pr \in Process, Good(pr), NEW address, NEW size, InWord(address, size),
         allocateEmptySegmentOK(pr, address, size),
         NEW segment \in Segment, segment.numPages = size
  PROVE  LET new == Allocated(pr, pageFromVA(address), segment)
         IN  /\ new \in Process /\ Good(new) /\ Stay(pr, new, DOMAIN pr.segments)
             /\ new.virtualAddressSharedSegmentMap = pr.virtualAddressSharedSegmentMap
             /\ Needed(pr, address, size) \in 0 .. freeFrames
<1> DEFINE start == pageFromVA(address)
           new == Allocated(pr, start, segment)
<1>1. /\ segmentFits(address, size) /\ SpanOf(start, size) \cap pr.allocated = {}
      /\ Needed(pr, address, size) <= freeFrames
  BY DEF allocateEmptySegmentOK
<1>2. start \in PageIds /\ start + size <= PagesNum /\ size \in Nat \ {0}
  BY <1>1, FittingSegment
<1> HIDE DEF start
<1>3. /\ new \in Process /\ Good(new) /\ start \notin DOMAIN pr.segments
      /\ new.segments = With(pr.segments, start, segment)
      /\ new.virtualAddressSharedSegmentMap = pr.virtualAddressSharedSegmentMap
  BY <1>1, <1>2, AllocatedGood
<1>4. Stay(pr, new, DOMAIN pr.segments)
  BY <1>3 DEF Stay, With
<1>5. Needed(pr, address, size) \in Nat
  <2>1. start \in Nat /\ start + size \in Nat
    BY <1>2, Powers DEF PageIds
  <2> QED BY <2>1, ProbesAreNat DEF Needed, start
<1>6. Needed(pr, address, size) \in 0 .. freeFrames
  <2> DEFINE n == Needed(pr, address, size)
  <2>1. n \in Nat /\ n <= freeFrames
    BY <1>1, <1>5
  <2> HIDE DEF n
  <2>2. n \in 0 .. freeFrames
    BY <2>1
  <2> QED BY <2>2 DEF n
<1> QED BY <1>3, <1>4, <1>6 DEF start

LEMMA AdmittedKept ==
  ASSUME Bookkeeping, NEW p \in Procs, NEW address, NEW size, InWord(address, size),
         allocateEmptySegmentOK(proc[p], address, size),
         NEW segment \in Segment, segment.numPages = size,
         \A q \in Procs : Cleaned(q) => Cleaned(q)',
         Commit(p, Allocated(proc[p], pageFromVA(address), segment), Needed(proc[p], address, size))
  PROVE  ProcsShaped' /\ ProcsGood' /\ NamesKnown'
<1> DEFINE pr == proc[p]
           new == Allocated(pr, pageFromVA(address), segment)
           taken == Needed(pr, address, size)
<1>1. pr \in Process /\ Good(pr)
  BY Typing
<1>2. /\ new \in Process /\ Good(new) /\ taken \in 0 .. freeFrames
      /\ new.virtualAddressSharedSegmentMap = pr.virtualAddressSharedSegmentMap
  <2> HIDE DEF pr
  <2>1. allocateEmptySegmentOK(pr, address, size)
    BY DEF pr
  <2> QED BY <1>1, <2>1, AdmittedGood
<1>3. Commit(p, new, taken)
  OBVIOUS
<1> HIDE DEF new, taken
<1> QED BY <1>2, <1>3, CommitKept

LEMMA DeletionKept ==
  ASSUME Bookkeeping, NEW p \in Procs, NEW address,
         \A q \in Procs : Cleaned(q) => Cleaned(q)',
         Commit(p, deleteSegmentPrivate(proc[p], address), 0)
  PROVE  ProcsShaped' /\ ProcsGood' /\ NamesKnown'
<1> DEFINE pr == proc[p]
           new == deleteSegmentPrivate(pr, address)
<1>1. pr \in Process /\ Good(pr)
  BY Typing
<1>2. /\ new \in Process /\ Good(new)
      /\ new.virtualAddressSharedSegmentMap = pr.virtualAddressSharedSegmentMap
  <2> HIDE DEF pr
  <2> QED BY <1>1, PrivateDeletedGood
<1>3. Commit(p, new, 0) /\ 0 \in 0 .. freeFrames
  BY Typing DEF ProcsShaped
<1> HIDE DEF new
<1> QED BY <1>2, <1>3, CommitKept

LEMMA Rebuilt ==
  ASSUME ProcsShaped', ProcsGood', NamesKnown', JobFits', CallsFit',
         (life \in [Procs -> Stages])', (call \in [Procs -> SegmentCall])',
         (segmentsMap \in Partial(Names, [size : Nat \ {0}, owners : SUBSET Procs]))',
         (job \in ProcessJob)', (sizeInFrames \in PMTSizes)', (spoiled \subseteq Procs)'
  PROVE  Bookkeeping'
BY DEF Bookkeeping, Shaped, ProcsShaped


LEMMA PrivateIsSegment ==
  ASSUME NEW size \in Nat \ {0}
  PROVE  Private(size) \in Segment /\ Private(size).numPages = size
BY DEF Private, Segment

LEMMA AllocatePrivateKeeps ==
  ASSUME NoWrap, Bookkeeping, NEW p \in Procs, NEW address \in Addresses, NEW size \in Sizes,
         UNCHANGED sizeInFrames, AllocatePrivate(p, address, size),
         call' = call \/ SetCall(p, [op |-> "load", address |-> address])
  PROVE  Bookkeeping'
<1> DEFINE segment == Private(size)
<1>1. /\ allocateEmptySegmentOK(proc[p], address, size)
      /\ Commit(p, Allocated(proc[p], pageFromVA(address), segment), Needed(proc[p], address, size))
      /\ UNCHANGED <<life, segmentsMap, job, spoiled>>
  BY DEF AllocatePrivate, history
<1>2. InWord(address, size) /\ segment \in Segment /\ segment.numPages = size
  BY PrivateIsSegment DEF NoWrap, InWord
<1>3. \A q \in Procs : Cleaned(q) => Cleaned(q)'
  BY <1>1 DEF Cleaned
<1> HIDE DEF segment
<1>4. ProcsShaped' /\ ProcsGood' /\ NamesKnown'
  BY <1>1, <1>2, <1>3, AdmittedKept
<1>5. JobFits'
  BY <1>1, Typing DEF JobFits
<1>6. (call \in [Procs -> SegmentCall])' /\ CallsFit'
  <2>1. CASE call' = call
    BY <2>1, Typing DEF CallsFit
  <2>2. CASE SetCall(p, [op |-> "load", address |-> address])
    <3> DEFINE c == [op |-> "load", address |-> address]
    <3>1. c \in SegmentCall /\ c.op # "attach"
      BY DEF SegmentCall, LoadCall
    <3>2. call' = [call EXCEPT ![p] = c]
      BY <2>2 DEF SetCall
    <3> HIDE DEF c
    <3> QED BY <3>1, <3>2, Typing DEF CallsFit
  <2> QED BY <2>1, <2>2
<1> QED BY <1>1, <1>4, <1>5, <1>6, Typing, Rebuilt

LEMMA IdleAgain ==
  ASSUME Bookkeeping, NEW p \in Procs, SetCall(p, Idle)
  PROVE  (call \in [Procs -> SegmentCall])' /\ CallsFit'
<1>1. Idle \in SegmentCall /\ Idle.op # "attach"
  BY DEF SegmentCall, Idle
<1>2. call' = [call EXCEPT ![p] = Idle]
  BY DEF SetCall
<1> QED BY <1>1, <1>2, Typing DEF CallsFit

\* An action that deletes at most a private segment, and ends a call or not
LEMMA DeletionKeeps ==
  ASSUME Bookkeeping, NEW p \in Procs, NEW address,
         UNCHANGED sizeInFrames, Commit(p, deleteSegmentPrivate(proc[p], address), 0),
         SetCall(p, Idle) \/ UNCHANGED call,
         UNCHANGED <<life, segmentsMap, job, history>>
  PROVE  Bookkeeping'
<1>1. \A q \in Procs : Cleaned(q) => Cleaned(q)'
  BY DEF Cleaned
<1>2. ProcsShaped' /\ ProcsGood' /\ NamesKnown'
  BY <1>1, DeletionKept
<1>3. JobFits'
  BY Typing DEF JobFits
<1>4. (call \in [Procs -> SegmentCall])' /\ CallsFit'
  BY IdleAgain, Typing DEF CallsFit
<1> QED BY <1>2, <1>3, <1>4, Typing, Rebuilt DEF history

LEMMA LoadContentKeeps ==
  ASSUME Bookkeeping, NEW p \in Procs, UNCHANGED sizeInFrames, LoadContent(p)
  PROVE  Bookkeeping'
<1>1. UNCHANGED <<life, proc, freeFrames, segmentsMap, job, crashed, spoiled>> /\ SetCall(p, Idle)
  BY DEF LoadContent, history
<1>2. ProcsShaped' /\ ProcsGood' /\ NamesKnown' /\ JobFits'
  BY <1>1, Typing DEF ProcsShaped, ProcsGood, NamesKnown, Cleaned, JobFits
<1> QED BY <1>1, <1>2, IdleAgain, Typing, Rebuilt

LEMMA PrivateCallsKeep ==
  ASSUME NoWrap, Bookkeeping, NEW p \in Procs, UNCHANGED sizeInFrames,
         NEW address \in Addresses, NEW size \in Sizes,
         \/ CreateSegment(p, address, size) \/ LoadSegment(p, address, size)
         \/ RefuseSegment(p, address, size) \/ DeleteSegment(p, address)
         \/ LoadContent(p) \/ LoadFails(p)
  PROVE  Bookkeeping'
<1>1. CASE CreateSegment(p, address, size)
  BY <1>1, AllocatePrivateKeeps DEF CreateSegment
<1>2. CASE LoadSegment(p, address, size)
  BY <1>2, AllocatePrivateKeeps DEF LoadSegment
<1>3. CASE RefuseSegment(p, address, size)
  BY <1>3, DeletionKeeps DEF RefuseSegment
<1>4. CASE DeleteSegment(p, address)
  BY <1>4, DeletionKeeps DEF DeleteSegment
<1>5. CASE LoadContent(p)
  BY <1>5, LoadContentKeeps
<1>6. CASE LoadFails(p)
  BY <1>6, DeletionKeeps DEF LoadFails
<1> QED BY <1>1, <1>2, <1>3, <1>4, <1>5, <1>6


\* Writing the name maps of one process
LEMMA NamesKept ==
  ASSUME Bookkeeping, NEW p \in Procs, NEW f \in Partial(Names, Nat),
         NEW g \in Partial(Nat, Names \cup {NoName}),
         proc' = [proc EXCEPT ![p] = Renamed(proc[p], f, g)],
         UNCHANGED <<freeFrames, crashed>>,
         Cleaned(p)' \/ (Known(proc[p].virtualAddressSharedSegmentMap) => Known(g)),
         \A q \in Procs : Cleaned(q) => Cleaned(q)'
  PROVE  ProcsShaped' /\ ProcsGood' /\ NamesKnown'
<1> DEFINE new == Renamed(proc[p], f, g)
<1>1. proc \in [Procs -> Process] /\ freeFrames \in Nat /\ crashed \in BOOLEAN
  BY Typing DEF ProcsShaped
<1>2. new \in Process /\ Good(new) /\ new.virtualAddressSharedSegmentMap = g
  BY Typing, RenamedGood
<1>3. proc' = [proc EXCEPT ![p] = new]
  OBVIOUS
<1> HIDE DEF new
<1>4. proc'[p] = new /\ \A q \in Procs \ {p} : proc'[q] = proc[q]
  BY <1>1, <1>3
<1>5. \A q \in Procs : Good(proc'[q])
  BY <1>2, <1>4, Typing
<1>6. ASSUME NEW q \in Procs
      PROVE  Cleaned(q)' \/ Known(proc'[q].virtualAddressSharedSegmentMap)
  BY <1>2, <1>4, Typing DEF NamesKnown
<1> QED BY <1>1, <1>2, <1>3, <1>5, <1>6 DEF ProcsShaped, ProcsGood, NamesKnown

LEMMA BeginAttachKept ==
  ASSUME Bookkeeping, NEW p \in Procs, NEW address, NEW size, InWord(address, size),
         NEW name \in Names, BeginAttach(p, address, size, name),
         \A q \in Procs : Cleaned(q) => Cleaned(q)'
  PROVE  /\ ProcsShaped' /\ ProcsGood' /\ NamesKnown'
         /\ (call \in [Procs -> SegmentCall])' /\ CallsFit'
         /\ (segmentsMap \in Partial(Names, [size : Nat \ {0}, owners : SUBSET Procs]))'
         /\ (spoiled \subseteq Procs)'
<1> DEFINE pr == proc[p]
           f == Emplace(pr.sharedSegmentVirtualAddressMap, name, address)
           g == Emplace(pr.virtualAddressSharedSegmentMap, address, name)
           c == [op |-> "attach", address |-> address, size |-> size,
                 name |-> name, dangling |-> FALSE]
           owners == IF name \in DOMAIN segmentsMap THEN segmentsMap[name].owners ELSE {}
           entry == [size |-> size, owners |-> owners \cup {p}]
<1>1. /\ segmentsMap' = With(segmentsMap, name, entry)
      /\ proc' = [proc EXCEPT ![p].sharedSegmentVirtualAddressMap = f,
                              ![p].virtualAddressSharedSegmentMap = g]
      /\ call' = [call EXCEPT ![p] = c]
      /\ UNCHANGED <<freeFrames, crashed>>
      /\ spoiled' \subseteq spoiled \cup {p}
  BY DEF BeginAttach, SetCall, Spoil
<1>2. pr \in Process /\ Good(pr) /\ proc \in [Procs -> Process] /\ address \in Nat
  BY Typing DEF ProcsShaped, InWord
<1>3. f \in Partial(Names, Nat) /\ g \in Partial(Nat, Names \cup {NoName})
  <2> DEFINE m == pr.sharedSegmentVirtualAddressMap
             n == pr.virtualAddressSharedSegmentMap
  <2>1. m \in Partial(Names, Nat) /\ n \in Partial(Nat, Names \cup {NoName})
    BY <1>2, ProcessIs
  <2>2. name \in Names \cup {NoName}
    OBVIOUS
  <2> HIDE DEF m, n
  <2>3. Emplace(m, name, address) \in Partial(Names, Nat)
    BY <1>2, <2>1, PartialMaps
  <2>4. Emplace(n, address, name) \in Partial(Nat, Names \cup {NoName})
    BY <1>2, <2>1, <2>2, PartialMaps
  <2> QED BY <2>3, <2>4 DEF m, n
<1>4. Known(pr.virtualAddressSharedSegmentMap) => Known(g)
  BY CallsAssumption DEF Known, Emplace, With
<1>5. proc' = [proc EXCEPT ![p] = Renamed(pr, f, g)]
  <2>1. pr = [segments |-> pr.segments, allocated |-> pr.allocated, pmt1 |-> pr.pmt1,
              sharedSegmentVirtualAddressMap |-> pr.sharedSegmentVirtualAddressMap,
              virtualAddressSharedSegmentMap |-> pr.virtualAddressSharedSegmentMap]
    BY <1>2, ProcessIs
  <2>2. ASSUME NEW new, new = [pr EXCEPT !.sharedSegmentVirtualAddressMap = f,
                                        !.virtualAddressSharedSegmentMap = g]
        PROVE  new = Renamed(pr, f, g)
    <3> HIDE DEF f, g, pr
    <3> QED BY <2>1, <2>2 DEF Renamed
  <2>3. proc' = [proc EXCEPT ![p] = [pr EXCEPT !.sharedSegmentVirtualAddressMap = f,
                                               !.virtualAddressSharedSegmentMap = g]]
    <3> HIDE DEF f, g
    <3> QED BY <1>1, <1>2
  <2> QED BY <2>2, <2>3
<1>6. ProcsShaped' /\ ProcsGood' /\ NamesKnown'
  <2> HIDE DEF f, g
  <2> QED BY <1>1, <1>3, <1>4, <1>5, NamesKept
<1>7. (call \in [Procs -> SegmentCall])' /\ CallsFit'
  <2>1. c \in SegmentCall /\ c.address = address /\ c.size = size
    BY DEF SegmentCall, AttachCall, InWord
  <2> HIDE DEF c
  <2> QED BY <1>1, <2>1, Typing DEF CallsFit
<1>8. (segmentsMap \in Partial(Names, [size : Nat \ {0}, owners : SUBSET Procs]))'
  <2> DEFINE Entry == [size : Nat \ {0}, owners : SUBSET Procs]
  <2>1. segmentsMap \in Partial(Names, Entry)
    BY Typing
  <2>2. entry \in Entry
    <3>1. owners \in SUBSET Procs
      <4>1. name \in DOMAIN segmentsMap => segmentsMap[name] \in Entry
        <5> HIDE DEF Entry
        <5> QED BY <2>1, PartialIs
      <4> QED BY <4>1
    <3> HIDE DEF owners
    <3> QED BY <3>1 DEF InWord
  <2> HIDE DEF entry, Entry
  <2>3. With(segmentsMap, name, entry) \in Partial(Names, Entry)
    BY <2>1, <2>2, PartialMaps
  <2> QED BY <1>1, <2>3 DEF Entry
<1>9. (spoiled \subseteq Procs)'
  BY <1>1, Typing
<1> QED BY <1>6, <1>7, <1>8, <1>9

LEMMA CreateSharedKeeps ==
  ASSUME NoWrap, Bookkeeping, NEW p \in Procs, NEW address \in Addresses, NEW size \in Sizes,
         NEW name \in Names, UNCHANGED sizeInFrames, CreateSharedSegment(p, address, size, name)
  PROVE  Bookkeeping'
<1>1. BeginAttach(p, address, size, name) /\ UNCHANGED <<life, job>> /\ InWord(address, size)
  BY DEF CreateSharedSegment, NoWrap
<1>2. \A q \in Procs : Cleaned(q) => Cleaned(q)'
  BY <1>1 DEF Cleaned
<1>3. JobFits'
  BY <1>1, Typing DEF JobFits
<1> QED BY <1>1, <1>2, <1>3, BeginAttachKept, Typing, Rebuilt


Manager == Partial(Names, [size : Nat \ {0}, owners : SUBSET Procs])

LEMMA RemoveKept ==
  ASSUME Bookkeeping, NEW p \in Procs, NEW name \in DOMAIN segmentsMap, removeProcess(name, p)
  PROVE  (segmentsMap \in Manager)' /\ name \in Names
<1> DEFINE Entry == [size : Nat \ {0}, owners : SUBSET Procs]
           e == [segmentsMap[name] EXCEPT !.owners = @ \ {p}]
<1>1. segmentsMap \in Partial(Names, Entry)
  BY Typing
<1>2. segmentsMap[name] \in Entry /\ name \in Names
  <2> HIDE DEF Entry
  <2> QED BY <1>1, PartialIs
<1>3. e \in Entry
  <2> DEFINE m == segmentsMap[name]
  <2>1. m \in Entry
    BY <1>2
  <2> HIDE DEF m
  <2>2. [m EXCEPT !.owners = @ \ {p}] \in Entry
    BY <2>1
  <2> QED BY <2>2 DEF m
<1>4. segmentsMap' = [segmentsMap EXCEPT ![name] = e]
  BY DEF removeProcess
<1> HIDE DEF e, Entry
<1>5. segmentsMap = [n \in DOMAIN segmentsMap |-> segmentsMap[n]] /\ DOMAIN segmentsMap \subseteq Names
      /\ \A n \in DOMAIN segmentsMap : segmentsMap[n] \in Entry
  BY <1>1, PartialIs
<1>6. segmentsMap' \in [DOMAIN segmentsMap -> Entry] /\ DOMAIN segmentsMap \in SUBSET Names
  BY <1>3, <1>4, <1>5
<1>7. segmentsMap' \in Partial(Names, Entry)
  BY <1>6 DEF Partial
<1> QED BY <1>2, <1>7 DEF Manager, Entry

LEMMA AttachKeeps ==
  ASSUME Bookkeeping, NEW p \in Procs, UNCHANGED sizeInFrames, Attach(p)
  PROVE  Bookkeeping'
<1> DEFINE c == call[p]
           segment == [numPages |-> c.size, isShared |-> TRUE, name |-> c.name, dangling |-> c.dangling]
<1>1. /\ c.op = "attach" /\ allocateEmptySegmentOK(proc[p], c.address, c.size)
      /\ Commit(p, Allocated(proc[p], pageFromVA(c.address), segment), Needed(proc[p], c.address, c.size))
      /\ SetCall(p, Idle) /\ UNCHANGED <<life, segmentsMap, job, spoiled>>
  BY DEF Attach, history
<1>2. c \in SegmentCall /\ InWord(c.address, c.size)
  BY <1>1, Typing DEF CallsFit
<1> HIDE DEF c
<1>3. segment \in Segment /\ segment.numPages = c.size
  BY <1>1, <1>2, CallIs DEF Segment
<1> HIDE DEF segment
<1>4. \A q \in Procs : Cleaned(q) => Cleaned(q)'
  BY <1>1 DEF Cleaned
<1>5. ProcsShaped' /\ ProcsGood' /\ NamesKnown'
  BY <1>1, <1>2, <1>3, <1>4, AdmittedKept
<1>6. JobFits'
  BY <1>1, Typing DEF JobFits
<1> QED BY <1>1, <1>5, <1>6, IdleAgain, Typing, Rebuilt

\* The two answers to a createSharedSegment that fails
LEMMA RefusedCalls ==
  ASSUME Bookkeeping, NEW p \in Procs, NEW op \in {"refused", "erase"}, NEW address \in Nat,
         NEW name \in Names, SetCall(p, [op |-> op, address |-> address, name |-> name])
  PROVE  (call \in [Procs -> SegmentCall])' /\ CallsFit'
<1> DEFINE c == [op |-> op, address |-> address, name |-> name]
<1>1. c \in SegmentCall /\ c.op # "attach"
  BY DEF SegmentCall, RefusedCall
<1>2. call' = [call EXCEPT ![p] = c]
  BY DEF SetCall
<1> HIDE DEF c
<1> QED BY <1>1, <1>2, Typing DEF CallsFit

LEMMA AttachFailsKeeps ==
  ASSUME Bookkeeping, NEW p \in Procs, UNCHANGED sizeInFrames, AttachFails(p)
  PROVE  Bookkeeping'
<1> DEFINE c == call[p]
           pr == proc[p]
<1>1. /\ c.op = "attach" /\ UNCHANGED life
      /\ SetCall(p, [op |-> "refused", address |-> c.address, name |-> c.name])
      /\ \/ c.name \in DOMAIN segmentsMap /\ Commit(p, Disconnected(pr, c.name), 0)
            /\ removeProcess(c.name, p)
         \/ UNCHANGED <<proc, freeFrames, segmentsMap, crashed>>
      /\ job' = IF life[p] = "cloning"
                THEN [op |-> "rollback", parent |-> job.parent, process |-> p, isShared |-> TRUE]
                ELSE job
      /\ spoiled' \subseteq spoiled \cup {p}
  BY DEF AttachFails, Spoil
<1>2. c \in SegmentCall /\ c.name \in Names /\ c.address \in Nat
  BY <1>1, Typing, CallIs
<1>3. pr \in Process /\ Good(pr)
  BY Typing
<1>4. /\ job' \in ProcessJob /\ JobFits' /\ \A q \in Procs : Cleaned(q) => Cleaned(q)'
  <2>1. job \in ProcessJob /\ JobFits /\ life \in [Procs -> Stages]
    BY Typing
  <2>2. CASE life[p] = "cloning"
    <3>1. job.op \in {"clone", "rollback"} /\ job.process = p /\ life[job.parent] = "live"
      BY <2>1, <2>2 DEF JobFits
    <3>2. job.parent \in Procs
      BY <2>1, <3>1, JobIs
    <3>3. job' = [op |-> "rollback", parent |-> job.parent, process |-> p, isShared |-> TRUE]
      BY <1>1, <2>2
    <3>4. job' \in RollbackJob /\ job'.op = "rollback" /\ job'.process = p /\ job'.parent = job.parent
      BY <3>2, <3>3 DEF RollbackJob
    <3> QED BY <1>1, <2>1, <2>2, <3>1, <3>4 DEF ProcessJob, JobFits, Cleaned
  <2>3. CASE life[p] # "cloning"
    BY <1>1, <2>1, <2>3 DEF JobFits, Cleaned
  <2> QED BY <2>2, <2>3
<1>5. (call \in [Procs -> SegmentCall])' /\ CallsFit'
  BY <1>1, <1>2, RefusedCalls
<1>6. CASE c.name \in DOMAIN segmentsMap /\ Commit(p, Disconnected(pr, c.name), 0)
           /\ removeProcess(c.name, p)
  <2> DEFINE new == Disconnected(pr, c.name)
  <2>1. /\ new \in Process /\ Good(new)
        /\ Known(pr.virtualAddressSharedSegmentMap) => Known(new.virtualAddressSharedSegmentMap)
    <3> HIDE DEF c, pr
    <3> QED BY <1>2, <1>3, DisconnectedGood
  <2>2. Commit(p, new, 0) /\ 0 \in 0 .. freeFrames
    BY <1>6, Typing DEF ProcsShaped
  <2> HIDE DEF new
  <2>3. ProcsShaped' /\ ProcsGood' /\ NamesKnown'
    BY <1>4, <2>1, <2>2, CommitKept
  <2>4. (segmentsMap \in Manager)'
    BY <1>6, RemoveKept
  <2> QED BY <1>1, <1>4, <1>5, <2>3, <2>4, Typing, Rebuilt DEF Manager
<1>7. CASE UNCHANGED <<proc, freeFrames, segmentsMap, crashed>>
  <2>1. ProcsShaped' /\ ProcsGood' /\ NamesKnown'
    BY <1>4, <1>7, Typing DEF ProcsShaped, ProcsGood, NamesKnown
  <2> QED BY <1>1, <1>4, <1>5, <1>7, <2>1, Typing, Rebuilt
<1> QED BY <1>1, <1>6, <1>7

LEMMA DisconnectAgainKeeps ==
  ASSUME Bookkeeping, NEW p \in Procs, UNCHANGED sizeInFrames, DisconnectAgain(p)
  PROVE  Bookkeeping'
<1> DEFINE c == call[p]
           pr == proc[p]
           new == Erased(pr, c.address, c.name)
<1>1. /\ c.op = "refused" /\ UNCHANGED <<life, freeFrames, job, crashed, spoiled>>
      /\ \/ /\ c.name \in DOMAIN segmentsMap /\ removeProcess(c.name, p) /\ UNCHANGED proc
            /\ SetCall(p, [op |-> "erase", address |-> c.address, name |-> c.name])
         \/ /\ proc' = [proc EXCEPT ![p] = new]
            /\ SetCall(p, Idle) /\ UNCHANGED segmentsMap
  BY DEF DisconnectAgain, history
<1>2. c.name \in Names /\ c.address \in Nat
  BY <1>1, Typing, CallIs
<1>3. pr \in Process /\ Good(pr)
  BY Typing
<1>4. JobFits' /\ \A q \in Procs : Cleaned(q) => Cleaned(q)'
  BY <1>1, Typing DEF JobFits, Cleaned
<1>5. CASE /\ c.name \in DOMAIN segmentsMap /\ removeProcess(c.name, p) /\ UNCHANGED proc
           /\ SetCall(p, [op |-> "erase", address |-> c.address, name |-> c.name])
  <2>1. (segmentsMap \in Manager)'
    BY <1>5, RemoveKept
  <2>2. (call \in [Procs -> SegmentCall])' /\ CallsFit'
    BY <1>2, <1>5, RefusedCalls
  <2>3. ProcsShaped' /\ ProcsGood' /\ NamesKnown'
    BY <1>1, <1>4, <1>5, Typing DEF ProcsShaped, ProcsGood, NamesKnown
  <2> QED BY <1>1, <1>4, <2>1, <2>2, <2>3, Typing, Rebuilt DEF Manager
<1>6. CASE proc' = [proc EXCEPT ![p] = new] /\ SetCall(p, Idle) /\ UNCHANGED segmentsMap
  <2>1. PICK f \in Partial(Names, Nat), g \in Partial(Nat, Names \cup {NoName}) :
          /\ new = Renamed(pr, f, g)
          /\ Known(pr.virtualAddressSharedSegmentMap) => Known(g)
    <3> HIDE DEF pr, c
    <3> QED BY <1>3, ErasedGood
  <2> HIDE DEF new
  <2>2. ProcsShaped' /\ ProcsGood' /\ NamesKnown'
    BY <1>1, <1>4, <1>6, <2>1, NamesKept
  <2> QED BY <1>1, <1>4, <1>6, <2>2, IdleAgain, Typing, Rebuilt
<1> QED BY <1>1, <1>5, <1>6

LEMMA EraseRefusedKeeps ==
  ASSUME Bookkeeping, NEW p \in Procs, UNCHANGED sizeInFrames, EraseRefused(p)
  PROVE  Bookkeeping'
<1> DEFINE c == call[p]
           pr == proc[p]
           new == Refused(pr, c.address, c.name)
<1>1. /\ c.op = "erase" /\ Commit(p, new, 0)
      /\ SetCall(p, Idle) /\ UNCHANGED <<life, segmentsMap, job, spoiled>>
  BY DEF EraseRefused, Refused, history
<1>2. pr \in Process /\ Good(pr) /\ c.name \in Names
  BY <1>1, Typing, CallIs
<1>3. /\ new \in Process /\ Good(new)
      /\ Known(pr.virtualAddressSharedSegmentMap) => Known(new.virtualAddressSharedSegmentMap)
  <2> HIDE DEF pr, c
  <2> QED BY <1>2, RefusedGood
<1> HIDE DEF new
<1>4. \A q \in Procs : Cleaned(q) => Cleaned(q)'
  BY <1>1 DEF Cleaned
<1>5. 0 \in 0 .. freeFrames /\ JobFits'
  BY <1>1, Typing DEF ProcsShaped, JobFits
<1>6. ProcsShaped' /\ ProcsGood' /\ NamesKnown'
  BY <1>1, <1>3, <1>4, <1>5, CommitKept
<1> QED BY <1>1, <1>5, <1>6, IdleAgain, Typing, Rebuilt


LEMMA AttachToFreedKeeps ==
  ASSUME Bookkeeping, NEW p \in Procs, UNCHANGED sizeInFrames, AttachToFreed(p)
  PROVE  Bookkeeping'
<1>1. /\ UNCHANGED <<life, proc, call, freeFrames, segmentsMap, job, spoiled>>
      /\ crashed' \in BOOLEAN
  BY DEF AttachToFreed, history
<1>2. ProcsShaped' /\ ProcsGood' /\ NamesKnown' /\ JobFits' /\ CallsFit'
  BY <1>1, Typing DEF ProcsShaped, ProcsGood, NamesKnown, Cleaned, JobFits, CallsFit
<1> QED BY <1>1, <1>2, Typing, Rebuilt

LEMMA BeginDisconnectKept ==
  ASSUME Bookkeeping, NEW p \in Procs, NEW name, BeginDisconnect(p, name)
  PROVE  /\ (call \in [Procs -> SegmentCall])' /\ CallsFit'
         /\ (segmentsMap \in Manager)'
         /\ (spoiled \subseteq Procs)'
<1>1. name \in DOMAIN segmentsMap /\ removeProcess(name, p)
  BY DEF BeginDisconnect
<1>2. (segmentsMap \in Manager)' /\ name \in Names
  BY <1>1, RemoveKept
<1>3. (call \in [Procs -> SegmentCall])' /\ CallsFit'
  <2> DEFINE c == [op |-> "disconnect", name |-> name]
  <2>1. c \in SegmentCall /\ c.op # "attach"
    BY <1>2 DEF SegmentCall, DisconnectCall
  <2>2. call' = [call EXCEPT ![p] = c]
    BY DEF BeginDisconnect, SetCall
  <2> HIDE DEF c
  <2> QED BY <2>1, <2>2, Typing DEF CallsFit
<1>4. (spoiled \subseteq Procs)'
  BY Typing DEF BeginDisconnect, Spoil
<1> QED BY <1>2, <1>3, <1>4

LEMMA DisconnectSharedKeeps ==
  ASSUME Bookkeeping, NEW p \in Procs, NEW name, UNCHANGED sizeInFrames,
         DisconnectSharedSegment(p, name)
  PROVE  Bookkeeping'
<1>1. BeginDisconnect(p, name) /\ UNCHANGED <<life, proc, freeFrames, job, crashed>>
  BY DEF DisconnectSharedSegment, BeginDisconnect
<1>2. ProcsShaped' /\ ProcsGood' /\ NamesKnown' /\ JobFits'
  BY <1>1, Typing DEF ProcsShaped, ProcsGood, NamesKnown, Cleaned, JobFits
<1> QED BY <1>1, <1>2, BeginDisconnectKept, Typing, Rebuilt DEF Manager

LEMMA DetachKeeps ==
  ASSUME Bookkeeping, NEW p \in Procs, UNCHANGED sizeInFrames, Detach(p)
  PROVE  Bookkeeping'
<1> DEFINE c == call[p]
           pr == proc[p]
           new == Disconnected(pr, c.name)
           f == pr.sharedSegmentVirtualAddressMap
           kept == [new EXCEPT !.sharedSegmentVirtualAddressMap = f]
<1>1. /\ c.op = "disconnect"
      /\ Commit(p, new, 0) \/ Commit(p, kept, 0)
      /\ SetCall(p, Idle) /\ UNCHANGED <<life, segmentsMap, job, spoiled>>
  BY DEF Detach, history
<1>2. pr \in Process /\ Good(pr) /\ c.name \in Names
  BY <1>1, Typing, CallIs
<1>3. /\ new \in Process /\ Good(new)
      /\ Known(pr.virtualAddressSharedSegmentMap) => Known(new.virtualAddressSharedSegmentMap)
  <2> HIDE DEF pr, c
  <2> QED BY <1>2, DisconnectedGood
<1>4. \A q \in Procs : Cleaned(q) => Cleaned(q)'
  BY <1>1 DEF Cleaned
<1>5. 0 \in 0 .. freeFrames /\ JobFits'
  BY <1>1, Typing DEF ProcsShaped, JobFits
<1>6. ProcsShaped' /\ ProcsGood' /\ NamesKnown'
  <2>1. CASE Commit(p, new, 0)
    <3> HIDE DEF new
    <3> QED BY <1>3, <1>4, <1>5, <2>1, CommitKept
  <2>2. CASE Commit(p, kept, 0)
    <3>1. PICK k : k = kept
      OBVIOUS
    <3>2. Commit(p, k, 0)
      BY <2>2, <3>1
    <3>3. f \in Partial(Names, Nat) /\ new.virtualAddressSharedSegmentMap \in Partial(Nat, Names \cup {NoName})
      <4> HIDE DEF pr, new
      <4> QED BY <1>2, <1>3, ProcessIs
    <3> DEFINE g == new.virtualAddressSharedSegmentMap
    <3> HIDE DEF new, f
    <3>4. k = Renamed(new, f, g)
      <4>1. new = [segments |-> new.segments, allocated |-> new.allocated, pmt1 |-> new.pmt1,
                   sharedSegmentVirtualAddressMap |-> new.sharedSegmentVirtualAddressMap,
                   virtualAddressSharedSegmentMap |-> new.virtualAddressSharedSegmentMap]
        BY <1>3, ProcessIs
      <4> QED BY <3>1, <4>1 DEF Renamed
    <3>5. k \in Process /\ Good(k) /\ k.virtualAddressSharedSegmentMap = g
      BY <1>3, <3>3, <3>4, RenamedGood
    <3> QED BY <1>3, <1>4, <1>5, <3>2, <3>5, CommitKept
  <2> QED BY <1>1, <2>1, <2>2
<1> QED BY <1>1, <1>5, <1>6, IdleAgain, Typing, Rebuilt

LEMMA FreedGood ==
  ASSUME NEW pr \in Process, Good(pr), NEW S
  PROVE  LET new == Freed(pr, S)
         IN  /\ new \in Process /\ Good(new) /\ Stay(pr, new, DOMAIN pr.segments \ S)
             /\ new.pmt1 = pr.pmt1
             /\ new.virtualAddressSharedSegmentMap = pr.virtualAddressSharedSegmentMap
<1> DEFINE old == pr.segments
           m == [s \in DOMAIN old |-> [old[s] EXCEPT !.dangling = @ \/ s \in S]]
           new == Freed(pr, S)
<1>1. old \in Partial(PageIds, Segment)
  BY ProcessIs
<1>2. new = [segments |-> m, allocated |-> pr.allocated, pmt1 |-> pr.pmt1,
             sharedSegmentVirtualAddressMap |-> pr.sharedSegmentVirtualAddressMap,
             virtualAddressSharedSegmentMap |-> pr.virtualAddressSharedSegmentMap]
  <2>1. pr = [segments |-> pr.segments, allocated |-> pr.allocated, pmt1 |-> pr.pmt1,
              sharedSegmentVirtualAddressMap |-> pr.sharedSegmentVirtualAddressMap,
              virtualAddressSharedSegmentMap |-> pr.virtualAddressSharedSegmentMap]
    BY ProcessIs
  <2>2. new = [pr EXCEPT !.segments = m]
    BY DEF Freed
  <2> HIDE DEF m, new
  <2> QED BY <2>1, <2>2
<1> HIDE DEF old, new
<1>3. DOMAIN old \in SUBSET PageIds /\ \A s \in DOMAIN old : old[s] \in Segment
  BY <1>1, PartialIs
<1>4. ASSUME NEW s \in DOMAIN old
      PROVE  /\ m[s] \in Segment /\ m[s].numPages = old[s].numPages
             /\ s \notin S => m[s] = old[s]
  <2> DEFINE x == old[s]
             d == s \in S
  <2>1. x \in Segment /\ m[s] = [x EXCEPT !.dangling = x.dangling \/ d]
    BY <1>3
  <2> HIDE DEF x, d, m
  <2>2. m[s].numPages = x.numPages
    BY <2>1 DEF Segment
  <2>3. m[s] \in Segment
    BY <2>1 DEF Segment
  <2>4. ~d => m[s] = x
    <3>1. ~d => (x.dangling \/ d) = x.dangling
      BY <2>1 DEF Segment
    <3> QED BY <2>1, <3>1 DEF Segment
  <2> QED BY <2>2, <2>3, <2>4 DEF x, d
<1>5. DOMAIN m = DOMAIN old /\ m \in Partial(PageIds, Segment)
  <2>1. m \in [DOMAIN old -> Segment]
    BY <1>4
  <2> QED BY <1>3, <2>1 DEF Partial
<1> HIDE DEF m
<1>6. new \in Process
  BY <1>2, <1>5, ProcessIs DEF Process
<1>7. /\ DOMAIN new.segments = DOMAIN pr.segments
      /\ \A s \in DOMAIN pr.segments : new.segments[s].numPages = pr.segments[s].numPages
      /\ new.allocated = pr.allocated /\ new.pmt1 = pr.pmt1
      /\ new.virtualAddressSharedSegmentMap = pr.virtualAddressSharedSegmentMap
  BY <1>2, <1>4, <1>5 DEF old
<1>8. Good(new)
  <2>1. \A s \in DOMAIN pr.segments : Span(new, s) = Span(pr, s)
    BY <1>7 DEF Span
  <2>2. UNION {Span(new, s) : s \in DOMAIN new.segments} = UNION {Span(pr, s) : s \in DOMAIN pr.segments}
    BY <1>7, <2>1
  <2>3. Owned(new)
    BY <1>7, <2>1, <2>2 DEF Good, Owned
  <2>4. Counted(new)
    BY <1>7 DEF Good, Counted, Used
  <2> QED BY <1>7, <2>3, <2>4 DEF Good, Inside
<1>9. Stay(pr, new, DOMAIN pr.segments \ S)
  BY <1>2, <1>4, <1>5 DEF Stay, old
<1> QED BY <1>6, <1>7, <1>8, <1>9 DEF new


LEMMA DeleteSharedKeeps ==
  ASSUME Bookkeeping, NEW p \in Procs, NEW name \in Names, UNCHANGED sizeInFrames,
         DeleteSharedSegment(p, name)
  PROVE  Bookkeeping'
<1> DEFINE dangles(q) == AttachedTo(proc[q], name)
           waits(q) == call[q].op \in {"attach", "disconnect"} /\ call[q].name = name
<1>1. /\ UNCHANGED <<life, freeFrames, job, crashed>> /\ name \in DOMAIN segmentsMap
      /\ \/ \E q \in segmentsMap[name].owners :
              removeProcess(name, q) /\ Spoil({q}) /\ UNCHANGED <<proc, call>>
         \/ /\ segmentsMap' = Without(segmentsMap, name)
            /\ proc' = [q \in Procs |-> Freed(proc[q], dangles(q))]
            /\ call' = [q \in Procs |->
                 IF waits(q) /\ call[q].op = "attach"
                 THEN [call[q] EXCEPT !.dangling = TRUE] ELSE call[q]]
            /\ Spoil({q \in Procs : dangles(q) # {} \/ waits(q)})
  BY DEF DeleteSharedSegment
<1> HIDE DEF dangles, waits
<1>2. segmentsMap \in Manager
  BY Typing DEF Manager
<1>3. JobFits' /\ \A q \in Procs : Cleaned(q) => Cleaned(q)'
  BY <1>1, Typing DEF JobFits, Cleaned
<1>4. CASE \E q \in segmentsMap[name].owners :
             removeProcess(name, q) /\ Spoil({q}) /\ UNCHANGED <<proc, call>>
  <2>1. PICK q \in segmentsMap[name].owners :
          removeProcess(name, q) /\ Spoil({q}) /\ UNCHANGED <<proc, call>>
    BY <1>4
  <2>2. q \in Procs
    <3> DEFINE Entry == [size : Nat \ {0}, owners : SUBSET Procs]
    <3>1. segmentsMap \in Partial(Names, Entry)
      BY <1>2 DEF Manager
    <3> HIDE DEF Entry
    <3>2. segmentsMap[name] \in Entry
      BY <1>1, <3>1, PartialIs
    <3> QED BY <2>1, <3>2 DEF Entry
  <2>3. (segmentsMap \in Manager)'
    BY <1>1, <2>1, <2>2, RemoveKept
  <2>4. ProcsShaped' /\ ProcsGood' /\ NamesKnown' /\ CallsFit'
    BY <1>1, <2>1, Typing DEF ProcsShaped, ProcsGood, NamesKnown, Cleaned, CallsFit
  <2>5. (spoiled \subseteq Procs)'
    BY <2>1, <2>2, Typing DEF Spoil
  <2> QED BY <1>1, <1>3, <2>1, <2>3, <2>4, <2>5, Typing, Rebuilt DEF Manager
<1>5. CASE /\ segmentsMap' = Without(segmentsMap, name)
           /\ proc' = [q \in Procs |-> Freed(proc[q], dangles(q))]
           /\ call' = [q \in Procs |->
                IF waits(q) /\ call[q].op = "attach"
                THEN [call[q] EXCEPT !.dangling = TRUE] ELSE call[q]]
           /\ Spoil({q \in Procs : dangles(q) # {} \/ waits(q)})
  <2>1. (segmentsMap \in Manager)'
    <3> DEFINE Entry == [size : Nat \ {0}, owners : SUBSET Procs]
    <3>1. segmentsMap \in Partial(Names, Entry)
      BY <1>2 DEF Manager
    <3> HIDE DEF Entry
    <3>2. Without(segmentsMap, name) \in Partial(Names, Entry)
      BY <3>1, PartialMaps
    <3> QED BY <1>5, <3>2 DEF Manager, Entry
  <2>2. ASSUME NEW q \in Procs
        PROVE  /\ proc'[q] \in Process /\ Good(proc'[q])
               /\ proc'[q].virtualAddressSharedSegmentMap = proc[q].virtualAddressSharedSegmentMap
    <3> DEFINE pr == proc[q]
               D == dangles(q)
    <3>1. pr \in Process /\ Good(pr) /\ proc'[q] = Freed(pr, D)
      BY <1>5, Typing
    <3> HIDE DEF pr, D
    <3>2. /\ Freed(pr, D) \in Process /\ Good(Freed(pr, D))
          /\ Freed(pr, D).virtualAddressSharedSegmentMap = pr.virtualAddressSharedSegmentMap
      BY <3>1, FreedGood
    <3> QED BY <3>1, <3>2 DEF pr
  <2>3. ProcsShaped'
    <3>1. proc' \in [Procs -> Process]
      BY <1>5, <2>2
    <3> QED BY <1>1, <3>1, Typing DEF ProcsShaped
  <2>4. ProcsGood'
    BY <2>2 DEF ProcsGood
  <2>5. NamesKnown'
    <3>1. ASSUME NEW q \in Procs
          PROVE  Cleaned(q)' \/ Known(proc'[q].virtualAddressSharedSegmentMap)
      BY <1>3, <2>2, Typing DEF NamesKnown
    <3> QED BY <3>1 DEF NamesKnown
  <2>6. ASSUME NEW q \in Procs
        PROVE  /\ call'[q] \in SegmentCall
               /\ call'[q].op = "attach" =>
                    /\ call[q].op = "attach" /\ call'[q].address = call[q].address
                    /\ call'[q].size = call[q].size
    <3> DEFINE c == call[q]
    <3>1. c \in SegmentCall
      BY Typing
    <3>2. CASE waits(q) /\ c.op = "attach"
      <4>1. call'[q] = [c EXCEPT !.dangling = TRUE]
        BY <1>5, <3>2
      <4> HIDE DEF c
      <4>2. c \in AttachCall
        BY <3>1, <3>2, CallIs
      <4>3. [c EXCEPT !.dangling = TRUE] \in AttachCall
            /\ [c EXCEPT !.dangling = TRUE].address = c.address
            /\ [c EXCEPT !.dangling = TRUE].size = c.size
        BY <4>2 DEF AttachCall
      <4> QED BY <3>2, <4>1, <4>3 DEF SegmentCall, c
    <3>3. CASE ~(waits(q) /\ c.op = "attach")
      BY <1>5, <3>1, <3>3
    <3> QED BY <3>2, <3>3
  <2>7. (call \in [Procs -> SegmentCall])'
    BY <1>5, <2>6
  <2>8. CallsFit'
    <3>1. ASSUME NEW q \in Procs, call'[q].op = "attach"
          PROVE  InWord(call'[q].address, call'[q].size)
      BY <2>6, <3>1, Typing DEF CallsFit
    <3> QED BY <3>1 DEF CallsFit
  <2>9. (spoiled \subseteq Procs)'
    BY <1>5, Typing DEF Spoil
  <2> QED BY <1>1, <1>3, <2>1, <2>3, <2>4, <2>5, <2>7, <2>8, <2>9, Typing, Rebuilt DEF Manager
<1> QED BY <1>1, <1>4, <1>5


LEMMA NewProcessGood ==
  /\ NewProcess \in Process /\ Good(NewProcess)
  /\ Known(NewProcess.virtualAddressSharedSegmentMap)
  /\ NewProcess.segments = EmptyMap /\ NewProcess.allocated = {}
  /\ \A t \in TableIds : ~NewProcess.pmt1[t].pmt2Valid
<1> DEFINE new == NewProcess
           blank == [pmt2Valid |-> FALSE, numValidPMT2Entries |-> 0]
<1>1. /\ new = [segments |-> EmptyMap, allocated |-> {}, pmt1 |-> [t \in TableIds |-> blank],
                sharedSegmentVirtualAddressMap |-> EmptyMap,
                virtualAddressSharedSegmentMap |-> EmptyMap]
  BY DEF NewProcess
<1> HIDE DEF new
<1>2. DOMAIN EmptyMap = {} /\ \A X, Y : EmptyMap \in Partial(X, Y)
  BY EmptyMapIs
<1>3. [t \in TableIds |-> blank] \in [TableIds -> [pmt2Valid : BOOLEAN, numValidPMT2Entries : Nat]]
  OBVIOUS
<1>4. new \in Process
  BY <1>1, <1>2, <1>3 DEF Process
<1>5. new.segments = EmptyMap /\ new.allocated = {} /\ new.virtualAddressSharedSegmentMap = EmptyMap
      /\ \A t \in TableIds : new.pmt1[t] = blank
  BY <1>1
<1>6. Inside(new) /\ Owned(new)
  BY <1>2, <1>5 DEF Inside, Owned
<1>7. \A t \in TableIds : Used(new, t) = 0
  <2>1. \A t : {} \cap pagesOfTable(t) = {}
    OBVIOUS
  <2> QED BY <1>5, <2>1, FS_EmptySet DEF Used
<1>8. Counted(new)
  BY <1>5, <1>7 DEF Counted
<1> QED BY <1>2, <1>4, <1>5, <1>6, <1>8 DEF new, Good, Known

LEMMA CreateProcessKeeps ==
  ASSUME Bookkeeping, NEW p \in Procs, UNCHANGED sizeInFrames, CreateProcess(p)
  PROVE  Bookkeeping'
<1>1. /\ UNCHANGED <<proc, call, segmentsMap, job, crashed, spoiled>> /\ job = NoJob
      /\ \/ freeFrames > 0 /\ freeFrames' = freeFrames - 1 /\ life' = [life EXCEPT ![p] = "live"]
         \/ freeFrames' = freeFrames /\ life' = [life EXCEPT ![p] = "hollow"]
  BY DEF CreateProcess, ksMutexFree, history
<1>2. freeFrames' \in Nat
  BY <1>1, Typing DEF ProcsShaped
<1>3. ProcsShaped' /\ ProcsGood' /\ NamesKnown' /\ CallsFit'
  BY <1>1, <1>2, Typing DEF ProcsShaped, ProcsGood, NamesKnown, Cleaned, CallsFit
<1>4. (life \in [Procs -> Stages])' /\ JobFits'
  BY <1>1, Typing DEF Stages, JobFits, NoJob
<1> QED BY <1>1, <1>3, <1>4, Typing, Rebuilt

LEMMA CloneProcessKeeps ==
  ASSUME Bookkeeping, NEW parent \in Procs, NEW child \in Procs, UNCHANGED sizeInFrames,
         CloneProcess(parent, child)
  PROVE  Bookkeeping'
<1> DEFINE todo == DOMAIN proc[parent].segments
<1>1. /\ UNCHANGED <<proc, call, segmentsMap, crashed, spoiled>> /\ job = NoJob
      /\ life[parent] = "live" /\ life[child] = "unborn"
      /\ freeFrames > 0 /\ freeFrames' = freeFrames - 1 /\ life' = [life EXCEPT ![child] = "cloning"]
      /\ job' = [op |-> "clone", parent |-> parent, process |-> child, todo |-> todo]
  BY DEF CloneProcess, ksMutexFree, IsNextId, history
<1>2. freeFrames' \in Nat
  BY <1>1, Typing DEF ProcsShaped
<1>3. todo \in SUBSET PageIds
  <2> DEFINE pr == proc[parent]
  <2>1. pr \in Process
    BY Typing
  <2> HIDE DEF pr
  <2>2. DOMAIN pr.segments \in SUBSET PageIds
    <3> DEFINE m == pr.segments
    <3>1. m \in Partial(PageIds, Segment)
      BY <2>1, ProcessIs
    <3> HIDE DEF m
    <3>2. DOMAIN m \subseteq PageIds
      BY <3>1, PartialIs
    <3> QED BY <3>2 DEF m
  <2> QED BY <2>2 DEF pr
<1> HIDE DEF todo
<1>4. (job \in ProcessJob)'
  BY <1>1, <1>3 DEF ProcessJob, CloneJob
<1>5. (life \in [Procs -> Stages])' /\ JobFits'
  BY <1>1, Typing DEF Stages, JobFits, NoJob
<1>6. ProcsShaped' /\ ProcsGood' /\ NamesKnown' /\ CallsFit'
  BY <1>1, <1>2, Typing DEF ProcsShaped, ProcsGood, NamesKnown, Cleaned, CallsFit, NoJob
<1> QED BY <1>1, <1>4, <1>5, <1>6, Typing, Rebuilt

LEMMA DestroyProcessKeeps ==
  ASSUME Bookkeeping, NEW p \in Procs, UNCHANGED sizeInFrames, DestroyProcess(p)
  PROVE  Bookkeeping'
<1>1. /\ UNCHANGED <<proc, call, freeFrames, segmentsMap, crashed, spoiled>> /\ job = NoJob
      /\ life' = [life EXCEPT ![p] = "destroying"] /\ job' = [op |-> "destroy", process |-> p]
  BY DEF DestroyProcess, ksMutexFree, history
<1>2. (job \in ProcessJob)'
  BY <1>1 DEF ProcessJob, DestroyJob
<1>3. (life \in [Procs -> Stages])' /\ JobFits'
  BY <1>1, Typing DEF Stages, JobFits, NoJob
<1>4. ProcsShaped' /\ ProcsGood' /\ NamesKnown' /\ CallsFit'
  BY <1>1, Typing DEF ProcsShaped, ProcsGood, NamesKnown, Cleaned, CallsFit, NoJob
<1> QED BY <1>1, <1>2, <1>3, <1>4, Typing, Rebuilt

LEMMA CloneDoneKeeps ==
  ASSUME Bookkeeping, UNCHANGED sizeInFrames, CloneDone
  PROVE  Bookkeeping'
<1>1. /\ UNCHANGED <<proc, call, freeFrames, segmentsMap, crashed, spoiled>> /\ job.op = "clone"
      /\ life' = [life EXCEPT ![job.process] = "live"] /\ job' = NoJob
  BY DEF CloneDone, history
<1>2. (job \in ProcessJob)' /\ job.process \in Procs /\ job'.op = "none"
  BY <1>1, Typing, JobIs DEF ProcessJob, NoJob
<1>3. (life \in [Procs -> Stages])' /\ JobFits'
  BY <1>1, <1>2, Typing DEF Stages, JobFits
<1>4. ProcsShaped' /\ ProcsGood' /\ NamesKnown' /\ CallsFit'
  BY <1>1, Typing DEF ProcsShaped, ProcsGood, NamesKnown, Cleaned, CallsFit
<1> QED BY <1>1, <1>2, <1>3, <1>4, Typing, Rebuilt

LEMMA CleanUpDoneKeeps ==
  ASSUME Bookkeeping, UNCHANGED sizeInFrames, CleanUpDone
  PROVE  Bookkeeping'
<1>1. /\ UNCHANGED <<call, segmentsMap, crashed, spoiled>> /\ job.op \in {"destroy", "rollback"}
      /\ proc' = [proc EXCEPT ![job.process] = NewProcess] /\ freeFrames' = freeFrames + 1
      /\ life' = [life EXCEPT ![job.process] = "dead"] /\ job' = NoJob
  BY DEF CleanUpDone, history
<1>2. (job \in ProcessJob)' /\ job.process \in Procs /\ job'.op = "none"
  BY <1>1, Typing, JobIs DEF ProcessJob, NoJob
<1>3. (life \in [Procs -> Stages])' /\ JobFits'
  BY <1>1, <1>2, Typing DEF Stages, JobFits
<1>4. proc'[job.process] = NewProcess /\ \A q \in Procs \ {job.process} : proc'[q] = proc[q]
  BY <1>1, <1>2, Typing DEF ProcsShaped
<1>5. ProcsShaped' /\ CallsFit'
  BY <1>1, <1>2, NewProcessGood, Typing DEF ProcsShaped, CallsFit
<1>6. \A q \in Procs : Good(proc'[q])
  BY <1>4, NewProcessGood, Typing
<1>7. ASSUME NEW q \in Procs
      PROVE  Known(proc'[q].virtualAddressSharedSegmentMap)
  BY <1>4, NewProcessGood, Typing DEF NamesKnown, Cleaned
<1> QED BY <1>1, <1>2, <1>3, <1>5, <1>6, <1>7, Typing, Rebuilt DEF ProcsGood, NamesKnown


\* The segments of a process that is cloned could be asked for by address.
LEMMA SegmentAddress ==
  ASSUME NEW pr \in Process, Good(pr), NEW s \in DOMAIN pr.segments
  PROVE  LET address == virtualAddressFromPage(s)
             size == pr.segments[s].numPages
         IN  /\ s \in PageIds /\ size \in Nat \ {0} /\ InWord(address, size)
             /\ address \in Nat /\ pageFromVA(address) = s /\ Starts(address) = {s}
<1> DEFINE size == pr.segments[s].numPages
<1>1. s \in PageIds /\ size \in Nat \ {0} /\ s + size <= PagesNum
  BY SegmentOf
<1>2. /\ virtualAddressFromPage(s) = s * PageSize /\ s * PageSize \in Nat
      /\ pageFromVA(s * PageSize) = s
      /\ isVirtualAddressAligned(s * PageSize)
      /\ checkVirtualAddressBounds(s * PageSize)
  BY <1>1, AddressOfPage
<1> HIDE DEF size
<1>3. s * PageSize + size * PageSize <= 2 ^ WordBits
  <2> DEFINE b == PageSize
             n == PagesNum
             w == 2 ^ WordBits
  <2>1. s \in Nat /\ b \in Nat \ {0} /\ n \in Nat \ {0} /\ w \in Nat /\ n * b <= w
    BY <1>1, Powers DEF PageIds
  <2> HIDE DEF b, n, w
  <2>2. (s + size) * b <= n * b
    BY <1>1, <2>1 DEF n
  <2>3. (s + size) * b = s * b + size * b /\ s * b \in Nat /\ size * b \in Nat /\ n * b \in Nat
    BY <1>1, <2>1
  <2>4. s * b + size * b <= w
    BY <2>1, <2>2, <2>3
  <2> QED BY <2>4 DEF b, w
<1>4. InWord(s * PageSize, size)
  BY <1>1, <1>2, <1>3 DEF InWord
<1>5. Starts(s * PageSize) = {s}
  BY <1>2 DEF Starts
<1> QED BY <1>1, <1>2, <1>4, <1>5 DEF size

\* The turn of a clone goes on or turns into the rollback.
LEMMA TurnOfClone ==
  ASSUME Bookkeeping, job.op = "clone", UNCHANGED life,
         (\E s : job' = [job EXCEPT !.todo = @ \ {s}]) \/ (\E b \in BOOLEAN : job' = rollback(b))
         \/ job' = job
  PROVE  (job \in ProcessJob)' /\ JobFits' /\ \A q \in Procs : Cleaned(q) => Cleaned(q)'
<1>1. job \in CloneJob /\ job.parent \in Procs /\ job.process \in Procs
  BY Typing, JobIs
<1>2. CASE \E s : job' = [job EXCEPT !.todo = @ \ {s}]
  <2>1. PICK s : job' = [job EXCEPT !.todo = @ \ {s}]
    BY <1>2
  <2>2. job' \in CloneJob /\ job'.op = "clone" /\ job'.parent = job.parent /\ job'.process = job.process
    BY <1>1, <2>1 DEF CloneJob
  <2> QED BY <2>2, Typing DEF ProcessJob, JobFits, Cleaned
<1>3. CASE \E b \in BOOLEAN : job' = rollback(b)
  <2>1. PICK b \in BOOLEAN : job' = rollback(b)
    BY <1>3
  <2>2. /\ job' \in RollbackJob /\ job'.op = "rollback" /\ job'.parent = job.parent
        /\ job'.process = job.process
    BY <1>1, <2>1 DEF RollbackJob, rollback
  <2> QED BY <2>2, Typing DEF ProcessJob, JobFits, Cleaned
<1>4. CASE job' = job
  BY <1>4, Typing DEF JobFits, Cleaned
<1> QED BY <1>2, <1>3, <1>4

LEMMA CloneOneKeeps ==
  ASSUME Bookkeeping, job.op = "clone", NEW s, UNCHANGED sizeInFrames, CloneOneSegment(s)
  PROVE  Bookkeeping'
<1> DEFINE p == job.process
           parent == proc[job.parent]
           child == proc[p]
           address == virtualAddressFromPage(s)
           size == parent.segments[s].numPages
<1>1. /\ UNCHANGED <<life, call, segmentsMap, spoiled>> /\ s \in DOMAIN parent.segments
      /\ \/ /\ allocateEmptySegmentOK(child, address, size)
            /\ Commit(p, Allocated(child, s, Private(size)), Needed(child, address, size))
            /\ job' = [job EXCEPT !.todo = @ \ {s}]
         \/ /\ Commit(p, deleteSegmentPrivate(child, address), 0)
            /\ job' = rollback(FALSE)
  BY DEF CloneOneSegment, PrivateStarts, history
<1>2. p \in Procs /\ job.parent \in Procs
  BY Typing, JobIs
<1>3. parent \in Process /\ Good(parent)
  BY <1>2, Typing
<1>4. size \in Nat \ {0} /\ InWord(address, size) /\ pageFromVA(address) = s
  <2> HIDE DEF parent
  <2> QED BY <1>1, <1>3, SegmentAddress
<1>5. (job \in ProcessJob)' /\ JobFits' /\ \A q \in Procs : Cleaned(q) => Cleaned(q)'
  BY <1>1, TurnOfClone
<1>6. ProcsShaped' /\ ProcsGood' /\ NamesKnown'
  <2>1. CASE /\ allocateEmptySegmentOK(child, address, size)
             /\ Commit(p, Allocated(child, s, Private(size)), Needed(child, address, size))
    <3> DEFINE segment == Private(size)
    <3>1. segment \in Segment /\ segment.numPages = size
      BY <1>4, PrivateIsSegment
    <3>2. /\ allocateEmptySegmentOK(proc[p], address, size)
          /\ Commit(p, Allocated(proc[p], pageFromVA(address), segment), Needed(proc[p], address, size))
      BY <1>4, <2>1
    <3> HIDE DEF segment, size, address, p
    <3> QED BY <1>2, <1>4, <1>5, <3>1, <3>2, AdmittedKept
  <2>2. CASE Commit(p, deleteSegmentPrivate(child, address), 0)
    <3> HIDE DEF p, address
    <3> QED BY <1>2, <1>5, <2>2, DeletionKept
  <2> QED BY <1>1, <2>1, <2>2
<1>7. CallsFit'
  BY <1>1, Typing DEF CallsFit
<1> QED BY <1>1, <1>5, <1>6, <1>7, Typing, Rebuilt

LEMMA CloneSharedKeeps ==
  ASSUME Bookkeeping, job.op = "clone", NEW s, UNCHANGED sizeInFrames, CloneSharedSegment(s)
  PROVE  Bookkeeping'
<1> DEFINE p == job.process
           parent == proc[job.parent]
           address == virtualAddressFromPage(s)
           size == parent.segments[s].numPages
           names == parent.virtualAddressSharedSegmentMap
           name == names[address]
<1>1. /\ UNCHANGED life /\ s \in DOMAIN parent.segments
      /\ \/ /\ address \in DOMAIN names
            /\ BeginAttach(p, address, size, name)
            /\ job' = [job EXCEPT !.todo = @ \ {s}]
         \/ /\ job' = rollback(TRUE) \/ job' = job
            /\ crashed' \in BOOLEAN
            /\ UNCHANGED <<proc, call, freeFrames, segmentsMap, spoiled>>
  BY Typing DEF CloneSharedSegment, SharedStarts, ProcsShaped
<1>2. p \in Procs /\ job.parent \in Procs
  BY Typing, JobIs
<1>3. parent \in Process /\ Good(parent)
  BY <1>2, Typing
<1>4. size \in Nat \ {0} /\ InWord(address, size) /\ address \in Nat
  <2> HIDE DEF parent
  <2> QED BY <1>1, <1>3, SegmentAddress
<1>5. (job \in ProcessJob)' /\ JobFits' /\ \A q \in Procs : Cleaned(q) => Cleaned(q)'
  BY <1>1, TurnOfClone
<1>6. CASE /\ address \in DOMAIN names
           /\ BeginAttach(p, address, size, name)
  <2>1. name \in Names
    <3>1. Known(names)
      BY <1>2, Typing DEF NamesKnown, Cleaned
    <3>2. names \in Partial(Nat, Names \cup {NoName})
      <4> HIDE DEF parent
      <4> QED BY <1>3, ProcessIs
    <3> HIDE DEF names
    <3>3. name \in Names \cup {NoName}
      BY <1>6, <3>2, PartialIs
    <3>4. name # NoName
      BY <1>6, <3>1 DEF Known
    <3> QED BY <3>3, <3>4
  <2> HIDE DEF p, address, size, name, names
  <2> QED BY <1>1, <1>2, <1>4, <1>5, <1>6, <2>1, BeginAttachKept, Typing, Rebuilt
<1>7. CASE /\ crashed' \in BOOLEAN
           /\ UNCHANGED <<proc, call, freeFrames, segmentsMap, spoiled>>
  <2>1. ProcsShaped' /\ ProcsGood' /\ CallsFit'
    BY <1>7, Typing DEF ProcsShaped, ProcsGood, CallsFit
  <2>2. NamesKnown'
    BY <1>5, <1>7, Typing DEF NamesKnown
  <2> QED BY <1>1, <1>5, <1>7, <2>1, <2>2, Typing, Rebuilt
<1> QED BY <1>1, <1>6, <1>7

LEMMA CleanUpTurnKeeps ==
  ASSUME Bookkeeping, UNCHANGED sizeInFrames, CleanUpTurn
  PROVE  Bookkeeping'
<1> DEFINE p == job.process
           pr == proc[p]
           names == pr.virtualAddressSharedSegmentMap
           looked(s) == Emplace(names, virtualAddressFromPage(s), NoName)
<1>1. PICK s \in DOMAIN pr.segments :
        \/ /\ Commit(p, deleteSegmentPrivate(pr, virtualAddressFromPage(s)), 0)
           /\ UNCHANGED <<life, call, segmentsMap, job, spoiled>>
        \/ /\ proc' = [proc EXCEPT ![p].virtualAddressSharedSegmentMap = looked(s)]
           /\ \/ BeginDisconnect(p, looked(s)[virtualAddressFromPage(s)])
              \/ UNCHANGED <<life, call, freeFrames, segmentsMap, job, crashed, spoiled>>
  BY DEF CleanUpTurn, history
<1>2. job.op \in {"destroy", "rollback"} /\ p \in Procs /\ UNCHANGED misuses
  BY Typing, JobIs DEF CleanUpTurn
<1>3. pr \in Process /\ Good(pr)
  BY <1>2, Typing
<1>4. CASE /\ Commit(p, deleteSegmentPrivate(pr, virtualAddressFromPage(s)), 0)
           /\ UNCHANGED <<life, call, segmentsMap, job, spoiled>>
  <2> DEFINE address == virtualAddressFromPage(s)
  <2>1. Commit(p, deleteSegmentPrivate(proc[p], address), 0)
    BY <1>4
  <2> HIDE DEF p, address
  <2> QED BY <1>2, <1>4, <2>1, DeletionKeeps DEF history
<1>5. CASE /\ proc' = [proc EXCEPT ![p].virtualAddressSharedSegmentMap = looked(s)]
           /\ \/ BeginDisconnect(p, looked(s)[virtualAddressFromPage(s)])
              \/ UNCHANGED <<life, call, freeFrames, segmentsMap, job, crashed, spoiled>>
  <2> DEFINE address == virtualAddressFromPage(s)
             f == pr.sharedSegmentVirtualAddressMap
             g == looked(s)
             n == g[address]
  <2>1. BeginDisconnect(p, n) \/ UNCHANGED <<life, call, freeFrames, segmentsMap, job, crashed, spoiled>>
    BY <1>5
  <2>2. UNCHANGED <<life, freeFrames, job, crashed>>
    BY <2>1 DEF BeginDisconnect
  <2>3. f \in Partial(Names, Nat) /\ g \in Partial(Nat, Names \cup {NoName})
    <3>1. f \in Partial(Names, Nat) /\ names \in Partial(Nat, Names \cup {NoName})
      <4> HIDE DEF pr
      <4> QED BY <1>3, ProcessIs
    <3>2. address \in Nat
      <4> HIDE DEF pr
      <4> QED BY <1>1, <1>3, SegmentAddress
    <3> HIDE DEF names, address
    <3>3. NoName \in Names \cup {NoName}
      OBVIOUS
    <3>4. Emplace(names, address, NoName) \in Partial(Nat, Names \cup {NoName})
      BY <3>1, <3>2, <3>3, PartialMaps
    <3> QED BY <3>1, <3>4 DEF address
  <2>4. proc' = [proc EXCEPT ![p] = Renamed(proc[p], f, g)]
    <3>1. pr = [segments |-> pr.segments, allocated |-> pr.allocated, pmt1 |-> pr.pmt1,
                sharedSegmentVirtualAddressMap |-> f,
                virtualAddressSharedSegmentMap |-> pr.virtualAddressSharedSegmentMap]
      <4> HIDE DEF pr
      <4> QED BY <1>3, ProcessIs
    <3>2. ASSUME NEW new, new = [pr EXCEPT !.virtualAddressSharedSegmentMap = g]
          PROVE  new = Renamed(pr, f, g)
      <4> HIDE DEF g, f, pr
      <4> QED BY <3>1, <3>2 DEF Renamed
    <3>3. proc' = [proc EXCEPT ![p] = [pr EXCEPT !.virtualAddressSharedSegmentMap = g]]
      <4>1. proc \in [Procs -> Process]
        BY Typing DEF ProcsShaped
      <4> HIDE DEF g, p
      <4> QED BY <1>2, <1>5, <4>1 DEF g
    <3> QED BY <3>2, <3>3
  <2>5. \A q \in Procs : Cleaned(q) => Cleaned(q)'
    BY <2>2 DEF Cleaned
  <2>6. PICK q \in Procs : q = p
    BY <1>2
  <2>7. ProcsShaped' /\ ProcsGood' /\ NamesKnown'
    <3>1. Cleaned(q)'
      BY <1>2, <2>2, <2>6 DEF Cleaned
    <3>2. proc' = [proc EXCEPT ![q] = Renamed(proc[q], f, g)]
      BY <2>4, <2>6
    <3> HIDE DEF f, g, p
    <3> QED BY <2>2, <2>3, <2>5, <3>1, <3>2, NamesKept
  <2>8. JobFits'
    BY <2>2, Typing DEF JobFits
  <2>9. CASE BeginDisconnect(p, n)
    <3> HIDE DEF p, n
    <3> QED BY <1>2, <2>2, <2>7, <2>8, <2>9, BeginDisconnectKept, Typing, Rebuilt DEF Manager
  <2>10. CASE UNCHANGED <<life, call, freeFrames, segmentsMap, job, crashed, spoiled>>
    <3>1. CallsFit'
      BY <2>10, Typing DEF CallsFit
    <3> QED BY <2>7, <2>8, <2>10, <3>1, Typing, Rebuilt
  <2> QED BY <2>1, <2>9, <2>10
<1> QED BY <1>1, <1>4, <1>5


---------------------------------------------------------------------------
(* The bookkeeping holds in every state.                                   *)

LEMMA InitBookkeeping ==
  ASSUME Init
  PROVE  Bookkeeping
<1>1. /\ life = [p \in Procs |-> "unborn"] /\ proc = [p \in Procs |-> NewProcess]
      /\ call = [p \in Procs |-> Idle] /\ sizeInFrames \in PMTSizes /\ freeFrames = sizeInFrames
      /\ segmentsMap = EmptyMap /\ job = NoJob /\ crashed = FALSE /\ spoiled = {}
  BY DEF Init
<1>2. proc \in [Procs -> Process] /\ freeFrames \in Nat /\ crashed \in BOOLEAN
  BY <1>1, NewProcessGood, CallsAssumption
<1>3. \A p \in Procs : proc[p] = NewProcess
  BY <1>1
<1>4. ProcsGood /\ NamesKnown
  BY <1>3, NewProcessGood DEF ProcsGood, NamesKnown
<1>5. Idle \in SegmentCall /\ Idle.op # "attach"
  BY DEF SegmentCall, Idle
<1>6. call \in [Procs -> SegmentCall] /\ CallsFit
  BY <1>1, <1>5 DEF CallsFit
<1>7. NoJob \in ProcessJob /\ NoJob.op = "none"
  BY DEF ProcessJob, NoJob
<1>8. life \in [Procs -> Stages] /\ JobFits
  BY <1>1, <1>7 DEF Stages, JobFits
<1>9. segmentsMap \in Partial(Names, [size : Nat \ {0}, owners : SUBSET Procs])
  BY <1>1, EmptyMapIs
<1> QED BY <1>1, <1>2, <1>4, <1>6, <1>7, <1>8, <1>9 DEF Bookkeeping, Shaped

LEMMA StutterKeeps ==
  ASSUME Bookkeeping, UNCHANGED vars
  PROVE  Bookkeeping'
<1>1. UNCHANGED <<life, proc, call, sizeInFrames, freeFrames, segmentsMap, job, crashed, spoiled>>
  BY DEF vars, history
<1>2. ProcsShaped' /\ ProcsGood' /\ NamesKnown' /\ JobFits' /\ CallsFit'
  BY <1>1, Typing DEF ProcsShaped, ProcsGood, NamesKnown, Cleaned, JobFits, CallsFit
<1> QED BY <1>1, <1>2, Typing, Rebuilt

\* Every step is one of these.
Steps ==
  \/ \E p \in Procs : CreateProcess(p) \/ DestroyProcess(p) \/ LoadContent(p) \/ LoadFails(p)
                      \/ Attach(p) \/ AttachFails(p) \/ AttachToFreed(p) \/ Detach(p)
                      \/ DisconnectAgain(p) \/ EraseRefused(p)
  \/ \E p \in Procs, child \in Procs : CloneProcess(p, child)
  \/ \E p \in Procs, address \in Addresses : DeleteSegment(p, address)
  \/ \E p \in Procs, address \in Addresses, size \in Sizes :
       \/ CreateSegment(p, address, size) \/ LoadSegment(p, address, size)
       \/ RefuseSegment(p, address, size)
  \/ \E p \in Procs, address \in Addresses, size \in Sizes, name \in Names :
       CreateSharedSegment(p, address, size, name)
  \/ \E p \in Procs, name \in Names : DisconnectSharedSegment(p, name) \/ DeleteSharedSegment(p, name)
  \/ /\ job.op = "clone" /\ call[job.process] = Idle
     /\ \E s : CloneOneSegment(s) \/ CloneSharedSegment(s)
  \/ CloneDone \/ CleanUpTurn \/ CleanUpDone

LEMMA NextIsSteps ==
  ASSUME Next
  PROVE  Steps /\ UNCHANGED sizeInFrames
BY DEF Next, Steps, Returns, Job, CloneTurn

LEMMA BookkeepingInductive ==
  ASSUME NoWrap, Bookkeeping, [Next]_vars
  PROVE  Bookkeeping'
<1>1. CASE UNCHANGED vars
  BY <1>1, StutterKeeps
<1>2. CASE Next
  <2>1. Steps /\ UNCHANGED sizeInFrames
    BY <1>2, NextIsSteps
  <2>2. CASE \E p \in Procs : CreateProcess(p) \/ DestroyProcess(p) \/ LoadContent(p) \/ LoadFails(p)
                              \/ Attach(p) \/ AttachFails(p) \/ AttachToFreed(p) \/ Detach(p)
                              \/ DisconnectAgain(p) \/ EraseRefused(p)
    <3>1. PICK p \in Procs : CreateProcess(p) \/ DestroyProcess(p) \/ LoadContent(p) \/ LoadFails(p)
                             \/ Attach(p) \/ AttachFails(p) \/ AttachToFreed(p) \/ Detach(p)
                             \/ DisconnectAgain(p) \/ EraseRefused(p)
      BY <2>2
    <3>2. LoadFails(p) => Bookkeeping'
      BY <2>1, DeletionKeeps DEF LoadFails
    <3> QED BY <2>1, <3>1, <3>2, CreateProcessKeeps, DestroyProcessKeeps, LoadContentKeeps,
               AttachKeeps, AttachFailsKeeps, DisconnectAgainKeeps, EraseRefusedKeeps,
               AttachToFreedKeeps, DetachKeeps
  <2>3. CASE \E p \in Procs, child \in Procs : CloneProcess(p, child)
    BY <2>1, <2>3, CloneProcessKeeps
  <2>4. CASE \E p \in Procs, address \in Addresses : DeleteSegment(p, address)
    BY <2>1, <2>4, DeletionKeeps DEF DeleteSegment
  <2>5. CASE \E p \in Procs, address \in Addresses, size \in Sizes :
               \/ CreateSegment(p, address, size) \/ LoadSegment(p, address, size)
               \/ RefuseSegment(p, address, size)
    BY <2>1, <2>5, PrivateCallsKeep
  <2>6. CASE \E p \in Procs, address \in Addresses, size \in Sizes, name \in Names :
               CreateSharedSegment(p, address, size, name)
    BY <2>1, <2>6, CreateSharedKeeps
  <2>7. CASE \E p \in Procs, name \in Names : DisconnectSharedSegment(p, name) \/ DeleteSharedSegment(p, name)
    BY <2>1, <2>7, DisconnectSharedKeeps, DeleteSharedKeeps
  <2>8. CASE /\ job.op = "clone" /\ call[job.process] = Idle
             /\ \E s : CloneOneSegment(s) \/ CloneSharedSegment(s)
    BY <2>1, <2>8, CloneOneKeeps, CloneSharedKeeps
  <2>9. CASE CloneDone \/ CleanUpTurn \/ CleanUpDone
    BY <2>1, <2>9, CloneDoneKeeps, CleanUpTurnKeeps, CleanUpDoneKeeps
  <2> QED BY <2>1, <2>2, <2>3, <2>4, <2>5, <2>6, <2>7, <2>8, <2>9 DEF Steps
<1> QED BY <1>1, <1>2

LEMMA BookkeepingKept ==
  ASSUME NoWrap
  PROVE  Spec => []Bookkeeping
<1>1. Init => Bookkeeping
  BY InitBookkeeping
<1>2. Bookkeeping /\ [Next]_vars => Bookkeeping'
  BY BookkeepingInductive
<1> QED BY <1>1, <1>2, PTL DEF Spec

\* A page is allocated exactly when one segment covers it, over failed
\* creations, rolled back clones and calls cut by others
\* (KernelProcess::allocateEmptySegment, deleteSegmentImpl).
THEOREM EveryPageHasOneSegment ==
  ASSUME NoWrap
  PROVE  Spec => []PagesOwned
<1>1. Bookkeeping => PagesOwned
  BY Typing DEF Good, Owned, Span, PagesOwned
<1> QED BY <1>1, BookkeepingKept, PTL

\* pmt1 counts the allocated pages of each second-level table and is valid
\* while there is one.
THEOREM TablesAreCounted ==
  ASSUME NoWrap
  PROVE  Spec => []TablesCount
<1>1. Bookkeeping => TablesCount
  BY Typing DEF Good, Counted, Used, TablesCount
<1> QED BY <1>1, BookkeepingKept, PTL


---------------------------------------------------------------------------
(* Private segments stay.                                                  *)

Kept(p, s) == s \in DOMAIN proc'[p].segments /\ proc'[p].segments[s] = proc[p].segments[s]
Excused(p, s) == life[p] # "live" \/ NamedIn(p, s)
PrivateStep ==
  \A p \in Procs : \A s \in PrivateStarts(proc[p]) : Kept(p, s) \/ Excused(p, s)

LEMMA OneChanges ==
  ASSUME Bookkeeping, NEW p \in Procs, NEW new, proc' = [proc EXCEPT ![p] = new],
         \A s \in PrivateStarts(proc[p]) :
           Excused(p, s) \/ (s \in DOMAIN new.segments /\ new.segments[s] = proc[p].segments[s])
  PROVE  PrivateStep
<1>1. proc'[p] = new /\ \A q \in Procs \ {p} : proc'[q] = proc[q]
  BY Typing DEF ProcsShaped
<1>2. ASSUME NEW q \in Procs, NEW s \in PrivateStarts(proc[q]), q # p
      PROVE  Kept(q, s)
  BY <1>1, <1>2 DEF Kept, PrivateStarts
<1>3. ASSUME NEW s \in PrivateStarts(proc[p])
      PROVE  Kept(p, s) \/ Excused(p, s)
  BY <1>1 DEF Kept
<1> QED BY <1>2, <1>3 DEF PrivateStep

LEMMA NoneChanges ==
  ASSUME UNCHANGED proc
  PROVE  PrivateStep
BY DEF PrivateStep, Kept, PrivateStarts

LEMMA AdmittedStays ==
  ASSUME Bookkeeping, NEW p \in Procs, NEW address, NEW size, InWord(address, size),
         allocateEmptySegmentOK(proc[p], address, size),
         NEW segment \in Segment, segment.numPages = size, NEW taken,
         Commit(p, Allocated(proc[p], pageFromVA(address), segment), taken)
  PROVE  PrivateStep
<1> DEFINE pr == proc[p]
           new == Allocated(pr, pageFromVA(address), segment)
<1>1. pr \in Process /\ Good(pr) /\ allocateEmptySegmentOK(pr, address, size)
  BY Typing
<1>2. Stay(pr, new, DOMAIN pr.segments)
  <2> HIDE DEF pr
  <2> QED BY <1>1, AdmittedGood
<1>3. proc' = [proc EXCEPT ![p] = new]
  BY DEF Commit
<1>4. \A s \in PrivateStarts(proc[p]) :
        Excused(p, s) \/ (s \in DOMAIN new.segments /\ new.segments[s] = proc[p].segments[s])
  <2> HIDE DEF new
  <2> QED BY <1>2 DEF Stay, PrivateStarts
<1> HIDE DEF new
<1> QED BY <1>3, <1>4, OneChanges

\* A deletion that is asked for by address, or in a process that is not live
LEMMA DeletionStays ==
  ASSUME Bookkeeping, NEW p \in Procs, NEW address,
         Commit(p, deleteSegmentPrivate(proc[p], address), 0),
         life[p] # "live" \/ \A s : Starts(address) = {s} => NamedIn(p, s)
  PROVE  PrivateStep
<1> DEFINE pr == proc[p]
           new == deleteSegmentPrivate(pr, address)
<1>1. pr \in Process /\ Good(pr)
  BY Typing
<1>2. Stay(pr, new, DOMAIN pr.segments \ Starts(address))
  <2> HIDE DEF pr
  <2> QED BY <1>1, PrivateDeletedGood
<1>3. proc' = [proc EXCEPT ![p] = new]
  BY DEF Commit
<1>4. ASSUME NEW s \in PrivateStarts(proc[p])
      PROVE  Excused(p, s) \/ (s \in DOMAIN new.segments /\ new.segments[s] = proc[p].segments[s])
  <2>1. CASE s \in Starts(address)
    BY <2>1, StartsAre DEF Excused
  <2>2. CASE s \notin Starts(address)
    <3> HIDE DEF new
    <3> QED BY <1>2, <2>2 DEF Stay, PrivateStarts
  <2> QED BY <2>1, <2>2
<1> HIDE DEF new
<1> QED BY <1>3, <1>4, OneChanges

LEMMA PrivateCallsStay ==
  ASSUME NoWrap, Bookkeeping, NEW p \in Procs, NEW address \in Addresses, NEW size \in Sizes,
         \/ CreateSegment(p, address, size) \/ LoadSegment(p, address, size)
         \/ RefuseSegment(p, address, size)
  PROVE  PrivateStep
<1>1. CASE CreateSegment(p, address, size) \/ LoadSegment(p, address, size)
  <2> DEFINE segment == Private(size)
             taken == Needed(proc[p], address, size)
  <2>1. /\ allocateEmptySegmentOK(proc[p], address, size)
        /\ Commit(p, Allocated(proc[p], pageFromVA(address), segment), taken)
    BY <1>1 DEF CreateSegment, LoadSegment, AllocatePrivate
  <2>2. InWord(address, size) /\ segment \in Segment /\ segment.numPages = size
    BY PrivateIsSegment DEF NoWrap, InWord
  <2> HIDE DEF segment, taken
  <2> QED BY <2>1, <2>2, AdmittedStays
<1>2. CASE RefuseSegment(p, address, size)
  <2>1. Commit(p, deleteSegmentPrivate(proc[p], address), 0)
    BY <1>2 DEF RefuseSegment
  <2>2. \A s : Starts(address) = {s} => NamedIn(p, s)
    BY <1>2 DEF NamedIn
  <2> QED BY <2>1, <2>2, DeletionStays
<1> QED BY <1>1, <1>2

LEMMA DeleteAndLoadStay ==
  ASSUME Bookkeeping, NEW p \in Procs,
         LoadFails(p) \/ \E address \in Addresses : DeleteSegment(p, address)
  PROVE  PrivateStep
<1>1. CASE LoadFails(p)
  <2>1. Commit(p, deleteSegmentPrivate(proc[p], call[p].address), 0)
    BY <1>1 DEF LoadFails
  <2>2. \A s : Starts(call[p].address) = {s} => NamedIn(p, s)
    BY <1>1 DEF NamedIn
  <2> QED BY <2>1, <2>2, DeletionStays
<1>2. CASE \E address \in Addresses : DeleteSegment(p, address)
  <2>1. PICK address \in Addresses : DeleteSegment(p, address)
    BY <1>2
  <2>2. Commit(p, deleteSegmentPrivate(proc[p], address), 0)
    BY <2>1 DEF DeleteSegment
  <2>3. \A s : Starts(address) = {s} => NamedIn(p, s)
    BY <2>1 DEF NamedIn
  <2> QED BY <2>2, <2>3, DeletionStays
<1> QED BY <1>1, <1>2

LEMMA AttachStays ==
  ASSUME Bookkeeping, NEW p \in Procs, Attach(p)
  PROVE  PrivateStep
<1> DEFINE c == call[p]
           segment == [numPages |-> c.size, isShared |-> TRUE, name |-> c.name, dangling |-> c.dangling]
           taken == Needed(proc[p], c.address, c.size)
<1>1. /\ c.op = "attach" /\ allocateEmptySegmentOK(proc[p], c.address, c.size)
      /\ Commit(p, Allocated(proc[p], pageFromVA(c.address), segment), taken)
  BY DEF Attach
<1>2. c \in SegmentCall /\ InWord(c.address, c.size)
  BY <1>1, Typing DEF CallsFit
<1> HIDE DEF c
<1>3. segment \in Segment /\ segment.numPages = c.size
  BY <1>1, <1>2, CallIs DEF Segment
<1> HIDE DEF segment, taken
<1> QED BY <1>1, <1>2, <1>3, AdmittedStays

\* Writing the name maps leaves the segments, and a disconnect leaves the
\* private ones.
LEMMA RefusedStays ==
  ASSUME Bookkeeping, NEW p \in Procs, AttachFails(p) \/ DisconnectAgain(p) \/ EraseRefused(p)
  PROVE  PrivateStep
<1> DEFINE c == call[p]
           pr == proc[p]
           gone == Disconnected(pr, c.name)
           bare == Erased(pr, c.address, c.name)
           refused == Refused(pr, c.address, c.name)
<1>1. c.name \in Names /\ pr \in Process /\ Good(pr)
  BY Typing, CallIs DEF AttachFails, DisconnectAgain, EraseRefused
<1>2. /\ Stay(pr, gone, PrivateStarts(pr)) /\ Stay(pr, refused, PrivateStarts(pr))
      /\ bare.segments = pr.segments
  <2> HIDE DEF pr, c
  <2> QED BY <1>1, DisconnectedGood, RefusedGood, ErasedGood
<1>3. Stay(pr, bare, PrivateStarts(pr))
  BY <1>2 DEF Stay, PrivateStarts
<1>4. UNCHANGED proc \/ \E new \in {gone, bare, refused} : proc' = [proc EXCEPT ![p] = new]
  BY DEF AttachFails, DisconnectAgain, EraseRefused, Commit, Refused
<1> HIDE DEF gone, bare, refused
<1>5. ASSUME NEW new \in {gone, bare, refused}, proc' = [proc EXCEPT ![p] = new]
      PROVE  PrivateStep
  <2>1. \A s \in PrivateStarts(proc[p]) :
          Excused(p, s) \/ (s \in DOMAIN new.segments /\ new.segments[s] = proc[p].segments[s])
    BY <1>2, <1>3, <1>5 DEF Stay
  <2> QED BY <1>5, <2>1, OneChanges
<1> QED BY <1>4, <1>5, NoneChanges


LEMMA DetachStays ==
  ASSUME Bookkeeping, NEW p \in Procs, Detach(p)
  PROVE  PrivateStep
<1> DEFINE c == call[p]
           pr == proc[p]
           gone == Disconnected(pr, c.name)
           kept == [gone EXCEPT !.sharedSegmentVirtualAddressMap = pr.sharedSegmentVirtualAddressMap]
<1>1. proc' = [proc EXCEPT ![p] = gone] \/ proc' = [proc EXCEPT ![p] = kept]
  BY DEF Detach, Commit
<1>2. c.name \in Names /\ pr \in Process /\ Good(pr)
  BY Typing, CallIs DEF Detach
<1>3. gone \in Process /\ Stay(pr, gone, PrivateStarts(pr))
  <2> HIDE DEF pr, c
  <2> QED BY <1>2, DisconnectedGood
<1>4. kept.segments = gone.segments
  <2>1. \A r \in Process : \A f : [r EXCEPT !.sharedSegmentVirtualAddressMap = f].segments = r.segments
    BY DEF Process
  <2> HIDE DEF gone
  <2> QED BY <1>3, <2>1
<1>5. PICK new : proc' = [proc EXCEPT ![p] = new] /\ new.segments = gone.segments
  BY <1>1, <1>4
<1>6. \A s \in PrivateStarts(proc[p]) :
        Excused(p, s) \/ (s \in DOMAIN new.segments /\ new.segments[s] = proc[p].segments[s])
  <2> HIDE DEF gone
  <2> QED BY <1>3, <1>5 DEF Stay
<1> QED BY <1>5, <1>6, OneChanges

LEMMA BeginAttachStays ==
  ASSUME Bookkeeping, NEW p \in Procs, NEW address, NEW size, NEW name,
         BeginAttach(p, address, size, name)
  PROVE  PrivateStep
<1> DEFINE f == Emplace(proc[p].sharedSegmentVirtualAddressMap, name, address)
           g == Emplace(proc[p].virtualAddressSharedSegmentMap, address, name)
<1>1. proc' = [proc EXCEPT ![p].sharedSegmentVirtualAddressMap = f,
                           ![p].virtualAddressSharedSegmentMap = g]
  BY DEF BeginAttach
<1>2. proc \in [Procs -> Process]
  BY Typing DEF ProcsShaped
<1> HIDE DEF f, g
<1>3. \A q \in Procs : proc'[q].segments = proc[q].segments
  <2>1. proc' = [proc EXCEPT ![p] = [proc[p] EXCEPT !.sharedSegmentVirtualAddressMap = f,
                                                    !.virtualAddressSharedSegmentMap = g]]
    BY <1>1, <1>2
  <2>2. \A r \in Process :
          [r EXCEPT !.sharedSegmentVirtualAddressMap = f,
                    !.virtualAddressSharedSegmentMap = g].segments = r.segments
    BY DEF Process
  <2>3. proc[p] \in Process
    BY <1>2
  <2> QED BY <1>2, <2>1, <2>2, <2>3
<1> QED BY <1>3 DEF PrivateStep, Kept, PrivateStarts

LEMMA DeleteSharedStays ==
  ASSUME Bookkeeping, NEW p \in Procs, NEW name \in Names, DeleteSharedSegment(p, name)
  PROVE  PrivateStep
<1> DEFINE dangles(q) == AttachedTo(proc[q], name)
<1>1. UNCHANGED proc \/ proc' = [q \in Procs |-> Freed(proc[q], dangles(q))]
  BY DEF DeleteSharedSegment
<1> HIDE DEF dangles
<1>2. CASE proc' = [q \in Procs |-> Freed(proc[q], dangles(q))]
  <2>1. ASSUME NEW q \in Procs, NEW s \in PrivateStarts(proc[q])
        PROVE  Kept(q, s)
    <3> DEFINE pr == proc[q]
               D == dangles(q)
    <3>1. pr \in Process /\ Good(pr) /\ proc'[q] = Freed(pr, D)
      BY <1>2, Typing
    <3>2. s \in DOMAIN pr.segments \ D
      BY <2>1 DEF dangles, AttachedTo, PrivateStarts
    <3> HIDE DEF pr, D
    <3>3. Stay(pr, Freed(pr, D), DOMAIN pr.segments \ D)
      BY <3>1, FreedGood
    <3> QED BY <3>1, <3>2, <3>3 DEF Stay, Kept, pr
  <2> QED BY <2>1 DEF PrivateStep
<1> QED BY <1>1, <1>2, NoneChanges

\* The loops under ksMutex change no live process.
LEMMA JobStays ==
  ASSUME Bookkeeping, job.op # "none", \A q \in Procs : q # job.process => proc'[q] = proc[q]
  PROVE  PrivateStep
<1>1. ASSUME NEW p \in Procs, NEW s \in PrivateStarts(proc[p])
      PROVE  Kept(p, s) \/ Excused(p, s)
  <2>1. CASE p # job.process
    BY <1>1, <2>1 DEF Kept, PrivateStarts
  <2>2. CASE p = job.process
    <3>1. job.op \in {"clone", "rollback", "destroy"}
      BY Typing, JobIs
    <3> QED BY <2>2, <3>1, Typing DEF JobFits, Excused
  <2> QED BY <2>1, <2>2
<1> QED BY <1>1 DEF PrivateStep

LEMMA PrivateStays ==
  ASSUME NoWrap, Bookkeeping, [Next]_vars
  PROVE  PrivateStep
<1>1. CASE UNCHANGED vars
  BY <1>1, NoneChanges DEF vars
<1>2. CASE Next
  <2>1. Steps
    BY <1>2, NextIsSteps
  <2>2. CASE \E p \in Procs : CreateProcess(p) \/ DestroyProcess(p) \/ LoadContent(p) \/ LoadFails(p)
                              \/ Attach(p) \/ AttachFails(p) \/ AttachToFreed(p) \/ Detach(p)
                              \/ DisconnectAgain(p) \/ EraseRefused(p)
    <3>1. PICK p \in Procs : CreateProcess(p) \/ DestroyProcess(p) \/ LoadContent(p) \/ LoadFails(p)
                             \/ Attach(p) \/ AttachFails(p) \/ AttachToFreed(p) \/ Detach(p)
                             \/ DisconnectAgain(p) \/ EraseRefused(p)
      BY <2>2
    <3>2. CreateProcess(p) \/ DestroyProcess(p) \/ LoadContent(p) \/ AttachToFreed(p) => UNCHANGED proc
      BY DEF CreateProcess, DestroyProcess, LoadContent, AttachToFreed
    <3> QED BY <3>1, <3>2, NoneChanges, DeleteAndLoadStay, AttachStays, RefusedStays, DetachStays
  <2>3. CASE \E p \in Procs, child \in Procs : CloneProcess(p, child)
    <3>1. UNCHANGED proc
      BY <2>3 DEF CloneProcess
    <3> QED BY <3>1, NoneChanges
  <2>4. CASE \E p \in Procs, address \in Addresses : DeleteSegment(p, address)
    BY <2>4, DeleteAndLoadStay
  <2>5. CASE \E p \in Procs, address \in Addresses, size \in Sizes :
               \/ CreateSegment(p, address, size) \/ LoadSegment(p, address, size)
               \/ RefuseSegment(p, address, size)
    BY <2>5, PrivateCallsStay
  <2>6. CASE \E p \in Procs, address \in Addresses, size \in Sizes, name \in Names :
               CreateSharedSegment(p, address, size, name)
    BY <2>6, BeginAttachStays DEF CreateSharedSegment
  <2>7. CASE \E p \in Procs, name \in Names : DisconnectSharedSegment(p, name) \/ DeleteSharedSegment(p, name)
    <3>1. PICK p \in Procs, name \in Names : DisconnectSharedSegment(p, name) \/ DeleteSharedSegment(p, name)
      BY <2>7
    <3>2. DisconnectSharedSegment(p, name) => UNCHANGED proc
      BY DEF DisconnectSharedSegment
    <3> QED BY <3>1, <3>2, NoneChanges, DeleteSharedStays
  <2>8. CASE /\ job.op = "clone" /\ call[job.process] = Idle
             /\ \E s : CloneOneSegment(s) \/ CloneSharedSegment(s)
    <3>1. PICK s : CloneOneSegment(s) \/ CloneSharedSegment(s)
      BY <2>8
    <3>2. CASE CloneOneSegment(s)
      <4>1. \E new : proc' = [proc EXCEPT ![job.process] = new]
        BY <3>2 DEF CloneOneSegment, Commit
      <4> QED BY <2>8, <4>1, JobStays, Typing DEF ProcsShaped
    <3>3. CASE CloneSharedSegment(s)
      <4>1. UNCHANGED proc \/ \E a, b, n : BeginAttach(job.process, a, b, n)
        BY <3>3 DEF CloneSharedSegment
      <4>2. job.process \in Procs
        BY <2>8, Typing, JobIs
      <4> QED BY <4>1, <4>2, NoneChanges, BeginAttachStays
    <3> QED BY <3>1, <3>2, <3>3
  <2>9. CASE CloneDone
    BY <2>9, NoneChanges DEF CloneDone
  <2>10. CASE CleanUpTurn
    <3>1. job.op # "none"
      BY <2>10 DEF CleanUpTurn
    <3>2. \/ \E new : proc' = [proc EXCEPT ![job.process] = new]
          \/ \E m : proc' = [proc EXCEPT ![job.process].virtualAddressSharedSegmentMap = m]
      BY <2>10 DEF CleanUpTurn, Commit
    <3>3. \A q \in Procs : q # job.process => proc'[q] = proc[q]
      BY <3>2, Typing DEF ProcsShaped
    <3> QED BY <3>1, <3>3, JobStays
  <2>11. CASE CleanUpDone
    <3>1. job.op # "none" /\ proc' = [proc EXCEPT ![job.process] = NewProcess]
      BY <2>11 DEF CleanUpDone
    <3>2. \A q \in Procs : q # job.process => proc'[q] = proc[q]
      BY <3>1, Typing DEF ProcsShaped
    <3> QED BY <3>1, <3>2, JobStays
  <2> QED BY <2>1, <2>2, <2>3, <2>4, <2>5, <2>6, <2>7, <2>8, <2>9, <2>10, <2>11 DEF Steps
<1> QED BY <1>1, <1>2

\* A private segment of a live process goes away only in a call that names its
\* own start, whatever happens to shared segments and other processes.
THEOREM PrivateSegmentsStay ==
  ASSUME NoWrap
  PROVE  Spec => PrivateKept
<1>1. Bookkeeping /\ [Next]_vars => PrivateStep
  BY PrivateStays
<1>2. PrivateStep <=> \A p \in Procs : \A s \in PrivateStarts(proc[p]) :
                        \/ s \in DOMAIN proc'[p].segments /\ proc'[p].segments[s] = proc[p].segments[s]
                        \/ life[p] # "live"
                        \/ NamedIn(p, s)
  BY DEF PrivateStep, Kept, Excused
<1> QED BY <1>1, <1>2, BookkeepingKept, PTL DEF Spec, PrivateKept


---------------------------------------------------------------------------
(* getNumOfPMT2ToBeAllocated probes every 2^Page1BitNum pages where a table *)
(* has 2^Page2BitNum: it counts right when the two fields have one width,   *)
(* as they have in splitter.h.                                              *)

SameWidth == Page1BitNum = Page2BitNum

LEMMA DivisionMonotone ==
  ASSUME NEW b \in Nat \ {0}, NEW x \in Nat, NEW y \in Nat, x <= y
  PROVE  x \div b <= y \div b
OBVIOUS

\* The multiple of b that the probes stop at
LEMMA Ceiling ==
  ASSUME NEW b \in Nat \ {0}, NEW e \in Nat \ {0}
  PROVE  LET k == IF e % b = 0 THEN e \div b ELSE e \div b + 1
         IN  k \in Nat \ {0} /\ (k - 1) * b < e /\ e <= k * b
<1> DEFINE q == e \div b
           r == e % b
<1>1. q \in Nat /\ r \in 0 .. b - 1 /\ e = q * b + r
  BY Quotient
<1> HIDE DEF q, r
<1>2. (q - 1) * b = q * b - b /\ (q + 1) * b = q * b + b /\ q * b \in Nat
  BY <1>1
<1>3. r = 0 => q # 0
  BY <1>1
<1>4. r = 0 => q \in Nat \ {0} /\ (q - 1) * b < e /\ e <= q * b
  BY <1>1, <1>2, <1>3
<1>5. r # 0 => q + 1 \in Nat \ {0} /\ (q + 1 - 1) * b < e /\ e <= (q + 1) * b
  BY <1>1, <1>2
<1> QED BY <1>1, <1>4, <1>5 DEF q, r

\* The first multiple of b that is not below e
Limit(b, e, m) ==
  /\ m \in Nat
  /\ \E k \in Nat \ {0} : m = k * b /\ (k - 1) * b < e /\ e <= m

\* A page of the segment is in the table of page i; a probe is.
Meets(b, s, e, i) == \E j \in s .. e - 1 : j \div b = i \div b
Probed(b, s, limit, j) == \E i \in s .. limit - 1 : (i - s) % b = 0 /\ i \div b = j \div b

\* A probe meets a table of the segment ...
LEMMA ProbeInside ==
  ASSUME NEW b \in Nat \ {0}, NEW s \in Nat, NEW e \in Nat, s < e,
         NEW limit, Limit(b, e, limit), NEW i \in s .. limit - 1
  PROVE  Meets(b, s, e, i)
<1> PICK k \in Nat \ {0} : limit = k * b /\ (k - 1) * b < e /\ e <= limit
  BY DEF Limit
<1> k * b \in Nat
  OBVIOUS
<1>1. CASE i < e
  <2>1. i \in s .. e - 1
    BY <1>1
  <2>2. i \div b = i \div b
    OBVIOUS
  <2> QED BY <2>1, <2>2, Zenon DEF Meets
<1>2. CASE i >= e
  <2> DEFINE m == k - 1
             x == i - m * b
             y == e - 1 - m * b
  <2>1. m \in Nat /\ k * b = m * b + b /\ m * b \in Nat
    BY DEF m
  <2>2. m * b < e
    BY DEF m
  <2> HIDE DEF m
  <2>3. x \in 0 .. b - 1 /\ i = m * b + x
    BY <1>2, <2>1, <2>2
  <2>4. y \in 0 .. b - 1 /\ e - 1 = m * b + y
    BY <1>2, <2>1, <2>2
  <2> HIDE DEF x, y
  <2>5. i \div b = m
    BY <2>1, <2>3, QuotientOf
  <2>6. (e - 1) \div b = m
    BY <2>1, <2>4, QuotientOf
  <2>7. e - 1 \in s .. e - 1
    OBVIOUS
  <2>8. (e - 1) \div b = i \div b
    BY <2>5, <2>6
  <2> QED BY <2>7, <2>8, Zenon DEF Meets
<1> QED BY <1>1, <1>2

\* ... two probes meet different tables ...
LEMMA ProbesDiffer ==
  ASSUME NEW b \in Nat \ {0}, NEW s \in Nat, NEW i \in Nat, NEW j \in Nat, s <= i, s <= j,
         (i - s) % b = 0, (j - s) % b = 0, i \div b = j \div b
  PROVE  i = j
<1> DEFINE x == (i - s) \div b
           y == (j - s) \div b
           q == i \div b
           u == i % b
           v == j % b
<1>1. i - s \in Nat /\ j - s \in Nat
  OBVIOUS
<1>2. x \in Nat /\ i - s = x * b + 0
  BY <1>1, Quotient
<1>3. y \in Nat /\ j - s = y * b + 0
  BY <1>1, Quotient
<1>4. q \in Nat /\ u \in 0 .. b - 1 /\ i = q * b + u
  BY Quotient
<1>5. v \in 0 .. b - 1 /\ j = q * b + v
  BY Quotient
<1> HIDE DEF x, y, q, u, v
<1>6. x * b \in Nat /\ y * b \in Nat /\ q * b \in Nat
  BY <1>2, <1>3, <1>4
<1>7. x * b - y * b < b /\ y * b - x * b < b
  BY <1>2, <1>3, <1>4, <1>5, <1>6
<1>8. x <= y
  <2>1. (y + 1) * b = y * b + b
    BY <1>3
  <2>2. x * b + 0 < (y + 1) * b
    BY <1>6, <1>7, <2>1
  <2>3. 0 \in 0 .. b - 1 /\ y + 1 \in Int
    BY <1>3
  <2> QED BY <1>2, <1>3, <2>2, <2>3, Cancelled
<1>9. y <= x
  <2>1. (x + 1) * b = x * b + b
    BY <1>2
  <2>2. y * b + 0 < (x + 1) * b
    BY <1>6, <1>7, <2>1
  <2>3. 0 \in 0 .. b - 1 /\ x + 1 \in Int
    BY <1>2
  <2> QED BY <1>2, <1>3, <2>2, <2>3, Cancelled
<1>10. x = y
  BY <1>2, <1>3, <1>8, <1>9
<1> QED BY <1>2, <1>3, <1>6, <1>10

\* ... and each table of the segment is met.
LEMMA TableProbed ==
  ASSUME NEW b \in Nat \ {0}, NEW s \in Nat, NEW e \in Nat, NEW limit, Limit(b, e, limit),
         NEW j \in s .. e - 1
  PROVE  Probed(b, s, limit, j)
<1> PICK k \in Nat \ {0} : limit = k * b /\ (k - 1) * b < e /\ e <= limit
  BY DEF Limit
<1> DEFINE t == j \div b
           z == s \div b
           r == s % b
           i == t * b + r
<1>0. j \in Nat /\ s <= j /\ j < e
  OBVIOUS
<1>1. t \in Nat /\ j = t * b + (j % b) /\ j % b \in 0 .. b - 1
  BY <1>0, Quotient
<1>2. z \in Nat /\ r \in 0 .. b - 1 /\ s = z * b + r
  BY Quotient
<1>3. z <= t
  <2>1. s \in Nat /\ b \in Nat \ {0}
    OBVIOUS
  <2> QED BY <1>0, <2>1, DivisionMonotone, Zenon
<1> HIDE DEF t, z, r
<1>4. t < k
  <2>1. t * b + (j % b) < k * b
    BY <1>1
  <2> QED BY <1>1, <2>1, Cancelled
<1>5. t * b + r < k * b
  BY <1>1, <1>2, <1>4, Cancelled
<1>6. t * b = z * b + (t - z) * b /\ (t - z) * b \in Nat /\ z * b \in Nat /\ k * b \in Nat
  <2>1. t - z \in Nat
    BY <1>1, <1>2, <1>3
  <2>2. t = z + (t - z)
    BY <1>1, <1>2
  <2> DEFINE d == t - z
  <2> HIDE DEF d
  <2>3. d \in Nat /\ t = z + d
    BY <2>1, <2>2 DEF d
  <2>4. (z + d) * b = z * b + d * b /\ d * b \in Nat /\ z * b \in Nat /\ k * b \in Nat
    BY <1>2, <2>3
  <2> QED BY <2>3, <2>4 DEF d
<1>7. i \in s .. k * b - 1 /\ i - s = (t - z) * b
  BY <1>1, <1>2, <1>5, <1>6
<1>8. ((t - z) * b + 0) % b = 0
  <2>1. t - z \in Nat /\ 0 \in 0 .. b - 1
    BY <1>1, <1>2, <1>3
  <2> QED BY <2>1, QuotientOf
<1>9. (i - s) % b = 0
  BY <1>6, <1>7, <1>8
<1>10. i \div b = t
  BY <1>1, <1>2, QuotientOf
<1> QED BY <1>7, <1>9, <1>10 DEF t, Probed

\* Where the probes of a segment end, in pages
LEMMA LastProbe ==
  ASSUME NEW s \in Nat, NEW size \in Nat \ {0}, s + size <= PagesNum
  PROVE  LET e == s + size
             b == 2 ^ Page2BitNum
             adjusted == IF page2FromPage(e) = 0 THEN e
                         ELSE pageFromPage1AndPage2(page1FromPage(e) + 1, 0)
         IN  Limit(b, e, adjusted) /\ adjusted <= PagesNum
<1> DEFINE e == s + size
           a == 2 ^ Page1BitNum
           b == 2 ^ Page2BitNum
           q == e \div b
           k == IF e % b = 0 THEN q ELSE q + 1
           adjusted == IF page2FromPage(e) = 0 THEN e
                       ELSE pageFromPage1AndPage2(page1FromPage(e) + 1, 0)
<1>1. /\ e \in Nat \ {0} /\ e <= PagesNum
      /\ a \in Nat \ {0} /\ b \in Nat \ {0} /\ PagesNum = a * b /\ PagesNum \in Nat
  BY Powers
<1>2. k \in Nat \ {0} /\ (k - 1) * b < e /\ e <= k * b
  <2> HIDE DEF e, b
  <2> QED BY <1>1, Ceiling
<1>3. q \in Nat /\ e % b \in 0 .. b - 1 /\ e = q * b + (e % b)
  <2> HIDE DEF e, b
  <2> QED BY <1>1, Quotient
<1>4. k * b <= PagesNum
  <2> HIDE DEF a, b, e, k
  <2>1. (k - 1) * b + 0 < a * b /\ k - 1 \in Int /\ 0 \in 0 .. b - 1
    BY <1>1, <1>2
  <2>2. k - 1 < a
    BY <1>1, <2>1, Cancelled
  <2>3. k <= a /\ k \in Int
    BY <1>1, <1>2, <2>2
  <2>4. a * b = k * b + (a - k) * b /\ (a - k) * b >= 0
    <3> DEFINE d == a - k
    <3>1. d \in Nat /\ a = k + d
      BY <1>1, <2>3
    <3> HIDE DEF d
    <3>2. (k + d) * b = k * b + d * b /\ d * b >= 0
      BY <1>1, <2>3, <3>1
    <3> QED BY <3>1, <3>2 DEF d
  <2>5. k * b \in Int /\ (a - k) * b \in Int
    BY <1>1, <2>3
  <2> QED BY <1>1, <2>4, <2>5
<1>5. adjusted = k * b
  <2>1. CASE e % b = 0
    <3>1. adjusted = e /\ k = q
      BY <2>1 DEF page2FromPage
    <3> HIDE DEF adjusted, q, k, b, e
    <3>2. q * b \in Nat
      BY <1>1, <1>3
    <3> QED BY <1>1, <1>3, <2>1, <3>1, <3>2
  <2>2. CASE e % b # 0
    <3>1. e < PagesNum
      <4>1. e # PagesNum
        <5>1. 0 \in 0 .. b - 1 /\ a * b + 0 = a * b
          BY <1>1
        <5> HIDE DEF a, b
        <5>2. (a * b + 0) % b = 0
          BY <1>1, <5>1, QuotientOf
        <5> QED BY <1>1, <2>2, <5>1, <5>2
      <4> QED BY <1>1, <4>1
    <3>2. e \in PageIds
      BY <1>1, <3>1 DEF PageIds
    <3>3. page1FromPage(e) = q
      <4> HIDE DEF e
      <4> QED BY <3>2, TableOfPage
    <3>4. adjusted = (q + 1) * b + 0
      BY <2>2, <3>3 DEF page2FromPage, pageFromPage1AndPage2
    <3>5. k = q + 1
      BY <2>2
    <3> HIDE DEF adjusted, q, k, b
    <3>6. (q + 1) * b \in Nat
      BY <1>1, <1>3
    <3> QED BY <3>6, <3>4, <3>5
  <2> QED BY <2>1, <2>2
<1>6. k * b \in Nat
  <2> HIDE DEF k, b
  <2> QED BY <1>1, <1>2
<1> HIDE DEF k
<1> QED BY <1>2, <1>4, <1>5, <1>6 DEF Limit

\* The second-level tables that a segment needs and does not find
MissingTables(pr, s, size) ==
  {t \in TableIds : SpanOf(s, size) \cap pagesOfTable(t) # {} /\ ~pr.pmt1[t].pmt2Valid}

\* getNumOfPMT2ToBeAllocated counts them.
LEMMA ProbesCount ==
  ASSUME SameWidth, NEW pr, NEW s \in PageIds, NEW size \in Nat \ {0}, s + size <= PagesNum
  PROVE  getNumOfPMT2ToBeAllocated(pr, s, s + size) = Cardinality(MissingTables(pr, s, size))
<1> DEFINE e == s + size
           b == 2 ^ Page2BitNum
           adjusted == IF page2FromPage(e) = 0 THEN e
                       ELSE pageFromPage1AndPage2(page1FromPage(e) + 1, 0)
           probes == {i \in s .. adjusted - 1 : (i - s) % 2 ^ Page1BitNum = 0}
           P == {i \in probes : ~pr.pmt1[page1FromPage(i)].pmt2Valid}
           T == MissingTables(pr, s, size)
           f == [i \in P |-> page1FromPage(i)]
<1>1. getNumOfPMT2ToBeAllocated(pr, s, s + size) = Cardinality(P)
  BY Zenon DEF getNumOfPMT2ToBeAllocated
<1>2. /\ s \in Nat /\ e \in Nat /\ s < e /\ e <= PagesNum /\ b \in Nat \ {0} /\ PagesNum \in Nat
      /\ 2 ^ Page1BitNum = b
  BY Powers DEF PageIds, SameWidth
<1>8. SpanOf(s, size) = s .. e - 1
  <2>1. s + size - 1 = e - 1
    BY <1>2
  <2> QED BY <2>1, Zenon DEF SpanOf
<1>3. Limit(b, e, adjusted) /\ adjusted <= PagesNum
  BY <1>2, LastProbe
<1>4. adjusted \in Nat /\ e <= adjusted
  BY <1>3 DEF Limit
<1> HIDE DEF adjusted, e, b
<1>5. probes = {i \in s .. adjusted - 1 : (i - s) % b = 0}
  BY <1>2
<1> HIDE DEF probes, P, T, f
<1>6. ASSUME NEW i \in s .. adjusted - 1
      PROVE  i \in Nat /\ i \in PageIds /\ page1FromPage(i) = i \div b /\ page1FromPage(i) \in TableIds
  <2>1. i \in Nat /\ i \in PageIds
    BY <1>2, <1>3, <1>4 DEF PageIds
  <2> QED BY <2>1, TableOfPage DEF b
<1>7. \A j \in s .. e - 1 : j \in s .. adjusted - 1
  BY <1>2, <1>3, <1>4
<1>9. ASSUME NEW i \in probes
      PROVE  SpanOf(s, size) \cap pagesOfTable(page1FromPage(i)) # {}
  <2>1. i \in s .. adjusted - 1
    BY <1>5
  <2>2. Meets(b, s, e, i)
    BY <1>2, <1>3, <2>1, ProbeInside
  <2>3. PICK j \in s .. e - 1 : j \div b = i \div b
    BY <2>2 DEF Meets
  <2>4. j \in PageIds /\ page1FromPage(j) = page1FromPage(i)
    BY <1>6, <1>7, <2>1, <2>3
  <2> QED BY <1>8, <2>3, <2>4 DEF pagesOfTable
<1>10. ASSUME NEW t \in TableIds, SpanOf(s, size) \cap pagesOfTable(t) # {}
       PROVE  \E i \in probes : page1FromPage(i) = t
  <2>1. PICK j \in s .. e - 1 : page1FromPage(j) = t
    BY <1>8, <1>10 DEF pagesOfTable
  <2>2. Probed(b, s, adjusted, j)
    BY <1>2, <1>3, TableProbed
  <2>3. PICK i \in s .. adjusted - 1 : (i - s) % b = 0 /\ i \div b = j \div b
    BY <2>2 DEF Probed
  <2>4. page1FromPage(i) = t
    BY <1>6, <1>7, <2>1, <2>3
  <2> QED BY <1>5, <2>3, <2>4
<1>11. ASSUME NEW i \in probes, NEW j \in probes, page1FromPage(i) = page1FromPage(j)
       PROVE  i = j
  <2>1. i \in s .. adjusted - 1 /\ (i - s) % b = 0 /\ j \in s .. adjusted - 1 /\ (j - s) % b = 0
    BY <1>5
  <2>2. i \in Nat /\ j \in Nat /\ s <= i /\ s <= j /\ i \div b = j \div b
    <3>1. i \in Nat /\ j \in Nat /\ i \div b = j \div b
      BY <1>6, <1>11, <2>1
    <3>2. s <= i /\ s <= j
      BY <1>2, <1>4, <2>1
    <3> QED BY <3>1, <3>2
  <2> QED BY <1>2, <2>1, <2>2, ProbesDiffer
<1>12. P \subseteq probes /\ \A i \in probes : page1FromPage(i) \in TableIds
  BY <1>5, <1>6 DEF P
<1>13. f \in Bijection(P, T)
  <2>1. f \in [P -> T]
    BY <1>9, <1>12 DEF MissingTables, f, P, T
  <2>2. \A i, j \in P : f[i] = f[j] => i = j
    BY <1>11, <1>12 DEF f
  <2>3. \A t \in T : \E i \in P : f[i] = t
    BY <1>10 DEF MissingTables, f, P, T
  <2> QED BY <2>1, <2>2, <2>3 DEF Bijection, Injection, Surjection, IsInjective
<1>14. IsFiniteSet(P)
  <2>1. P \in SUBSET (s .. adjusted - 1)
    BY <1>5 DEF P
  <2>2. IsFiniteSet(s .. adjusted - 1)
    BY <1>2, <1>4, FS_Interval
  <2> QED BY <2>1, <2>2, FS_Subset
<1> QED BY <1>1, <1>13, <1>14, FS_Bijection DEF ExistsBijection, T

---------------------------------------------------------------------------
(* The frames of the page table memory.                                    *)

Valid(pr) == {t \in TableIds : pr.pmt1[t].pmt2Valid}
Alive == {p \in Procs : life[p] \in {"live", "cloning", "destroying"}}
ValidTables == {e \in Procs \X TableIds : proc[e[1]].pmt1[e[2]].pmt2Valid}
Frames == freeFrames + Cardinality(Alive) + Cardinality(ValidTables)

\* What FramesConserved says, kept by a step
FramesStep == Frames' = Frames

LEMMA FiniteProcs ==
  /\ IsFiniteSet(Procs)
  /\ \A S \in SUBSET Procs : IsFiniteSet(S) /\ Cardinality(S) \in Nat
  /\ \A E \in SUBSET (Procs \X TableIds) : IsFiniteSet(E) /\ Cardinality(E) \in Nat
<1>1. IsFiniteSet(Procs)
  BY CallsAssumption, FS_Interval DEF Procs
<1>2. IsFiniteSet(Procs \X TableIds)
  BY <1>1, FinitePages, FS_Product
<1> QED BY <1>1, <1>2, FS_Subset, FS_CardinalityType

LEMMA CountsAreNat ==
  Cardinality(Alive) \in Nat /\ Cardinality(ValidTables) \in Nat
  /\ Cardinality(Alive)' \in Nat /\ Cardinality(ValidTables)' \in Nat
<1>1. Alive \in SUBSET Procs /\ Alive' \in SUBSET Procs
  BY DEF Alive
<1>2. ValidTables \in SUBSET (Procs \X TableIds) /\ ValidTables' \in SUBSET (Procs \X TableIds)
  BY DEF ValidTables
<1> QED BY <1>1, <1>2, FiniteProcs

LEMMA ValidIsFinite ==
  ASSUME NEW pr
  PROVE  /\ Valid(pr) \in SUBSET TableIds /\ IsFiniteSet(Valid(pr))
         /\ Cardinality(Valid(pr)) \in Nat
<1>1. Valid(pr) \in SUBSET TableIds
  BY DEF Valid
<1> QED BY <1>1, FinitePages

\* The pairs of one process beside the others
LEMMA OneColumn ==
  ASSUME NEW p \in Procs, NEW S \in SUBSET TableIds, NEW E \in SUBSET ((Procs \ {p}) \X TableIds)
  PROVE  Cardinality(E \cup ({p} \X S)) = Cardinality(E) + Cardinality(S)
         /\ Cardinality(E) \in Nat /\ Cardinality(S) \in Nat
<1> DEFINE C == {p} \X S
<1>1. IsFiniteSet(S) /\ Cardinality(S) \in Nat
  BY FinitePages
<1>2. IsFiniteSet({p}) /\ Cardinality({p}) = 1
  BY FS_Singleton
<1>3. IsFiniteSet(C) /\ Cardinality(C) = Cardinality(S)
  BY <1>1, <1>2, FS_Product
<1>4. E \in SUBSET (Procs \X TableIds)
  OBVIOUS
<1>5. IsFiniteSet(E) /\ Cardinality(E) \in Nat
  BY <1>4, FiniteProcs
<1>6. E \cap C = {}
  OBVIOUS
<1> HIDE DEF C
<1>7. Cardinality(E \cup C) = Cardinality(E) + Cardinality(C)
  <2>1. Cardinality(E \cap C) = 0
    BY <1>6, FS_EmptySet
  <2>2. Cardinality(E \cup C) = Cardinality(E) + Cardinality(C) - Cardinality(E \cap C)
    BY <1>3, <1>5, FS_Union
  <2>3. Cardinality(C) \in Nat
    BY <1>1, <1>3
  <2> QED BY <1>5, <2>1, <2>2, <2>3
<1> QED BY <1>1, <1>3, <1>5, <1>7 DEF C

\* When the tables of one process change, the count changes by its own.
LEMMA TablesOfOne ==
  ASSUME Bookkeeping, NEW p \in Procs, NEW new, proc' = [proc EXCEPT ![p] = new]
  PROVE  Cardinality(ValidTables)' - Cardinality(Valid(new))
           = Cardinality(ValidTables) - Cardinality(Valid(proc[p]))
<1> DEFINE E == {e \in (Procs \ {p}) \X TableIds : proc[e[1]].pmt1[e[2]].pmt2Valid}
           S == Valid(proc[p])
           T == Valid(new)
<1>1. proc'[p] = new /\ \A q \in Procs \ {p} : proc'[q] = proc[q]
  BY Typing DEF ProcsShaped
<1>2. ValidTables = E \cup ({p} \X S)
  BY DEF ValidTables, Valid
<1>3. ValidTables' = E \cup ({p} \X T)
  <2>1. ValidTables' = {e \in Procs \X TableIds : proc'[e[1]].pmt1[e[2]].pmt2Valid}
    BY DEF ValidTables
  <2>2. E = {e \in (Procs \ {p}) \X TableIds : proc'[e[1]].pmt1[e[2]].pmt2Valid}
    BY <1>1
  <2>3. T = {t \in TableIds : proc'[p].pmt1[t].pmt2Valid}
    BY <1>1 DEF Valid
  <2> QED BY <2>1, <2>2, <2>3
<1>4. E \in SUBSET ((Procs \ {p}) \X TableIds)
  OBVIOUS
<1>5. S \in SUBSET TableIds /\ T \in SUBSET TableIds
  BY ValidIsFinite
<1> HIDE DEF E, S, T
<1>6. Cardinality(ValidTables) = Cardinality(E) + Cardinality(S)
  BY <1>2, <1>4, <1>5, OneColumn
<1>7. Cardinality(ValidTables)' = Cardinality(E) + Cardinality(T)
  BY <1>3, <1>4, <1>5, OneColumn
<1>8. Cardinality(E) \in Nat /\ Cardinality(S) \in Nat /\ Cardinality(T) \in Nat
  BY <1>4, <1>5, OneColumn
<1> QED BY <1>6, <1>7, <1>8 DEF S, T

\* A commit takes the frames of the tables that become valid and gives back
\* those of the tables that no longer are.
LEMMA CommitBalanced ==
  ASSUME Bookkeeping, NEW p \in Procs, NEW new, NEW taken, Commit(p, new, taken),
         taken = Cardinality(Valid(new) \ Valid(proc[p])), life' = life
  PROVE  FramesStep
<1> DEFINE S == Valid(proc[p])
           T == Valid(new)
<1>1. S \in SUBSET TableIds /\ T \in SUBSET TableIds /\ IsFiniteSet(S) /\ IsFiniteSet(T)
  BY ValidIsFinite
<1>2. Returned(proc[p], new) = Cardinality(S \ T)
  <2>1. {t \in TableIds : proc[p].pmt1[t].pmt2Valid /\ ~new.pmt1[t].pmt2Valid} = S \ T
    BY DEF Valid
  <2> QED BY <2>1, Zenon DEF Returned
<1>3. proc' = [proc EXCEPT ![p] = new] /\ freeFrames' = freeFrames - taken + Cardinality(S \ T)
  BY <1>2 DEF Commit
<1>4. Cardinality(ValidTables)' - Cardinality(T) = Cardinality(ValidTables) - Cardinality(S)
  BY <1>3, TablesOfOne
<1>5. Alive' = Alive
  BY DEF Alive
<1>6. freeFrames \in Nat
  BY Typing DEF ProcsShaped
<1> HIDE DEF S, T
<1>7. /\ Cardinality(S \ T) = Cardinality(S) - Cardinality(S \cap T)
      /\ Cardinality(T \ S) = Cardinality(T) - Cardinality(T \cap S)
      /\ S \cap T = T \cap S
  BY <1>1, FS_Difference
<1>8. /\ Cardinality(S) \in Nat /\ Cardinality(T) \in Nat /\ Cardinality(S \cap T) \in Nat
      /\ S \cap T \in SUBSET TableIds
  BY <1>1, FinitePages
<1>9. taken = Cardinality(T \ S)
  BY DEF S, T
<1>10. PICK a, v, w : a = Cardinality(Alive) /\ v = Cardinality(ValidTables) /\ w = Cardinality(ValidTables)'
  OBVIOUS
<1>11. a \in Nat /\ v \in Nat /\ w \in Nat /\ Cardinality(Alive)' = a
  BY <1>5, <1>10, CountsAreNat
<1>12. Frames = freeFrames + a + v /\ Frames' = freeFrames' + a + w
  BY <1>10, <1>11 DEF Frames
<1>13. w - Cardinality(T) = v - Cardinality(S)
  BY <1>4, <1>10
<1>14. PICK x, y, z : x = Cardinality(S) /\ y = Cardinality(T) /\ z = Cardinality(S \cap T)
  OBVIOUS
<1>15. /\ Cardinality(S \ T) = x - z /\ Cardinality(T \ S) = y - z
       /\ x \in Nat /\ y \in Nat /\ z \in Nat
  BY <1>7, <1>8, <1>14
<1>16. freeFrames' = freeFrames - (y - z) + (x - z) /\ w - y = v - x
  BY <1>3, <1>9, <1>13, <1>14, <1>15
<1>17. freeFrames' + a + w = freeFrames + a + v
  BY <1>6, <1>11, <1>15, <1>16
<1> QED BY <1>12, <1>17 DEF FramesStep

\* Steps that move no table
LEMMA TablesStay ==
  ASSUME UNCHANGED <<life, freeFrames>>, \A q \in Procs : proc'[q].pmt1 = proc[q].pmt1
  PROVE  FramesStep
<1>1. ValidTables' = ValidTables /\ Alive' = Alive
  BY DEF ValidTables, Alive
<1> QED BY <1>1 DEF FramesStep, Frames

\* The valid tables are those with an allocated page.
LEMMA ValidIsUsed ==
  ASSUME NEW pr \in Process, Good(pr)
  PROVE  \A t \in TableIds : t \in Valid(pr) <=> pr.allocated \cap pagesOfTable(t) # {}
<1>1. ASSUME NEW t \in TableIds
      PROVE  t \in Valid(pr) <=> pr.allocated \cap pagesOfTable(t) # {}
  <2> DEFINE S == pr.allocated \cap pagesOfTable(t)
  <2>1. pr.pmt1[t] = [pmt2Valid |-> Cardinality(S) # 0, numValidPMT2Entries |-> Cardinality(S)]
    BY DEF Good, Counted, Used
  <2>2. S \in SUBSET PageIds
    BY ProcessIs
  <2>3. IsFiniteSet(S)
    BY <2>2, FinitePages
  <2> HIDE DEF S
  <2>4. Cardinality(S) = 0 <=> S = {}
    BY <2>3, FS_EmptySet
  <2>5. t \in Valid(pr) <=> Cardinality(S) # 0
    <3>1. pr.pmt1[t].pmt2Valid = (Cardinality(S) # 0)
      BY <2>1
    <3>2. t \in Valid(pr) <=> pr.pmt1[t].pmt2Valid
      BY DEF Valid
    <3> QED BY <3>1, <3>2, Zenon
  <2> QED BY <2>4, <2>5 DEF S
<1> QED BY <1>1

\* A process that only gives pages back takes no frame.
LEMMA DeletionBalanced ==
  ASSUME Bookkeeping, NEW p \in Procs, NEW new \in Process, Good(new),
         new.allocated \subseteq proc[p].allocated, Commit(p, new, 0), life' = life
  PROVE  FramesStep
<1>1. Valid(new) \ Valid(proc[p]) = {}
  <2>1. proc[p] \in Process /\ Good(proc[p])
    BY Typing
  <2>2. Valid(new) \subseteq TableIds
    BY ValidIsFinite
  <2> QED BY <2>1, <2>2, ValidIsUsed
<1>2. 0 = Cardinality(Valid(new) \ Valid(proc[p]))
  BY <1>1, FS_EmptySet
<1> QED BY <1>2, CommitBalanced

\* A segment that is laid takes the frames that allocateEmptySegment counted.
LEMMA AdmissionBalanced ==
  ASSUME SameWidth, Bookkeeping, NEW p \in Procs, NEW address, NEW size, InWord(address, size),
         allocateEmptySegmentOK(proc[p], address, size),
         NEW segment \in Segment, segment.numPages = size, life' = life,
         Commit(p, Allocated(proc[p], pageFromVA(address), segment), Needed(proc[p], address, size))
  PROVE  FramesStep
<1> DEFINE pr == proc[p]
           s == pageFromVA(address)
           new == Allocated(pr, s, segment)
           taken == Needed(pr, address, size)
<1>1. pr \in Process /\ Good(pr)
  BY Typing
<1>2. /\ segmentFits(address, size) /\ SpanOf(s, size) \cap pr.allocated = {}
  BY DEF allocateEmptySegmentOK
<1>3. s \in PageIds /\ s + size <= PagesNum /\ size \in Nat \ {0}
  BY <1>2, FittingSegment
<1>4. taken = Cardinality(MissingTables(pr, s, size))
  <2> HIDE DEF pr, s
  <2>1. getNumOfPMT2ToBeAllocated(pr, s, s + size) = Cardinality(MissingTables(pr, s, size))
    BY <1>3, ProbesCount
  <2> QED BY <2>1, Zenon DEF Needed, s
<1>5. new.pmt1 = [t \in TableIds |->
                    IF SpanOf(s, size) \cap pagesOfTable(t) = {} THEN pr.pmt1[t]
                    ELSE [pmt2Valid |-> TRUE, numValidPMT2Entries |-> Used(new, t)]]
  <2> HIDE DEF pr, s
  <2> QED BY <1>1, <1>2, <1>3, AllocatedGood
<1>6. Valid(new) \ Valid(pr) = MissingTables(pr, s, size)
  <2> HIDE DEF new, pr, s
  <2> QED BY <1>5 DEF Valid, MissingTables
<1>7. taken = Cardinality(Valid(new) \ Valid(pr)) /\ Commit(p, new, taken)
  BY <1>4, <1>6
<1> HIDE DEF new, taken
<1> QED BY <1>7, CommitBalanced

LEMMA PrivateDeletionBalanced ==
  ASSUME Bookkeeping, NEW p \in Procs, NEW address,
         Commit(p, deleteSegmentPrivate(proc[p], address), 0), life' = life
  PROVE  FramesStep
<1> DEFINE pr == proc[p]
           new == deleteSegmentPrivate(pr, address)
<1>1. pr \in Process /\ Good(pr)
  BY Typing
<1>2. new \in Process /\ Good(new) /\ new.allocated \subseteq pr.allocated
  <2> HIDE DEF pr
  <2> QED BY <1>1, PrivateDeletedGood
<1>3. Commit(p, new, 0)
  OBVIOUS
<1> HIDE DEF new
<1> QED BY <1>2, <1>3, DeletionBalanced

\* Writing the maps of names moves no table.
LEMMA NamesBalanced ==
  ASSUME Bookkeeping, NEW p \in Procs, NEW f, NEW g, UNCHANGED <<life, freeFrames>>,
         \/ proc' = [proc EXCEPT ![p].sharedSegmentVirtualAddressMap = f,
                                 ![p].virtualAddressSharedSegmentMap = g]
         \/ proc' = [proc EXCEPT ![p].virtualAddressSharedSegmentMap = g]
  PROVE  FramesStep
<1>1. proc \in [Procs -> Process] /\ proc[p] \in Process
  BY Typing DEF ProcsShaped
<1>2. PICK new : new.pmt1 = proc[p].pmt1 /\ proc' = [proc EXCEPT ![p] = new]
  <2>1. \A r \in Process :
          /\ [r EXCEPT !.sharedSegmentVirtualAddressMap = f,
                       !.virtualAddressSharedSegmentMap = g].pmt1 = r.pmt1
          /\ [r EXCEPT !.virtualAddressSharedSegmentMap = g].pmt1 = r.pmt1
    BY DEF Process
  <2>2. \/ proc' = [proc EXCEPT ![p] = [proc[p] EXCEPT !.sharedSegmentVirtualAddressMap = f,
                                                      !.virtualAddressSharedSegmentMap = g]]
        \/ proc' = [proc EXCEPT ![p] = [proc[p] EXCEPT !.virtualAddressSharedSegmentMap = g]]
    BY <1>1
  <2> QED BY <1>1, <2>1, <2>2
<1>3. \A q \in Procs : proc'[q].pmt1 = proc[q].pmt1
  BY <1>1, <1>2
<1> QED BY <1>3, TablesStay

LEMMA BeginAttachBalanced ==
  ASSUME Bookkeeping, NEW p \in Procs, NEW address, NEW size, NEW name,
         BeginAttach(p, address, size, name), life' = life
  PROVE  FramesStep
<1> DEFINE f == Emplace(proc[p].sharedSegmentVirtualAddressMap, name, address)
           g == Emplace(proc[p].virtualAddressSharedSegmentMap, address, name)
<1>1. /\ proc' = [proc EXCEPT ![p].sharedSegmentVirtualAddressMap = f,
                              ![p].virtualAddressSharedSegmentMap = g]
      /\ freeFrames' = freeFrames
  BY DEF BeginAttach
<1> HIDE DEF f, g
<1> QED BY <1>1, NamesBalanced

LEMMA PrivateCallsBalanced ==
  ASSUME NoWrap, SameWidth, Bookkeeping, NEW p \in Procs, NEW address \in Addresses, NEW size \in Sizes,
         \/ CreateSegment(p, address, size) \/ LoadSegment(p, address, size)
         \/ RefuseSegment(p, address, size)
  PROVE  FramesStep
<1>1. CASE CreateSegment(p, address, size) \/ LoadSegment(p, address, size)
  <2> DEFINE segment == Private(size)
  <2>1. /\ allocateEmptySegmentOK(proc[p], address, size) /\ life' = life
        /\ Commit(p, Allocated(proc[p], pageFromVA(address), segment), Needed(proc[p], address, size))
    BY <1>1 DEF CreateSegment, LoadSegment, AllocatePrivate
  <2>2. InWord(address, size) /\ segment \in Segment /\ segment.numPages = size
    BY PrivateIsSegment DEF NoWrap, InWord
  <2> HIDE DEF segment
  <2> QED BY <2>1, <2>2, AdmissionBalanced
<1>2. CASE RefuseSegment(p, address, size)
  BY <1>2, PrivateDeletionBalanced DEF RefuseSegment
<1> QED BY <1>1, <1>2

LEMMA AttachBalanced ==
  ASSUME SameWidth, Bookkeeping, NEW p \in Procs, Attach(p)
  PROVE  FramesStep
<1> DEFINE c == call[p]
           segment == [numPages |-> c.size, isShared |-> TRUE, name |-> c.name, dangling |-> c.dangling]
<1>1. /\ c.op = "attach" /\ allocateEmptySegmentOK(proc[p], c.address, c.size) /\ life' = life
      /\ Commit(p, Allocated(proc[p], pageFromVA(c.address), segment), Needed(proc[p], c.address, c.size))
  BY DEF Attach
<1>2. c \in SegmentCall /\ InWord(c.address, c.size)
  BY <1>1, Typing DEF CallsFit
<1> HIDE DEF c
<1>3. segment \in Segment /\ segment.numPages = c.size
  BY <1>1, <1>2, CallIs DEF Segment
<1> HIDE DEF segment
<1> QED BY <1>1, <1>2, <1>3, AdmissionBalanced

LEMMA RefusedBalanced ==
  ASSUME Bookkeeping, NEW p \in Procs, AttachFails(p) \/ DisconnectAgain(p) \/ EraseRefused(p)
  PROVE  FramesStep
<1> DEFINE c == call[p]
           pr == proc[p]
           gone == Disconnected(pr, c.name)
           bare == Erased(pr, c.address, c.name)
           refused == Refused(pr, c.address, c.name)
<1>1. /\ life' = life
      /\ \/ Commit(p, gone, 0) \/ Commit(p, refused, 0)
         \/ UNCHANGED <<proc, freeFrames>>
         \/ proc' = [proc EXCEPT ![p] = bare] /\ UNCHANGED freeFrames
  BY DEF AttachFails, DisconnectAgain, EraseRefused, Refused
<1>2. c.name \in Names /\ pr \in Process /\ Good(pr)
  BY Typing, CallIs DEF AttachFails, DisconnectAgain, EraseRefused
<1>3. /\ gone \in Process /\ Good(gone) /\ gone.allocated \subseteq pr.allocated
      /\ refused \in Process /\ Good(refused) /\ refused.allocated \subseteq pr.allocated
      /\ bare.pmt1 = pr.pmt1
  <2> HIDE DEF pr, c
  <2> QED BY <1>2, DisconnectedGood, RefusedGood, ErasedGood
<1> HIDE DEF gone, bare, refused
<1>4. CASE UNCHANGED <<proc, freeFrames>>
  BY <1>1, <1>4, TablesStay
<1>5. CASE proc' = [proc EXCEPT ![p] = bare] /\ UNCHANGED freeFrames
  <2>1. \A q \in Procs : proc'[q].pmt1 = proc[q].pmt1
    BY <1>3, <1>5, Typing DEF ProcsShaped
  <2> QED BY <1>1, <1>5, <2>1, TablesStay
<1> QED BY <1>1, <1>3, <1>4, <1>5, DeletionBalanced

LEMMA DetachBalanced ==
  ASSUME Bookkeeping, NEW p \in Procs, Detach(p)
  PROVE  FramesStep
<1> DEFINE c == call[p]
           pr == proc[p]
           gone == Disconnected(pr, c.name)
           f == pr.sharedSegmentVirtualAddressMap
           kept == [gone EXCEPT !.sharedSegmentVirtualAddressMap = f]
<1>1. c.op = "disconnect" /\ life' = life /\ (Commit(p, gone, 0) \/ Commit(p, kept, 0))
  BY DEF Detach
<1>2. c.name \in Names /\ pr \in Process /\ Good(pr)
  BY <1>1, Typing, CallIs
<1>3. gone \in Process /\ Good(gone) /\ gone.allocated \subseteq pr.allocated
  <2> HIDE DEF pr, c
  <2> QED BY <1>2, DisconnectedGood
<1>4. PICK new : /\ new.pmt1 = gone.pmt1 /\ Commit(p, new, 0)
  <2>1. \A r \in Process : [r EXCEPT !.sharedSegmentVirtualAddressMap = f].pmt1 = r.pmt1
    BY DEF Process
  <2> HIDE DEF gone, f
  <2>2. kept.pmt1 = gone.pmt1
    BY <1>3, <2>1
  <2> HIDE DEF kept
  <2> QED BY <1>1, <2>2
<1> HIDE DEF gone, c
<1>5. Valid(new) \ Valid(pr) = {}
  <2>1. Valid(new) = Valid(gone)
    BY <1>4 DEF Valid
  <2>2. Valid(gone) \subseteq TableIds
    BY ValidIsFinite
  <2> HIDE DEF pr
  <2> QED BY <1>2, <1>3, <2>1, <2>2, ValidIsUsed
<1>6. 0 = Cardinality(Valid(new) \ Valid(proc[p]))
  BY <1>5, FS_EmptySet
<1> QED BY <1>1, <1>4, <1>6, CommitBalanced

LEMMA DeleteSharedBalanced ==
  ASSUME Bookkeeping, NEW p \in Procs, NEW name \in Names, DeleteSharedSegment(p, name)
  PROVE  FramesStep
<1> DEFINE dangles(q) == AttachedTo(proc[q], name)
<1>1. /\ UNCHANGED proc \/ proc' = [q \in Procs |-> Freed(proc[q], dangles(q))]
      /\ UNCHANGED <<life, freeFrames>>
  BY DEF DeleteSharedSegment
<1> HIDE DEF dangles
<1>2. ASSUME NEW q \in Procs
      PROVE  proc'[q].pmt1 = proc[q].pmt1
  <2> DEFINE pr == proc[q]
             D == dangles(q)
  <2>1. pr \in Process /\ Good(pr) /\ (proc'[q] = pr \/ proc'[q] = Freed(pr, D))
    BY <1>1, Typing
  <2> HIDE DEF pr, D
  <2>2. Freed(pr, D).pmt1 = pr.pmt1
    BY <2>1, FreedGood
  <2> QED BY <2>1, <2>2 DEF pr
<1> QED BY <1>1, <1>2, TablesStay

\* A process that comes takes the frame of its first-level table.
LEMMA BirthBalanced ==
  ASSUME Bookkeeping, NEW p \in Procs, life[p] = "unborn", NEW stage \in {"live", "cloning"},
         life' = [life EXCEPT ![p] = stage], freeFrames' = freeFrames - 1, UNCHANGED proc
  PROVE  FramesStep
<1>1. life \in [Procs -> Stages] /\ freeFrames \in Nat
  BY Typing DEF ProcsShaped
<1>2. Alive' = Alive \cup {p} /\ p \notin Alive
  BY <1>1 DEF Alive
<1>3. IsFiniteSet(Alive)
  <2>1. Alive \in SUBSET Procs
    BY DEF Alive
  <2> QED BY <2>1, FiniteProcs
<1>4. Cardinality(Alive)' = Cardinality(Alive) + 1
  BY <1>2, <1>3, FS_AddElement
<1>5. ValidTables' = ValidTables
  BY DEF ValidTables
<1> QED BY <1>1, <1>4, <1>5, CountsAreNat DEF FramesStep, Frames

LEMMA CreateProcessBalanced ==
  ASSUME Bookkeeping, NEW p \in Procs, CreateProcess(p)
  PROVE  FramesStep
<1>1. /\ life[p] = "unborn" /\ UNCHANGED proc
      /\ \/ freeFrames' = freeFrames - 1 /\ life' = [life EXCEPT ![p] = "live"]
         \/ freeFrames' = freeFrames /\ life' = [life EXCEPT ![p] = "hollow"]
  BY DEF CreateProcess, IsNextId
<1>2. CASE freeFrames' = freeFrames - 1 /\ life' = [life EXCEPT ![p] = "live"]
  BY <1>1, <1>2, BirthBalanced
<1>3. CASE freeFrames' = freeFrames /\ life' = [life EXCEPT ![p] = "hollow"]
  <2>1. Alive' = Alive /\ ValidTables' = ValidTables
    BY <1>1, <1>3, Typing DEF Alive, ValidTables
  <2> QED BY <1>3, <2>1 DEF FramesStep, Frames
<1> QED BY <1>1, <1>2, <1>3

LEMMA CloneProcessBalanced ==
  ASSUME Bookkeeping, NEW parent \in Procs, NEW child \in Procs, CloneProcess(parent, child)
  PROVE  FramesStep
BY BirthBalanced DEF CloneProcess, IsNextId

LEMMA DestroyProcessBalanced ==
  ASSUME Bookkeeping, NEW p \in Procs, DestroyProcess(p)
  PROVE  FramesStep
<1>1. life[p] = "live" /\ life' = [life EXCEPT ![p] = "destroying"] /\ UNCHANGED <<proc, freeFrames>>
  BY DEF DestroyProcess, Calls
<1>2. Alive' = Alive /\ ValidTables' = ValidTables
  BY <1>1, Typing DEF Alive, ValidTables
<1> QED BY <1>1, <1>2 DEF FramesStep, Frames

LEMMA CloneDoneBalanced ==
  ASSUME Bookkeeping, CloneDone
  PROVE  FramesStep
<1>1. /\ job.op = "clone" /\ life' = [life EXCEPT ![job.process] = "live"]
      /\ UNCHANGED <<proc, freeFrames>>
  BY DEF CloneDone
<1>2. life[job.process] = "cloning" /\ job.process \in Procs
  BY <1>1, Typing, JobIs DEF JobFits
<1>3. Alive' = Alive /\ ValidTables' = ValidTables
  BY <1>1, <1>2, Typing DEF Alive, ValidTables
<1> QED BY <1>1, <1>3 DEF FramesStep, Frames

\* A process that goes has given back its segments and gives back that frame.
LEMMA CleanUpDoneBalanced ==
  ASSUME Bookkeeping, CleanUpDone
  PROVE  FramesStep
<1> DEFINE p == job.process
           pr == proc[p]
<1>1. /\ job.op \in {"destroy", "rollback"} /\ DOMAIN pr.segments = {}
      /\ proc' = [proc EXCEPT ![p] = NewProcess] /\ freeFrames' = freeFrames + 1
      /\ life' = [life EXCEPT ![p] = "dead"]
  BY DEF CleanUpDone
<1>2. p \in Procs /\ life[p] \in {"cloning", "destroying"}
  BY <1>1, Typing, JobIs DEF JobFits
<1>3. pr \in Process /\ Good(pr)
  BY <1>2, Typing
<1>4. Valid(pr) = {} /\ Valid(NewProcess) = {}
  <2>1. pr.allocated = {}
    BY <1>1, <1>3 DEF Good, Owned
  <2>2. \A t \in TableIds : t \notin Valid(pr)
    <3> HIDE DEF pr
    <3> QED BY <1>3, <2>1, ValidIsUsed
  <2>3. Valid(pr) \subseteq TableIds
    BY ValidIsFinite
  <2> QED BY <2>2, <2>3, NewProcessGood DEF Valid
<1>5. Cardinality(ValidTables)' = Cardinality(ValidTables)
  <2> HIDE DEF p
  <2>1. Cardinality(ValidTables)' - Cardinality(Valid(NewProcess))
          = Cardinality(ValidTables) - Cardinality(Valid(proc[p]))
    BY <1>1, <1>2, TablesOfOne
  <2>2. Cardinality(Valid(NewProcess)) = 0 /\ Cardinality(Valid(proc[p])) = 0
    BY <1>4, FS_EmptySet
  <2> QED BY <2>1, <2>2, CountsAreNat
<1>6. Alive' = Alive \ {p} /\ p \in Alive
  BY <1>1, <1>2, Typing DEF Alive
<1>7. IsFiniteSet(Alive)
  <2>1. Alive \in SUBSET Procs
    BY DEF Alive
  <2> QED BY <2>1, FiniteProcs
<1>8. Cardinality(Alive)' = Cardinality(Alive) - 1
  BY <1>6, <1>7, FS_RemoveElement
<1>9. freeFrames \in Nat
  BY Typing DEF ProcsShaped
<1> QED BY <1>1, <1>5, <1>8, <1>9, CountsAreNat DEF FramesStep, Frames

LEMMA CloneOneBalanced ==
  ASSUME SameWidth, Bookkeeping, job.op = "clone", NEW s, CloneOneSegment(s)
  PROVE  FramesStep
<1> DEFINE p == job.process
           parent == proc[job.parent]
           child == proc[p]
           address == virtualAddressFromPage(s)
           size == parent.segments[s].numPages
           segment == Private(size)
<1>1. /\ life' = life /\ s \in DOMAIN parent.segments
      /\ \/ /\ allocateEmptySegmentOK(child, address, size)
            /\ Commit(p, Allocated(child, s, segment), Needed(child, address, size))
         \/ Commit(p, deleteSegmentPrivate(child, address), 0)
  BY DEF CloneOneSegment, PrivateStarts
<1>2. p \in Procs /\ job.parent \in Procs
  BY Typing, JobIs
<1>3. parent \in Process /\ Good(parent)
  BY <1>2, Typing
<1>4. size \in Nat \ {0} /\ InWord(address, size) /\ pageFromVA(address) = s
  <2> HIDE DEF parent
  <2> QED BY <1>1, <1>3, SegmentAddress
<1>5. segment \in Segment /\ segment.numPages = size
  BY <1>4, PrivateIsSegment
<1>6. CASE /\ allocateEmptySegmentOK(child, address, size)
           /\ Commit(p, Allocated(child, s, segment), Needed(child, address, size))
  <2>1. /\ allocateEmptySegmentOK(proc[p], address, size)
        /\ Commit(p, Allocated(proc[p], pageFromVA(address), segment), Needed(proc[p], address, size))
    BY <1>4, <1>6
  <2> HIDE DEF segment, size, address, p
  <2> QED BY <1>1, <1>2, <1>4, <1>5, <2>1, AdmissionBalanced
<1>7. CASE Commit(p, deleteSegmentPrivate(child, address), 0)
  <2> HIDE DEF p, address
  <2> QED BY <1>1, <1>2, <1>7, PrivateDeletionBalanced
<1> QED BY <1>1, <1>6, <1>7

LEMMA CleanUpTurnBalanced ==
  ASSUME Bookkeeping, CleanUpTurn
  PROVE  FramesStep
<1> DEFINE p == job.process
<1>1. /\ job.op \in {"destroy", "rollback"} /\ UNCHANGED life
      /\ \/ \E address : Commit(p, deleteSegmentPrivate(proc[p], address), 0)
         \/ \E g : /\ proc' = [proc EXCEPT ![p].virtualAddressSharedSegmentMap = g]
                   /\ freeFrames' = freeFrames
  BY DEF CleanUpTurn, BeginDisconnect
<1>2. p \in Procs
  BY <1>1, Typing, JobIs
<1> HIDE DEF p
<1> QED BY <1>1, <1>2, PrivateDeletionBalanced, NamesBalanced

LEMMA FramesKept ==
  ASSUME NoWrap, SameWidth, Bookkeeping, [Next]_vars
  PROVE  FramesStep
<1>1. CASE UNCHANGED vars
  BY <1>1, TablesStay DEF vars
<1>2. CASE Next
  <2>1. Steps
    BY <1>2, NextIsSteps
  <2>2. CASE \E p \in Procs : CreateProcess(p) \/ DestroyProcess(p) \/ LoadContent(p) \/ LoadFails(p)
                              \/ Attach(p) \/ AttachFails(p) \/ AttachToFreed(p) \/ Detach(p)
                              \/ DisconnectAgain(p) \/ EraseRefused(p)
    <3>1. PICK p \in Procs : CreateProcess(p) \/ DestroyProcess(p) \/ LoadContent(p) \/ LoadFails(p)
                             \/ Attach(p) \/ AttachFails(p) \/ AttachToFreed(p) \/ Detach(p)
                             \/ DisconnectAgain(p) \/ EraseRefused(p)
      BY <2>2
    <3>2. LoadContent(p) \/ AttachToFreed(p) => UNCHANGED <<life, proc, freeFrames>>
      BY DEF LoadContent, AttachToFreed
    <3>3. LoadFails(p) => FramesStep
      BY PrivateDeletionBalanced DEF LoadFails
    <3> QED BY <3>1, <3>2, <3>3, TablesStay, CreateProcessBalanced, DestroyProcessBalanced,
               AttachBalanced, RefusedBalanced, DetachBalanced
  <2>3. CASE \E p \in Procs, child \in Procs : CloneProcess(p, child)
    BY <2>3, CloneProcessBalanced
  <2>4. CASE \E p \in Procs, address \in Addresses : DeleteSegment(p, address)
    BY <2>4, PrivateDeletionBalanced DEF DeleteSegment
  <2>5. CASE \E p \in Procs, address \in Addresses, size \in Sizes :
               \/ CreateSegment(p, address, size) \/ LoadSegment(p, address, size)
               \/ RefuseSegment(p, address, size)
    BY <2>5, PrivateCallsBalanced
  <2>6. CASE \E p \in Procs, address \in Addresses, size \in Sizes, name \in Names :
               CreateSharedSegment(p, address, size, name)
    BY <2>6, BeginAttachBalanced DEF CreateSharedSegment
  <2>7. CASE \E p \in Procs, name \in Names : DisconnectSharedSegment(p, name) \/ DeleteSharedSegment(p, name)
    <3>1. PICK p \in Procs, name \in Names : DisconnectSharedSegment(p, name) \/ DeleteSharedSegment(p, name)
      BY <2>7
    <3>2. DisconnectSharedSegment(p, name) => UNCHANGED <<life, proc, freeFrames>>
      BY DEF DisconnectSharedSegment, BeginDisconnect
    <3> QED BY <3>1, <3>2, TablesStay, DeleteSharedBalanced
  <2>8. CASE /\ job.op = "clone" /\ call[job.process] = Idle
             /\ \E s : CloneOneSegment(s) \/ CloneSharedSegment(s)
    <3>1. PICK s : CloneOneSegment(s) \/ CloneSharedSegment(s)
      BY <2>8
    <3>2. CASE CloneOneSegment(s)
      BY <2>8, <3>2, CloneOneBalanced
    <3>3. CASE CloneSharedSegment(s)
      <4>1. /\ life' = life
            /\ UNCHANGED <<proc, freeFrames>> \/ \E a, b, n : BeginAttach(job.process, a, b, n)
        BY <3>3 DEF CloneSharedSegment
      <4>2. job.process \in Procs
        BY <2>8, Typing, JobIs
      <4> QED BY <4>1, <4>2, TablesStay, BeginAttachBalanced
    <3> QED BY <3>1, <3>2, <3>3
  <2>9. CASE CloneDone \/ CleanUpTurn \/ CleanUpDone
    BY <2>9, CloneDoneBalanced, CleanUpTurnBalanced, CleanUpDoneBalanced
  <2> QED BY <2>1, <2>2, <2>3, <2>4, <2>5, <2>6, <2>7, <2>8, <2>9 DEF Steps
<1> QED BY <1>1, <1>2

LEMMA FramesAre ==
  FramesConserved <=> sizeInFrames = Frames
BY Zenon DEF FramesConserved, Frames, Alive, ValidTables

LEMMA InitFrames ==
  ASSUME Init
  PROVE  FramesConserved
<1>1. freeFrames = sizeInFrames /\ Alive = {} /\ ValidTables = {} /\ sizeInFrames \in Nat
  BY NewProcessGood, CallsAssumption DEF Init, Alive, ValidTables
<1>2. Cardinality(Alive) = 0 /\ Cardinality(ValidTables) = 0
  BY <1>1, FS_EmptySet
<1> QED BY <1>1, <1>2, FramesAre DEF Frames

\* No frame of the page table memory is lost or given out twice, over failed
\* creations, rolled back clones and destroyed processes: the counts of
\* allocateEmptySegment and the returns of deleteSegmentImpl meet.
THEOREM NoFrameIsLost ==
  ASSUME NoWrap, SameWidth
  PROVE  Spec => []FramesConserved
<1>1. Init => FramesConserved
  BY InitFrames
<1>2. Bookkeeping /\ FramesConserved /\ [Next]_vars => FramesConserved'
  <2>1. ASSUME Bookkeeping, FramesConserved, [Next]_vars
        PROVE  FramesConserved'
    <3>1. Frames' = Frames
      BY <2>1, FramesKept DEF FramesStep
    <3>2. UNCHANGED sizeInFrames
      BY <2>1, NextIsSteps DEF vars
    <3>3. sizeInFrames = Frames
      BY <2>1, FramesAre
    <3>4. FramesConserved' <=> sizeInFrames' = Frames'
      BY Zenon DEF FramesConserved, Frames, Alive, ValidTables
    <3> QED BY <3>1, <3>2, <3>3, <3>4
  <2> QED BY <2>1
<1> QED BY <1>1, <1>2, BookkeepingKept, PTL DEF Spec

\* The bookkeeping of a process, of its tables and of their memory agree.
THEOREM BookkeepingAgrees ==
  ASSUME NoWrap, SameWidth
  PROVE  Spec => []Accounted
BY EveryPageHasOneSegment, TablesAreCounted, NoFrameIsLost, PTL DEF Accounted

\* The members keep their shapes, and the free frames stay within the memory.
THEOREM TypeCorrect ==
  ASSUME NoWrap, SameWidth
  PROVE  Spec => []TypeOK
<1>1. ASSUME Bookkeeping, FramesConserved
      PROVE  TypeOK
  <2>1. ASSUME NEW p \in Procs
        PROVE  LET pr == proc[p] IN
               /\ \A s \in DOMAIN pr.segments : s \in PageIds /\ pr.segments[s] \in Segment
               /\ pr.allocated \subseteq PageIds
               /\ pr.pmt1 \in [TableIds -> [pmt2Valid : BOOLEAN, numValidPMT2Entries : Nat]]
               /\ DOMAIN pr.sharedSegmentVirtualAddressMap \subseteq Names
               /\ \A n \in DOMAIN pr.sharedSegmentVirtualAddressMap :
                    pr.sharedSegmentVirtualAddressMap[n] \in Nat
               /\ \A a \in DOMAIN pr.virtualAddressSharedSegmentMap :
                    a \in Nat /\ pr.virtualAddressSharedSegmentMap[a] \in Names \cup {NoName}
               /\ call[p].op \in {"idle", "load"} \cup SharedCalls
    <3> DEFINE pr == proc[p]
               m == pr.segments
               f == pr.sharedSegmentVirtualAddressMap
               g == pr.virtualAddressSharedSegmentMap
    <3>1. pr \in Process /\ call[p] \in SegmentCall
      BY <1>1, Typing
    <3>2. /\ m \in Partial(PageIds, Segment) /\ f \in Partial(Names, Nat)
          /\ g \in Partial(Nat, Names \cup {NoName})
          /\ pr.allocated \in SUBSET PageIds
          /\ pr.pmt1 \in [TableIds -> [pmt2Valid : BOOLEAN, numValidPMT2Entries : Nat]]
      <4> HIDE DEF pr
      <4> QED BY <3>1, ProcessIs
    <3> HIDE DEF m, f, g
    <3>3. DOMAIN m \subseteq PageIds /\ \A s \in DOMAIN m : m[s] \in Segment
      BY <3>2, PartialIs
    <3>4. DOMAIN f \subseteq Names /\ \A n \in DOMAIN f : f[n] \in Nat
      BY <3>2, PartialIs
    <3>5. DOMAIN g \subseteq Nat /\ \A a \in DOMAIN g : g[a] \in Names \cup {NoName}
      BY <3>2, PartialIs
    <3>6. call[p].op \in {"idle", "load"} \cup SharedCalls
      BY <3>1, CallIs DEF SharedCalls
    <3> QED BY <3>2, <3>3, <3>4, <3>5, <3>6 DEF m, f, g
  <2>2. sizeInFrames \in PMTSizes /\ freeFrames \in 0 .. sizeInFrames
    <3>1. sizeInFrames = freeFrames + Cardinality(Alive) + Cardinality(ValidTables)
      BY <1>1, FramesAre DEF Frames
    <3>2. freeFrames \in Nat /\ sizeInFrames \in PMTSizes
      BY <1>1, Typing DEF ProcsShaped
    <3> QED BY <3>1, <3>2, CountsAreNat
  <2>3. /\ DOMAIN segmentsMap \subseteq Names
        /\ \A n \in DOMAIN segmentsMap :
             segmentsMap[n].size \in Nat \ {0} /\ segmentsMap[n].owners \subseteq Procs
    <3> DEFINE Entry == [size : Nat \ {0}, owners : SUBSET Procs]
    <3>1. segmentsMap \in Partial(Names, Entry)
      BY <1>1, Typing
    <3>2. \A e \in Entry : e.size \in Nat \ {0} /\ e.owners \subseteq Procs
      OBVIOUS
    <3> HIDE DEF Entry
    <3> QED BY <3>1, <3>2, PartialIs
  <2>4. /\ life \in [Procs -> Stages] /\ crashed \in BOOLEAN /\ spoiled \subseteq Procs
        /\ job.op \in {"none", "clone", "rollback", "destroy"}
    BY <1>1, Typing, JobIs DEF ProcsShaped
  <2> QED BY <2>1, <2>2, <2>3, <2>4 DEF TypeOK
<1>2. Bookkeeping /\ FramesConserved => TypeOK
  BY <1>1
<1> QED BY <1>2, BookkeepingKept, NoFrameIsLost, PTL

---------------------------------------------------------------------------
(* The maps of shared names.                                               *)

\* The loop that rolls p back may leave names and addresses in its maps.
RolledBack(p) == job.op = "rollback" /\ job.process = p
Between(p)  == IF call[p].op \in SharedCalls THEN {call[p].name} ELSE {}
Arriving(p) == IF call[p].op \in SharedCalls \ {"disconnect"} THEN {call[p].address} ELSE {}

\* Both maps of a process know each of its shared segments, whose descriptors
\* are there.
Linked(pr, s) ==
  LET name == pr.segments[s].name
      address == virtualAddressFromPage(s)
  IN  /\ address \in DOMAIN pr.virtualAddressSharedSegmentMap
      /\ pr.virtualAddressSharedSegmentMap[address] = name
      /\ name \in DOMAIN pr.sharedSegmentVirtualAddressMap
      /\ pr.sharedSegmentVirtualAddressMap[name] = address
      /\ ~pr.segments[s].dangling
Matched(pr) == \A s \in SharedStarts(pr) : Linked(pr, s)

\* No other names, but those of S, and no other addresses, but those of A
NamesUsed(pr, S) ==
  \A name \in DOMAIN pr.sharedSegmentVirtualAddressMap \ S : AttachedTo(pr, name) # {}
AddressesUsed(pr, A) ==
  \A a \in DOMAIN pr.virtualAddressSharedSegmentMap \ A :
    \E s \in SharedStarts(pr) : virtualAddressFromPage(s) = a

\* The manager knows name with that size, and p as an owner unless its name is
\* in S.
OwnerOf(map, p, name, size, S) ==
  /\ name \in DOMAIN map /\ map[name].size = size
  /\ p \in map[name].owners \/ name \in S
Registered(p) ==
  \A s \in SharedStarts(proc[p]) :
    OwnerOf(segmentsMap, p, proc[p].segments[s].name, proc[p].segments[s].numPages, Between(p))

\* What createSharedSegment finds after the manager has answered
Attaching(pr, c) ==
  /\ AttachedTo(pr, c.name) = {}
  /\ c.name \in DOMAIN pr.sharedSegmentVirtualAddressMap
  /\ pr.sharedSegmentVirtualAddressMap[c.name] = c.address
  /\ c.address \in DOMAIN pr.virtualAddressSharedSegmentMap
  /\ \/ pr.virtualAddressSharedSegmentMap[c.address] = c.name
     \/ \E s \in SharedStarts(pr) : virtualAddressFromPage(s) = c.address
  /\ ~c.dangling

\* What it finds after allocateSharedSegment has failed
Leaving(pr, c) ==
  /\ AttachedTo(pr, c.name) = {}
  /\ \A s \in SharedStarts(pr) : virtualAddressFromPage(s) # c.address
  /\ c.name \in DOMAIN pr.sharedSegmentVirtualAddressMap
  /\ pr.sharedSegmentVirtualAddressMap[c.name] = c.address

Shares(p) ==
  /\ Matched(proc[p]) /\ Registered(p)
  /\ RolledBack(p) \/ (NamesUsed(proc[p], Between(p)) /\ AddressesUsed(proc[p], Arriving(p)))
  /\ call[p].op = "attach" =>
       Attaching(proc[p], call[p]) /\ OwnerOf(segmentsMap, p, call[p].name, call[p].size, {})
  /\ call[p].op = "disconnect" => AttachedTo(proc[p], call[p].name) # {}
  /\ call[p].op \in {"refused", "erase"} => Leaving(proc[p], call[p])

\* The invariant behind SoundUnlessSpoiled
Unborn(p)  == proc[p] = NewProcess /\ call[p] = Idle
Sharing ==
  \A p \in Procs :
    /\ p \in Alive \ spoiled => Shares(p)
    /\ life[p] = "unborn" => Unborn(p)

---------------------------------------------------------------------------

\* An address at which a segment may start is that of its page.
LEMMA StartAddress ==
  ASSUME NEW address \in Nat, NEW s \in Starts(address)
  PROVE  s \in PageIds /\ virtualAddressFromPage(s) = address
<1>1. /\ address <= PagesNum * PageSize - 1 /\ address % PageSize = 0
      /\ s = address \div PageSize
  BY StartsAre DEF Starts, checkVirtualAddressBounds, isVirtualAddressAligned, MaxVirtualAddress,
                   pageFromVA
<1>2. s \in Nat /\ address = s * PageSize
  <2>1. s \in Nat /\ address = s * PageSize + (address % PageSize)
    BY <1>1, Powers, Quotient
  <2>2. s * PageSize \in Nat
    BY <2>1, Powers
  <2> QED BY <1>1, <2>1, <2>2
<1>3. s < PagesNum
  <2>1. 0 \in 0 .. PageSize - 1 /\ PagesNum * PageSize \in Nat
    BY Powers
  <2>2. s * PageSize + 0 < PagesNum * PageSize
    <3> DEFINE m == PagesNum * PageSize
               k == s * PageSize
    <3>1. k = address /\ address <= m - 1 /\ m \in Nat
      BY <1>1, <1>2, <2>1
    <3> HIDE DEF m, k
    <3>2. k + 0 < m
      BY <3>1
    <3> QED BY <3>2 DEF m, k
  <2> QED BY <1>2, <2>1, <2>2, Powers, Cancelled
<1>4. s \in PageIds
  BY <1>2, <1>3, Powers DEF PageIds
<1> QED BY <1>2, <1>4, AddressOfPage

\* Different pages have different addresses.
LEMMA PageOfAddress ==
  ASSUME NEW s \in PageIds
  PROVE  /\ virtualAddressFromPage(s) \in Nat /\ Starts(virtualAddressFromPage(s)) = {s}
         /\ pageFromVA(virtualAddressFromPage(s)) = s
         /\ \A t \in PageIds : virtualAddressFromPage(t) = virtualAddressFromPage(s) => t = s
BY AddressOfPage DEF Starts

\* The shared segment at an address is the one whose page has it.
LEMMA SharedAtIs ==
  ASSUME NEW pr \in Process, NEW address \in Nat
  PROVE  /\ SharedStarts(pr) \subseteq PageIds /\ SharedStarts(pr) \subseteq DOMAIN pr.segments
         /\ SharedAt(pr, address) = {s \in SharedStarts(pr) : virtualAddressFromPage(s) = address}
<1>1. SharedStarts(pr) \subseteq DOMAIN pr.segments
  BY DEF SharedStarts
<1>2. DOMAIN pr.segments \subseteq PageIds
  <2> DEFINE m == pr.segments
  <2>1. m \in Partial(PageIds, Segment)
    BY ProcessIs
  <2> HIDE DEF m
  <2>2. DOMAIN m \subseteq PageIds
    BY <2>1, PartialIs
  <2> QED BY <2>2 DEF m
<1>3. \A s \in Starts(address) : virtualAddressFromPage(s) = address
  BY StartAddress
<1>4. \A s \in PageIds : virtualAddressFromPage(s) = address => s \in Starts(address)
  BY PageOfAddress
<1> QED BY <1>1, <1>2, <1>3, <1>4 DEF SharedAt

\* What Shares(p) asks of the two maps and the segments stays true.
SameSharing(pr, new) ==
  /\ SharedStarts(new) = SharedStarts(pr)
  /\ \A s \in SharedStarts(pr) : new.segments[s] = pr.segments[s]
  /\ new.sharedSegmentVirtualAddressMap = pr.sharedSegmentVirtualAddressMap
  /\ \A a \in DOMAIN pr.virtualAddressSharedSegmentMap :
       /\ a \in DOMAIN new.virtualAddressSharedSegmentMap
       /\ new.virtualAddressSharedSegmentMap[a] = pr.virtualAddressSharedSegmentMap[a]
SameAddresses(pr, new) ==
  DOMAIN new.virtualAddressSharedSegmentMap \subseteq DOMAIN pr.virtualAddressSharedSegmentMap

LEMMA SameIsSame ==
  ASSUME NEW pr
  PROVE  SameSharing(pr, pr) /\ SameAddresses(pr, pr)
BY DEF SameSharing, SameAddresses

LEMMA SameAttached ==
  ASSUME NEW pr, NEW new, SameSharing(pr, new)
  PROVE  \A name : AttachedTo(new, name) = AttachedTo(pr, name)
BY DEF SameSharing, AttachedTo

LEMMA SameMatched ==
  ASSUME NEW pr, NEW new, SameSharing(pr, new), Matched(pr)
  PROVE  Matched(new)
BY DEF SameSharing, Matched, Linked

LEMMA SameUsed ==
  ASSUME NEW pr, NEW new, SameSharing(pr, new)
  PROVE  /\ \A S : NamesUsed(pr, S) => NamesUsed(new, S)
         /\ \A A : SameAddresses(pr, new) /\ AddressesUsed(pr, A) => AddressesUsed(new, A)
         /\ \A c : Attaching(pr, c) => Attaching(new, c)
         /\ \A c : Leaving(pr, c) => Leaving(new, c)
<1>1. \A S : NamesUsed(pr, S) => NamesUsed(new, S)
  BY SameAttached DEF SameSharing, NamesUsed
<1>2. \A A : SameAddresses(pr, new) /\ AddressesUsed(pr, A) => AddressesUsed(new, A)
  BY DEF SameSharing, SameAddresses, AddressesUsed
<1>3. ASSUME NEW c, Attaching(pr, c)
      PROVE  Attaching(new, c)
  <2>1. AttachedTo(new, c.name) = {}
    BY <1>3, SameAttached DEF Attaching
  <2> QED BY <1>3, <2>1 DEF SameSharing, Attaching
<1>4. ASSUME NEW c, Leaving(pr, c)
      PROVE  Leaving(new, c)
  <2>1. AttachedTo(new, c.name) = {}
    BY <1>4, SameAttached DEF Leaving
  <2> QED BY <1>4, <2>1 DEF SameSharing, Leaving
<1> QED BY <1>1, <1>2, <1>3, <1>4

---------------------------------------------------------------------------
(* Who is not concerned by a step.                                         *)

\* The manager keeps what it knows of the names p uses, and p as an owner.
Uses(p, n) == AttachedTo(proc[p], n) # {} \/ (call[p].op = "attach" /\ call[p].name = n)
ManagerKeeps(p) ==
  \A n \in DOMAIN segmentsMap : Uses(p, n) =>
    /\ n \in DOMAIN segmentsMap' /\ segmentsMap'[n].size = segmentsMap[n].size
    /\ p \in segmentsMap[n].owners => p \in segmentsMap'[n].owners
SameCall(p) ==
  \/ call'[p] = call[p]
  \/ {call[p].op, call'[p].op} \subseteq {"idle", "load"}
SameRollback(p) == RolledBack(p) => RolledBack(p)'

LEMMA SharesKept ==
  ASSUME NEW p \in Procs, Shares(p), SameSharing(proc[p], proc'[p]),
         RolledBack(p)' \/ SameAddresses(proc[p], proc'[p]),
         SameCall(p), ManagerKeeps(p), SameRollback(p)
  PROVE  Shares(p)'
<1> DEFINE pr == proc[p]
           new == proc'[p]
<1>1. Between(p)' = Between(p) /\ Arriving(p)' = Arriving(p)
  BY DEF SameCall, Between, Arriving, SharedCalls
<1>2. SameSharing(pr, new) /\ (RolledBack(p)' \/ SameAddresses(pr, new))
  OBVIOUS
<1>3. Matched(new)
  BY <1>2, SameMatched DEF Shares
<1>4. Registered(p)'
  <2>1. ASSUME NEW s \in SharedStarts(new)
        PROVE  OwnerOf(segmentsMap', p, new.segments[s].name, new.segments[s].numPages, Between(p)')
    <3>1. s \in SharedStarts(pr) /\ new.segments[s] = pr.segments[s]
      BY <1>2 DEF SameSharing
    <3>2. OwnerOf(segmentsMap, p, pr.segments[s].name, pr.segments[s].numPages, Between(p))
      BY <3>1 DEF Shares, Registered
    <3>3. Uses(p, pr.segments[s].name)
      BY <3>1 DEF Uses, AttachedTo
    <3> QED BY <1>1, <3>1, <3>2, <3>3 DEF OwnerOf, ManagerKeeps
  <2> QED BY <2>1 DEF Registered
<1>5. RolledBack(p)' \/ (NamesUsed(new, Between(p)') /\ AddressesUsed(new, Arriving(p)'))
  BY <1>1, <1>2, SameUsed DEF Shares, SameRollback
<1>6. ASSUME call'[p].op = "attach"
      PROVE  Attaching(new, call'[p]) /\ OwnerOf(segmentsMap', p, call[p].name, call[p].size, {})
  <2>1. call'[p] = call[p]
    BY <1>6 DEF SameCall
  <2>2. Attaching(pr, call[p]) /\ OwnerOf(segmentsMap, p, call[p].name, call[p].size, {})
    BY <1>6, <2>1 DEF Shares
  <2>3. Uses(p, call[p].name)
    BY <1>6, <2>1 DEF Uses
  <2>4. OwnerOf(segmentsMap', p, call[p].name, call[p].size, {})
    BY <2>2, <2>3 DEF OwnerOf, ManagerKeeps
  <2> QED BY <1>2, <2>1, <2>2, <2>4, SameUsed
<1>7. call'[p].op = "disconnect" => AttachedTo(new, call'[p].name) # {}
  BY <1>2, SameAttached DEF Shares, SameCall
<1>8. call'[p].op = "attach" => OwnerOf(segmentsMap', p, call[p].name, call[p].size, {}) /\ call'[p] = call[p]
  BY <1>6 DEF SameCall
<1>9. call'[p].op \in {"refused", "erase"} => Leaving(new, call'[p])
  BY <1>2, SameUsed DEF Shares, SameCall
<1> QED BY <1>3, <1>4, <1>5, <1>6, <1>7, <1>8, <1>9 DEF Shares

\* A step of p, which may add or remove p as an owner
LEMMA OneShares ==
  ASSUME Bookkeeping, Sharing, NEW p \in Procs,
         \A q \in Procs \ {p} : /\ proc'[q] = proc[q] /\ call'[q] = call[q] /\ life'[q] = life[q]
                                /\ ManagerKeeps(q) /\ SameRollback(q),
         spoiled \subseteq spoiled', life'[p] = "unborn" => Unborn(p)',
         life'[p] \in {"live", "cloning", "destroying"} /\ p \notin spoiled' => Shares(p)'
  PROVE  Sharing'
<1>1. ASSUME NEW q \in Procs, q # p
      PROVE  /\ q \in Alive' \ spoiled' => Shares(q)'
             /\ life'[q] = "unborn" => Unborn(q)'
  <2>1. /\ proc'[q] = proc[q] /\ call'[q] = call[q] /\ life'[q] = life[q]
        /\ ManagerKeeps(q) /\ SameRollback(q)
    BY <1>1
  <2>2. q \in Alive' \ spoiled' => Shares(q)
    BY <2>1 DEF Alive, Sharing
  <2>3. SameSharing(proc[q], proc'[q]) /\ SameAddresses(proc[q], proc'[q]) /\ SameCall(q)
    BY <2>1, SameIsSame DEF SameCall
  <2>4. Shares(q) => Shares(q)'
    BY <2>1, <2>3, SharesKept
  <2> QED BY <2>1, <2>2, <2>4 DEF Sharing, Unborn
<1>2. p \in Alive' \ spoiled' => Shares(p)'
  BY DEF Alive
<1> QED BY <1>1, <1>2 DEF Sharing

---------------------------------------------------------------------------
(* Operations on private segments.                                         *)

LEMMA AdmittedIs ==
  ASSUME NEW pr \in Process, Good(pr), NEW address, NEW size, InWord(address, size),
         allocateEmptySegmentOK(pr, address, size),
         NEW segment \in Segment, segment.numPages = size
  PROVE  LET start == pageFromVA(address)
             new == Allocated(pr, start, segment)
         IN  /\ start \in PageIds /\ start \notin DOMAIN pr.segments
             /\ address = virtualAddressFromPage(start)
             /\ new.segments = With(pr.segments, start, segment)
             /\ new.sharedSegmentVirtualAddressMap = pr.sharedSegmentVirtualAddressMap
             /\ new.virtualAddressSharedSegmentMap = pr.virtualAddressSharedSegmentMap
<1> DEFINE start == pageFromVA(address)
<1>1. segmentFits(address, size) /\ SpanOf(start, size) \cap pr.allocated = {}
  BY DEF allocateEmptySegmentOK
<1>2. /\ start \in PageIds /\ start + size <= PagesNum /\ size \in Nat \ {0}
      /\ address = start * PageSize
  BY <1>1, FittingSegment
<1> HIDE DEF start
<1>3. address = virtualAddressFromPage(start)
  BY <1>2, AddressOfPage
<1>4. LET new == Allocated(pr, start, segment)
      IN  /\ start \notin DOMAIN pr.segments
          /\ new.segments = With(pr.segments, start, segment)
          /\ new.sharedSegmentVirtualAddressMap = pr.sharedSegmentVirtualAddressMap
          /\ new.virtualAddressSharedSegmentMap = pr.virtualAddressSharedSegmentMap
  BY <1>1, <1>2, AllocatedGood
<1> QED BY <1>2, <1>3, <1>4 DEF start

LEMMA AdmittedSame ==
  ASSUME NEW pr \in Process, Good(pr), NEW address, NEW size, InWord(address, size),
         allocateEmptySegmentOK(pr, address, size)
  PROVE  LET new == Allocated(pr, pageFromVA(address), Private(size))
         IN  SameSharing(pr, new) /\ SameAddresses(pr, new)
<1> DEFINE start == pageFromVA(address)
           segment == Private(size)
           new == Allocated(pr, start, segment)
<1>1. segment \in Segment /\ segment.numPages = size /\ ~segment.isShared
  BY PrivateIsSegment DEF Private, InWord
<1> HIDE DEF segment
<1>2. /\ start \notin DOMAIN pr.segments
      /\ new.segments = With(pr.segments, start, segment)
      /\ new.sharedSegmentVirtualAddressMap = pr.sharedSegmentVirtualAddressMap
      /\ new.virtualAddressSharedSegmentMap = pr.virtualAddressSharedSegmentMap
  BY <1>1, AdmittedIs
<1> HIDE DEF new, start
<1>3. DOMAIN new.segments = DOMAIN pr.segments \cup {start} /\ new.segments[start] = segment
      /\ \A s \in DOMAIN pr.segments : new.segments[s] = pr.segments[s]
  BY <1>2 DEF With
<1>4. SharedStarts(new) = SharedStarts(pr) /\ SharedStarts(pr) \subseteq DOMAIN pr.segments
  BY <1>1, <1>2, <1>3 DEF SharedStarts
<1>5. SameSharing(pr, new) /\ SameAddresses(pr, new)
  BY <1>2, <1>3, <1>4 DEF SameSharing, SameAddresses
<1> QED BY <1>5 DEF new, start, segment

\* Only a private segment goes.
LEMMA PrivateDeletedSame ==
  ASSUME NEW pr \in Process, Good(pr), NEW address
  PROVE  LET new == deleteSegmentPrivate(pr, address)
         IN  SameSharing(pr, new) /\ SameAddresses(pr, new)
<1> DEFINE new == deleteSegmentPrivate(pr, address)
           start == pageFromVA(address)
<1>1. CASE PrivateAt(pr, address) = {}
  <2>1. new = pr
    BY <1>1 DEF deleteSegmentPrivate
  <2> QED BY <2>1, SameIsSame
<1>2. CASE PrivateAt(pr, address) # {}
  <2>1. start \in PrivateStarts(pr) /\ new = Deleted(pr, start)
    BY <1>2 DEF deleteSegmentPrivate, PrivateAt, Starts
  <2>2. start \in DOMAIN pr.segments /\ start \notin SharedStarts(pr)
    BY <2>1 DEF PrivateStarts
  <2> HIDE DEF new, start
  <2>3. /\ new.segments = Without(pr.segments, start)
        /\ new.sharedSegmentVirtualAddressMap = pr.sharedSegmentVirtualAddressMap
        /\ new.virtualAddressSharedSegmentMap = pr.virtualAddressSharedSegmentMap
    BY <2>1, <2>2, DeletedGood
  <2>4. DOMAIN new.segments = DOMAIN pr.segments \ {start}
        /\ \A s \in DOMAIN pr.segments \ {start} : new.segments[s] = pr.segments[s]
    BY <2>3 DEF Without, Restrict
  <2>5. SharedStarts(new) = SharedStarts(pr) /\ SharedStarts(pr) \subseteq DOMAIN pr.segments \ {start}
    BY <2>2, <2>4 DEF SharedStarts
  <2>6. SameSharing(pr, new) /\ SameAddresses(pr, new)
    BY <2>3, <2>4, <2>5 DEF SameSharing, SameAddresses
  <2> QED BY <2>6 DEF new
<1> QED BY <1>1, <1>2

\* A step in which one process changes nothing that is shared
LEMMA SameShares ==
  ASSUME Bookkeeping, Sharing, NEW p \in Procs, life[p] # "unborn",
         NEW new, proc' = [proc EXCEPT ![p] = new],
         SameSharing(proc[p], new), SameAddresses(proc[p], new),
         SameCall(p), \A q \in Procs \ {p} : call'[q] = call[q] /\ life'[q] = life[q],
         \A q \in Procs : SameRollback(q),
         UNCHANGED <<segmentsMap, spoiled>>, life'[p] # "unborn",
         p \in Alive' => p \in Alive
  PROVE  Sharing'
<1>1. proc'[p] = new /\ \A q \in Procs \ {p} : proc'[q] = proc[q]
  BY Typing DEF ProcsShaped
<1>2. \A q \in Procs : ManagerKeeps(q)
  BY DEF ManagerKeeps
<1>3. ASSUME p \in Alive', p \notin spoiled'
      PROVE  Shares(p)'
  <2>1. Shares(p)
    BY <1>3 DEF Sharing
  <2>2. SameSharing(proc[p], proc'[p]) /\ SameAddresses(proc[p], proc'[p])
    BY <1>1
  <2> QED BY <1>2, <2>1, <2>2, SharesKept
<1>4. life'[p] \in {"live", "cloning", "destroying"} /\ p \notin spoiled' => Shares(p)'
  BY <1>3 DEF Alive
<1> QED BY <1>1, <1>2, <1>4, OneShares

LEMMA NotUnborn ==
  ASSUME Bookkeeping, Sharing, NEW p \in Procs,
         call[p].op # "idle" \/ life[p] \in {"live", "cloning", "destroying", "dead", "hollow"}
  PROVE  life[p] # "unborn"
<1>1. Idle.op = "idle"
  BY DEF Idle
<1> QED BY <1>1 DEF Sharing, Unborn

LEMMA LiveIs ==
  ASSUME Bookkeeping, Sharing, NEW p \in Procs, Calls(p)
  PROVE  life[p] = "live" /\ life[p] # "unborn" /\ p \in Alive /\ call[p] = Idle /\ call[p].op = "idle"
BY DEF Calls, Alive, Idle

LEMMA AdmittedShares ==
  ASSUME NoWrap, Bookkeeping, Sharing, NEW p \in Procs, NEW address \in Addresses, NEW size \in Sizes,
         AllocatePrivate(p, address, size),
         call' = call \/ SetCall(p, [op |-> "load", address |-> address])
  PROVE  Sharing'
<1> DEFINE pr == proc[p]
           new == Allocated(pr, pageFromVA(address), Private(size))
<1>1. /\ allocateEmptySegmentOK(pr, address, size) /\ proc' = [proc EXCEPT ![p] = new]
      /\ UNCHANGED <<life, segmentsMap, job, spoiled>> /\ Calls(p)
  BY DEF AllocatePrivate, Commit, history
<1>2. pr \in Process /\ Good(pr) /\ InWord(address, size)
  BY Typing DEF NoWrap
<1>3. SameSharing(pr, new) /\ SameAddresses(pr, new)
  <2> HIDE DEF pr
  <2> QED BY <1>1, <1>2, AdmittedSame
<1> HIDE DEF new
<1>4. SameCall(p) /\ \A q \in Procs \ {p} : call'[q] = call[q]
  <2> DEFINE c == [op |-> "load", address |-> address]
  <2>1. c.op = "load" /\ call[p].op = "idle"
    BY <1>1, LiveIs
  <2>2. call' = call \/ call' = [call EXCEPT ![p] = c]
    BY DEF SetCall
  <2> HIDE DEF c
  <2> QED BY <2>1, <2>2, Typing DEF SameCall
<1>5. \A q \in Procs : SameRollback(q)
  BY <1>1 DEF SameRollback, RolledBack
<1>6. life[p] # "unborn" /\ life'[p] # "unborn" /\ (p \in Alive' => p \in Alive)
  BY <1>1, LiveIs DEF Alive
<1> QED BY <1>1, <1>3, <1>4, <1>5, <1>6, SameShares

\* A deletion by address, or nothing
LEMMA DeletionShares ==
  ASSUME Bookkeeping, Sharing, NEW p \in Procs, life[p] # "unborn", NEW new,
         proc' = [proc EXCEPT ![p] = new],
         new = proc[p] \/ \E address : new = deleteSegmentPrivate(proc[p], address),
         \/ UNCHANGED call
         \/ call[p].op \in {"idle", "load"} /\ SetCall(p, Idle),
         UNCHANGED <<life, segmentsMap, spoiled>>, \A q \in Procs : SameRollback(q)
  PROVE  Sharing'
<1>1. SameSharing(proc[p], new) /\ SameAddresses(proc[p], new)
  BY Typing, SameIsSame, PrivateDeletedSame
<1>2. SameCall(p) /\ \A q \in Procs \ {p} : call'[q] = call[q]
  BY Typing DEF SameCall, SetCall, Idle
<1>3. life'[p] # "unborn" /\ (p \in Alive' => p \in Alive)
  BY DEF Alive
<1> QED BY <1>1, <1>2, <1>3, SameShares

LEMMA PrivateCallsShare ==
  ASSUME NoWrap, Bookkeeping, Sharing, NEW p \in Procs,
         NEW address \in Addresses, NEW size \in Sizes,
         \/ CreateSegment(p, address, size) \/ LoadSegment(p, address, size)
         \/ RefuseSegment(p, address, size)
  PROVE  Sharing'
<1>1. CASE CreateSegment(p, address, size)
  BY <1>1, AdmittedShares DEF CreateSegment
<1>2. CASE LoadSegment(p, address, size)
  BY <1>2, AdmittedShares DEF LoadSegment
<1>3. CASE RefuseSegment(p, address, size)
  <2> DEFINE new == deleteSegmentPrivate(proc[p], address)
  <2>1. /\ proc' = [proc EXCEPT ![p] = new] /\ Calls(p)
        /\ UNCHANGED <<life, call, segmentsMap, job, spoiled>>
    BY <1>3 DEF RefuseSegment, Commit, history
  <2>2. new = proc[p] \/ \E a : new = deleteSegmentPrivate(proc[p], a)
    OBVIOUS
  <2> HIDE DEF new
  <2>3. \A q \in Procs : SameRollback(q)
    BY <2>1 DEF SameRollback, RolledBack
  <2> QED BY <2>1, <2>2, <2>3, LiveIs, DeletionShares
<1> QED BY <1>1, <1>2, <1>3

LEMMA DeleteAndLoadShare ==
  ASSUME Bookkeeping, Sharing, NEW p \in Procs,
         LoadContent(p) \/ LoadFails(p) \/ \E address \in Addresses : DeleteSegment(p, address)
  PROVE  Sharing'
<1>1. PICK new : /\ proc' = [proc EXCEPT ![p] = new]
                 /\ new = proc[p] \/ \E address : new = deleteSegmentPrivate(proc[p], address)
  <2>1. CASE LoadContent(p)
    <3>1. proc' = [proc EXCEPT ![p] = proc[p]]
      BY <2>1, Typing DEF LoadContent, ProcsShaped
    <3> QED BY <3>1
  <2>2. CASE LoadFails(p)
    BY <2>2 DEF LoadFails, Commit
  <2>3. CASE \E address \in Addresses : DeleteSegment(p, address)
    BY <2>3 DEF DeleteSegment, Commit
  <2> QED BY <2>1, <2>2, <2>3
<1>2. /\ \/ UNCHANGED call
         \/ call[p].op \in {"idle", "load"} /\ SetCall(p, Idle)
      /\ UNCHANGED <<life, segmentsMap, job, spoiled>>
      /\ call[p].op # "idle" \/ life[p] = "live"
  BY DEF LoadContent, LoadFails, DeleteSegment, Calls, history
<1>3. \A q \in Procs : SameRollback(q)
  BY <1>2 DEF SameRollback, RolledBack
<1>4. life[p] # "unborn"
  BY <1>2, NotUnborn
<1> QED BY <1>1, <1>2, <1>3, <1>4, DeletionShares

LEMMA DestroyShares ==
  ASSUME Bookkeeping, Sharing, NEW p \in Procs, DestroyProcess(p)
  PROVE  Sharing'
<1>1. /\ Calls(p) /\ job = NoJob /\ life' = [life EXCEPT ![p] = "destroying"]
      /\ UNCHANGED <<proc, call, segmentsMap, spoiled>>
  BY DEF DestroyProcess, ksMutexFree, history
<1>2. proc' = [proc EXCEPT ![p] = proc[p]]
  BY <1>1, Typing DEF ProcsShaped
<1>3. life'[p] = "destroying" /\ \A q \in Procs \ {p} : life'[q] = life[q]
  BY <1>1, Typing
<1>4. \A q \in Procs : SameRollback(q)
  BY <1>1 DEF SameRollback, RolledBack, NoJob
<1>5. SameSharing(proc[p], proc[p]) /\ SameAddresses(proc[p], proc[p]) /\ SameCall(p)
  BY <1>1, SameIsSame DEF SameCall
<1>6. \A q \in Procs \ {p} : call'[q] = call[q] /\ life'[q] = life[q]
  BY <1>1, <1>3
<1>7. life[p] # "unborn" /\ p \in Alive
  BY <1>1, LiveIs
<1> QED BY <1>1, <1>2, <1>3, <1>4, <1>5, <1>6, <1>7, SameShares

LEMMA CloneDoneShares ==
  ASSUME Bookkeeping, Sharing, CloneDone
  PROVE  Sharing'
<1>1. PICK p \in Procs : p = job.process
  BY Typing, JobIs DEF CloneDone
<1>2. /\ job.op = "clone" /\ life' = [life EXCEPT ![p] = "live"]
      /\ UNCHANGED <<proc, call, segmentsMap, spoiled>>
  BY <1>1 DEF CloneDone, history
<1>3. proc' = [proc EXCEPT ![p] = proc[p]]
  BY <1>2, Typing DEF ProcsShaped
<1>4. life[p] = "cloning"
  BY <1>1, <1>2, Typing DEF JobFits
<1>5. life'[p] = "live" /\ \A q \in Procs \ {p} : life'[q] = life[q]
  BY <1>2, Typing
<1>6. \A q \in Procs : SameRollback(q)
  BY <1>2 DEF SameRollback, RolledBack
<1>7. SameSharing(proc[p], proc[p]) /\ SameAddresses(proc[p], proc[p]) /\ SameCall(p)
  BY <1>2, SameIsSame DEF SameCall
<1>8. \A q \in Procs \ {p} : call'[q] = call[q] /\ life'[q] = life[q]
  BY <1>2, <1>5
<1>9. life[p] # "unborn" /\ p \in Alive
  BY <1>4 DEF Alive
<1> QED BY <1>2, <1>3, <1>5, <1>6, <1>7, <1>8, <1>9, SameShares

LEMMA CloneOneShares ==
  ASSUME Bookkeeping, Sharing, job.op = "clone", NEW s, CloneOneSegment(s)
  PROVE  Sharing'
<1>1. PICK p \in Procs : p = job.process
  BY Typing, JobIs
<1> DEFINE parent == proc[job.parent]
           child == proc[p]
           address == virtualAddressFromPage(s)
           size == parent.segments[s].numPages
<1>2. /\ UNCHANGED <<life, call, segmentsMap, spoiled>> /\ s \in DOMAIN parent.segments
      /\ \/ /\ allocateEmptySegmentOK(child, address, size)
            /\ proc' = [proc EXCEPT ![p] = Allocated(child, s, Private(size))]
         \/ proc' = [proc EXCEPT ![p] = deleteSegmentPrivate(child, address)]
  BY <1>1 DEF CloneOneSegment, Commit, PrivateStarts, history
<1>3. parent \in Process /\ Good(parent) /\ child \in Process /\ Good(child)
  BY Typing, JobIs
<1>4. InWord(address, size) /\ pageFromVA(address) = s
  <2> HIDE DEF parent
  <2> QED BY <1>2, <1>3, SegmentAddress
<1>5. life[p] = "cloning"
  BY <1>1, Typing DEF JobFits
<1>6. \A q \in Procs : SameRollback(q)
  BY DEF SameRollback, RolledBack
<1>7. CASE proc' = [proc EXCEPT ![p] = deleteSegmentPrivate(child, address)]
  <2> DEFINE new == deleteSegmentPrivate(child, address)
  <2>1. new = proc[p] \/ \E a : new = deleteSegmentPrivate(proc[p], a)
    OBVIOUS
  <2>2. proc' = [proc EXCEPT ![p] = new]
    BY <1>7
  <2> HIDE DEF new
  <2> QED BY <1>2, <1>5, <1>6, <2>1, <2>2, DeletionShares
<1>8. CASE /\ allocateEmptySegmentOK(child, address, size)
           /\ proc' = [proc EXCEPT ![p] = Allocated(child, s, Private(size))]
  <2> DEFINE new == Allocated(child, pageFromVA(address), Private(size))
  <2>1. SameSharing(child, new) /\ SameAddresses(child, new)
    <3> HIDE DEF child, address, size
    <3> QED BY <1>3, <1>4, <1>8, AdmittedSame
  <2>2. proc' = [proc EXCEPT ![p] = new]
    BY <1>4, <1>8
  <2> HIDE DEF new
  <2>3. SameCall(p) /\ \A q \in Procs \ {p} : call'[q] = call[q] /\ life'[q] = life[q]
    BY <1>2 DEF SameCall
  <2>4. life[p] # "unborn" /\ p \in Alive /\ life'[p] # "unborn"
    BY <1>2, <1>5 DEF Alive
  <2> QED BY <1>2, <1>6, <2>1, <2>2, <2>3, <2>4, SameShares
<1> QED BY <1>2, <1>7, <1>8

---------------------------------------------------------------------------
(* Attaching and disconnecting.                                            *)

LEMMA EmplaceIs ==
  ASSUME NEW m, NEW x, NEW y
  PROVE  /\ DOMAIN Emplace(m, x, y) = DOMAIN m \cup {x}
         /\ \A z \in DOMAIN m : Emplace(m, x, y)[z] = m[z]
         /\ x \notin DOMAIN m => Emplace(m, x, y)[x] = y
BY DEF Emplace, With

\* Only the segments and the two maps matter.
LEMMA SameSegments ==
  ASSUME NEW pr, NEW new, new.segments = pr.segments
  PROVE  SharedStarts(new) = SharedStarts(pr) /\ \A n : AttachedTo(new, n) = AttachedTo(pr, n)
BY DEF SharedStarts, AttachedTo

\* createSharedSegment has asked the manager; the maps name what is on its way.
LEMMA BeginAttachShares ==
  ASSUME Bookkeeping, Sharing, NEW p \in Procs, NEW address, NEW size, NEW name,
         call[p] = Idle, life[p] # "unborn", ~RolledBack(p), ~RolledBack(p)',
         BeginAttach(p, address, size, name), UNCHANGED life,
         \A q \in Procs : SameRollback(q)
  PROVE  Sharing'
<1> DEFINE pr == proc[p]
           f0 == pr.sharedSegmentVirtualAddressMap
           g0 == pr.virtualAddressSharedSegmentMap
           f == Emplace(f0, name, address)
           g == Emplace(g0, address, name)
           c == [op |-> "attach", address |-> address, size |-> size,
                 name |-> name, dangling |-> FALSE]
           owners == IF name \in DOMAIN segmentsMap THEN segmentsMap[name].owners ELSE {}
           entry == [size |-> size, owners |-> owners \cup {p}]
<1>1. /\ segmentsMap' = With(segmentsMap, name, entry)
      /\ proc' = [proc EXCEPT ![p].sharedSegmentVirtualAddressMap = f,
                              ![p].virtualAddressSharedSegmentMap = g]
      /\ call' = [call EXCEPT ![p] = c]
      /\ spoiled' = spoiled \cup IF AttachedTo(pr, name) = {} THEN {} ELSE {p}
      /\ name \in DOMAIN segmentsMap => segmentsMap[name].size = size
  BY DEF BeginAttach, SetCall, Spoil, createSharedSegmentOK
<1>2. pr \in Process /\ Good(pr) /\ proc \in [Procs -> Process] /\ call \in [Procs -> SegmentCall]
  BY Typing DEF ProcsShaped
<1>3. PICK new : /\ proc' = [proc EXCEPT ![p] = new] /\ new.segments = pr.segments
                 /\ new.sharedSegmentVirtualAddressMap = f
                 /\ new.virtualAddressSharedSegmentMap = g
  <2> HIDE DEF f, g
  <2>1. proc' = [proc EXCEPT ![p] = [pr EXCEPT !.sharedSegmentVirtualAddressMap = f,
                                               !.virtualAddressSharedSegmentMap = g]]
    BY <1>1, <1>2
  <2>2. PICK new : new = [pr EXCEPT !.sharedSegmentVirtualAddressMap = f,
                                    !.virtualAddressSharedSegmentMap = g]
    OBVIOUS
  <2>3. /\ new.segments = pr.segments /\ new.sharedSegmentVirtualAddressMap = f
        /\ new.virtualAddressSharedSegmentMap = g
    <3> HIDE DEF pr
    <3>1. pr \in Process
      BY <1>2
    <3> QED BY <2>2, <3>1, ProcessIs
  <2> QED BY <2>1, <2>2, <2>3
<1>4. proc'[p] = new /\ call'[p] = c /\ \A q \in Procs \ {p} : proc'[q] = proc[q] /\ call'[q] = call[q]
  <2> HIDE DEF c
  <2> QED BY <1>1, <1>2, <1>3
<1>5. entry.size = size /\ p \in entry.owners /\ owners \subseteq entry.owners
  OBVIOUS
<1> HIDE DEF entry
<1>6. /\ name \in DOMAIN segmentsMap' /\ segmentsMap'[name] = entry
      /\ \A n \in DOMAIN segmentsMap :
           /\ n \in DOMAIN segmentsMap' /\ segmentsMap'[n].size = segmentsMap[n].size
           /\ segmentsMap[n].owners \subseteq segmentsMap'[n].owners
  <2>0. segmentsMap' = With(segmentsMap, name, entry)
    BY <1>1
  <2>1. name \in DOMAIN segmentsMap' /\ segmentsMap'[name] = entry
    BY <2>0 DEF With
  <2>2. \A n \in DOMAIN segmentsMap : n \in DOMAIN segmentsMap'
    BY <2>0 DEF With
  <2>3. \A n \in DOMAIN segmentsMap \ {name} : segmentsMap'[n] = segmentsMap[n]
    BY <2>0 DEF With
  <2>4. name \in DOMAIN segmentsMap => segmentsMap[name].owners \subseteq entry.owners
    BY <1>5
  <2> QED BY <1>1, <1>5, <2>1, <2>2, <2>3, <2>4
<1>7. \A q \in Procs : ManagerKeeps(q)
  BY <1>6 DEF ManagerKeeps
<1>8. ASSUME p \in Alive, p \notin spoiled'
      PROVE  Shares(p)'
  <2>1. Shares(p) /\ AttachedTo(pr, name) = {}
    BY <1>1, <1>8 DEF Sharing
  <2>2. Between(p) = {} /\ Arriving(p) = {}
    BY DEF Between, Arriving, SharedCalls, Idle
  <2>3. NamesUsed(pr, {}) /\ AddressesUsed(pr, {}) /\ Matched(pr)
    BY <2>1, <2>2 DEF Shares
  <2>4. name \notin DOMAIN f0
    BY <2>1, <2>3 DEF NamesUsed
  <2>5. SharedStarts(new) = SharedStarts(pr) /\ \A n : AttachedTo(new, n) = AttachedTo(pr, n)
    BY <1>3, SameSegments
  <2> HIDE DEF f0, g0
  <2>6. /\ DOMAIN f = DOMAIN f0 \cup {name} /\ f[name] = address
        /\ \A n \in DOMAIN f0 : f[n] = f0[n]
    BY <2>4, EmplaceIs
  <2>7. /\ DOMAIN g = DOMAIN g0 \cup {address} /\ \A a \in DOMAIN g0 : g[a] = g0[a]
        /\ address \notin DOMAIN g0 => g[address] = name
    BY DEF Emplace, With
  <2> HIDE DEF f, g
  <2>8. Matched(new)
    BY <1>3, <2>3, <2>5, <2>6, <2>7 DEF Matched, Linked, f0, g0
  <2>9. NamesUsed(new, {name}) /\ AddressesUsed(new, {address})
    BY <1>3, <2>3, <2>5, <2>6, <2>7 DEF NamesUsed, AddressesUsed, f0, g0
  <2>10. c.op = "attach" /\ c.address = address /\ c.name = name /\ c.size = size /\ ~c.dangling
    OBVIOUS
  <2> HIDE DEF c
  <2>11. Between(p)' = {name} /\ Arriving(p)' = {address}
    BY <1>4, <2>10 DEF Between, Arriving, SharedCalls
  <2>12. Attaching(new, c)
    <3>1. g[address] = name \/ \E s \in SharedStarts(new) : virtualAddressFromPage(s) = address
      BY <2>3, <2>5, <2>7 DEF AddressesUsed, g0
    <3> QED BY <1>3, <2>1, <2>5, <2>6, <2>7, <2>10, <3>1 DEF Attaching
  <2>13. Registered(p)'
    <3>1. ASSUME NEW s \in SharedStarts(new)
          PROVE  OwnerOf(segmentsMap', p, new.segments[s].name, new.segments[s].numPages, Between(p)')
      <4>1. OwnerOf(segmentsMap, p, pr.segments[s].name, pr.segments[s].numPages, {})
        BY <2>1, <2>2, <2>5, <3>1 DEF Shares, Registered
      <4> QED BY <1>3, <1>6, <4>1 DEF OwnerOf
    <3> QED BY <1>4, <3>1 DEF Registered
  <2>14. OwnerOf(segmentsMap', p, name, size, {})
    BY <1>5, <1>6 DEF OwnerOf
  <2> QED BY <1>4, <2>8, <2>9, <2>10, <2>11, <2>12, <2>13, <2>14 DEF Shares
<1>9. life'[p] \in {"live", "cloning", "destroying"} /\ p \notin spoiled' => Shares(p)'
  BY <1>8 DEF Alive
<1>10. spoiled \subseteq spoiled' /\ life'[p] # "unborn"
  BY <1>1
<1>11. \A q \in Procs \ {p} : /\ proc'[q] = proc[q] /\ call'[q] = call[q] /\ life'[q] = life[q]
                              /\ ManagerKeeps(q) /\ SameRollback(q)
  BY <1>4, <1>7
<1> QED BY <1>9, <1>10, <1>11, OneShares

\* A shared segment at an address that both maps have for its name
LEMMA AttachedIs ==
  ASSUME NEW pr \in Process, NEW new \in Process, Matched(pr), NEW c, Attaching(pr, c),
         NEW start \in PageIds, start \notin DOMAIN pr.segments,
         c.address = virtualAddressFromPage(start),
         NEW segment, segment.isShared, segment.name = c.name, segment.dangling = c.dangling,
         new.segments = With(pr.segments, start, segment),
         new.sharedSegmentVirtualAddressMap = pr.sharedSegmentVirtualAddressMap,
         new.virtualAddressSharedSegmentMap = pr.virtualAddressSharedSegmentMap
  PROVE  /\ SharedStarts(new) = SharedStarts(pr) \cup {start} /\ new.segments[start] = segment
         /\ \A s \in SharedStarts(pr) : new.segments[s] = pr.segments[s] /\ pr.segments[s].name # c.name
         /\ Matched(new)
         /\ NamesUsed(pr, {c.name}) => NamesUsed(new, {})
         /\ AddressesUsed(pr, {c.address}) => AddressesUsed(new, {})
<1>1. DOMAIN new.segments = DOMAIN pr.segments \cup {start} /\ new.segments[start] = segment
      /\ \A s \in DOMAIN pr.segments : new.segments[s] = pr.segments[s]
  BY DEF With
<1>2. SharedStarts(pr) \subseteq DOMAIN pr.segments
  BY DEF SharedStarts
<1>3. SharedStarts(new) = SharedStarts(pr) \cup {start}
  BY <1>1 DEF SharedStarts
<1>4. \A s \in SharedStarts(pr) : new.segments[s] = pr.segments[s] /\ pr.segments[s].name # c.name
  BY <1>1, <1>2 DEF Attaching, AttachedTo
<1>5. SharedStarts(pr) \subseteq PageIds
  <2>1. 0 \in Nat
    OBVIOUS
  <2> QED BY <2>1, SharedAtIs
<1>6. ~ \E s \in SharedStarts(pr) : virtualAddressFromPage(s) = c.address
  BY <1>2, <1>5, PageOfAddress
<1>7. Linked(new, start)
  BY <1>1, <1>6 DEF Linked, Attaching
<1>8. Matched(new)
  <2>1. ASSUME NEW s \in SharedStarts(new)
        PROVE  Linked(new, s)
    <3>1. CASE s = start
      BY <1>7, <3>1
    <3>2. CASE s \in SharedStarts(pr)
      BY <1>4, <3>2 DEF Matched, Linked
    <3> QED BY <1>3, <2>1, <3>1, <3>2
  <2> QED BY <2>1 DEF Matched
<1>9. ASSUME NamesUsed(pr, {c.name})
      PROVE  NamesUsed(new, {})
  <2>1. \A n : AttachedTo(pr, n) \subseteq AttachedTo(new, n)
    BY <1>3, <1>4 DEF AttachedTo
  <2>2. start \in AttachedTo(new, c.name)
    BY <1>1, <1>3 DEF AttachedTo
  <2> QED BY <1>9, <2>1, <2>2 DEF NamesUsed
<1>10. ASSUME AddressesUsed(pr, {c.address})
       PROVE  AddressesUsed(new, {})
  BY <1>3, <1>10 DEF AddressesUsed
<1> QED BY <1>1, <1>3, <1>4, <1>8, <1>9, <1>10

LEMMA AttachShares ==
  ASSUME Bookkeeping, Sharing, NEW p \in Procs, Attach(p)
  PROVE  Sharing'
<1> DEFINE c == call[p]
           pr == proc[p]
           start == pageFromVA(c.address)
           segment == [numPages |-> c.size, isShared |-> TRUE, name |-> c.name, dangling |-> c.dangling]
           new == Allocated(pr, start, segment)
<1>1. /\ c.op = "attach" /\ allocateEmptySegmentOK(pr, c.address, c.size)
      /\ proc' = [proc EXCEPT ![p] = new] /\ call' = [call EXCEPT ![p] = Idle]
      /\ UNCHANGED <<life, segmentsMap, job, spoiled>>
  BY DEF Attach, Commit, SetCall, history
<1>2. c \in SegmentCall /\ InWord(c.address, c.size) /\ pr \in Process /\ Good(pr)
  BY <1>1, Typing DEF CallsFit
<1>3. /\ segment \in Segment /\ segment.numPages = c.size /\ segment.isShared
      /\ segment.name = c.name /\ segment.dangling = c.dangling
  <2> HIDE DEF c
  <2> QED BY <1>1, <1>2, CallIs DEF Segment
<1> HIDE DEF segment
<1>4. /\ start \in PageIds /\ start \notin DOMAIN pr.segments
      /\ c.address = virtualAddressFromPage(start)
      /\ new.segments = With(pr.segments, start, segment)
      /\ new.sharedSegmentVirtualAddressMap = pr.sharedSegmentVirtualAddressMap
      /\ new.virtualAddressSharedSegmentMap = pr.virtualAddressSharedSegmentMap
  <2> HIDE DEF c, pr
  <2> QED BY <1>1, <1>2, <1>3, AdmittedIs
<1>5. new \in Process
  <2> HIDE DEF c, pr
  <2> QED BY <1>1, <1>2, <1>3, AdmittedGood
<1> HIDE DEF new, start
<1>6. proc'[p] = new /\ call'[p] = Idle
      /\ \A q \in Procs \ {p} : proc'[q] = proc[q] /\ call'[q] = call[q]
  BY <1>1, Typing DEF ProcsShaped
<1>7. \A q \in Procs : ManagerKeeps(q) /\ SameRollback(q)
  BY <1>1 DEF ManagerKeeps, SameRollback, RolledBack
<1>8. life[p] # "unborn"
  BY <1>1, NotUnborn
<1>9. ASSUME p \in Alive, p \notin spoiled
      PROVE  Shares(p)'
  <2>1. Shares(p)
    BY <1>9 DEF Sharing
  <2>2. Attaching(pr, c) /\ OwnerOf(segmentsMap, p, c.name, c.size, {}) /\ Matched(pr)
    BY <1>1, <2>1 DEF Shares
  <2>3. Between(p) = {c.name} /\ Arriving(p) = {c.address}
    BY <1>1 DEF Between, Arriving, SharedCalls
  <2>4. Between(p)' = {} /\ Arriving(p)' = {} /\ call'[p].op = "idle"
    BY <1>6 DEF Between, Arriving, SharedCalls, Idle
  <2>5. RolledBack(p) \/ (NamesUsed(pr, {c.name}) /\ AddressesUsed(pr, {c.address}))
    BY <2>1, <2>3 DEF Shares
  <2>6. \A s \in SharedStarts(pr) :
          OwnerOf(segmentsMap, p, pr.segments[s].name, pr.segments[s].numPages, {c.name})
    BY <2>1, <2>3 DEF Shares, Registered
  <2> HIDE DEF c, pr
  <2>7. /\ SharedStarts(new) = SharedStarts(pr) \cup {start} /\ new.segments[start] = segment
        /\ \A s \in SharedStarts(pr) : new.segments[s] = pr.segments[s] /\ pr.segments[s].name # c.name
        /\ Matched(new)
        /\ NamesUsed(pr, {c.name}) => NamesUsed(new, {})
        /\ AddressesUsed(pr, {c.address}) => AddressesUsed(new, {})
    BY <1>2, <1>3, <1>4, <1>5, <2>2, AttachedIs
  <2>8. Registered(p)'
    <3>1. ASSUME NEW s \in SharedStarts(new)
          PROVE  OwnerOf(segmentsMap', p, new.segments[s].name, new.segments[s].numPages, {})
      <4>1. CASE s = start
        BY <1>1, <1>3, <2>2, <2>7, <4>1
      <4>2. CASE s \in SharedStarts(pr)
        BY <1>1, <2>6, <2>7, <4>2 DEF OwnerOf
      <4> QED BY <2>7, <3>1, <4>1, <4>2
    <3> QED BY <1>6, <2>4, <3>1 DEF Registered
  <2>9. RolledBack(p)' \/ (NamesUsed(new, {}) /\ AddressesUsed(new, {}))
    BY <1>1, <2>5, <2>7 DEF RolledBack
  <2> QED BY <1>6, <2>4, <2>7, <2>8, <2>9 DEF Shares
<1>10. life'[p] \in {"live", "cloning", "destroying"} /\ p \notin spoiled' => Shares(p)'
  BY <1>1, <1>9 DEF Alive
<1>11. life'[p] # "unborn" /\ spoiled \subseteq spoiled'
  BY <1>1, <1>8
<1>12. \A q \in Procs \ {p} : /\ proc'[q] = proc[q] /\ call'[q] = call[q] /\ life'[q] = life[q]
                              /\ ManagerKeeps(q) /\ SameRollback(q)
  BY <1>1, <1>6, <1>7
<1> QED BY <1>10, <1>11, <1>12, OneShares

LEMMA LookedIs ==
  ASSUME NEW pr \in Process, NEW name \in DOMAIN pr.sharedSegmentVirtualAddressMap
  PROVE  [pr EXCEPT !.sharedSegmentVirtualAddressMap = Emplace(@, name, 0)] = pr
<1>1. Emplace(pr.sharedSegmentVirtualAddressMap, name, 0) = pr.sharedSegmentVirtualAddressMap
  BY DEF Emplace
<1> QED BY <1>1, ProcessIs

\* The process that disconnects a shared segment it is attached to
LEMMA DisconnectedIs ==
  ASSUME NEW pr \in Process, Good(pr), Matched(pr), NEW name, NEW s \in AttachedTo(pr, name)
  PROVE  LET new == Disconnected(pr, name)
             address == virtualAddressFromPage(s)
         IN  /\ new.segments = Without(pr.segments, s)
             /\ new.sharedSegmentVirtualAddressMap = Without(pr.sharedSegmentVirtualAddressMap, name)
             /\ new.virtualAddressSharedSegmentMap = Without(pr.virtualAddressSharedSegmentMap, address)
<1> DEFINE f == pr.sharedSegmentVirtualAddressMap
           g == pr.virtualAddressSharedSegmentMap
           address == virtualAddressFromPage(s)
           new == Disconnected(pr, name)
           del == Deleted(pr, s)
<1>1. s \in SharedStarts(pr) /\ s \in DOMAIN pr.segments /\ pr.segments[s].name = name
  BY DEF AttachedTo, SharedStarts
<1>2. name \in DOMAIN f /\ f[name] = address
  BY <1>1 DEF Matched, Linked
<1>3. s \in PageIds
  BY <1>1, SegmentOf
<1>4. Starts(address) = {s} /\ pageFromVA(address) = s
  BY <1>3, PageOfAddress
<1>5. s \in SharedAt(pr, address)
  BY <1>1, <1>4 DEF SharedAt
<1> HIDE DEF address
<1>6. new = [del EXCEPT !.virtualAddressSharedSegmentMap = Without(@, address),
                        !.sharedSegmentVirtualAddressMap = Without(@, name)]
  BY <1>2, <1>4, <1>5, LookedIs DEF Disconnected
<1>7. /\ del \in Process /\ del.segments = Without(pr.segments, s)
      /\ del.sharedSegmentVirtualAddressMap = f /\ del.virtualAddressSharedSegmentMap = g
  BY <1>1, DeletedGood
<1> HIDE DEF del, new
<1>8. /\ new.segments = del.segments
      /\ new.sharedSegmentVirtualAddressMap = Without(del.sharedSegmentVirtualAddressMap, name)
      /\ new.virtualAddressSharedSegmentMap = Without(del.virtualAddressSharedSegmentMap, address)
  BY <1>6, <1>7, ProcessIs
<1> QED BY <1>7, <1>8 DEF new, address

\* One shared segment and its address go, and its name, or not.
LEMMA DetachedIs ==
  ASSUME NEW pr \in Process, Matched(pr), NEW s \in SharedStarts(pr), NEW name,
         pr.segments[s].name = name, NEW new, NEW address, address = virtualAddressFromPage(s),
         new.segments = Without(pr.segments, s),
         \/ new.sharedSegmentVirtualAddressMap = pr.sharedSegmentVirtualAddressMap
         \/ new.sharedSegmentVirtualAddressMap = Without(pr.sharedSegmentVirtualAddressMap, name),
         new.virtualAddressSharedSegmentMap = Without(pr.virtualAddressSharedSegmentMap, address)
  PROVE  /\ SharedStarts(new) = SharedStarts(pr) \ {s}
         /\ \A t \in SharedStarts(new) : new.segments[t] = pr.segments[t] /\ pr.segments[t].name # name
         /\ Matched(new)
         /\ new.sharedSegmentVirtualAddressMap = Without(pr.sharedSegmentVirtualAddressMap, name)
            /\ NamesUsed(pr, {name}) => NamesUsed(new, {})
         /\ AddressesUsed(pr, {}) => AddressesUsed(new, {})
<1> DEFINE f == pr.sharedSegmentVirtualAddressMap
           g == pr.virtualAddressSharedSegmentMap
<1>1. DOMAIN new.segments = DOMAIN pr.segments \ {s}
      /\ \A t \in DOMAIN pr.segments \ {s} : new.segments[t] = pr.segments[t]
  BY DEF Without, Restrict
<1>2. SharedStarts(new) = SharedStarts(pr) \ {s} /\ SharedStarts(pr) \subseteq DOMAIN pr.segments
  BY <1>1 DEF SharedStarts
<1>3. SharedStarts(pr) \subseteq PageIds
  <2>1. 0 \in Nat
    OBVIOUS
  <2> QED BY <2>1, SharedAtIs
<1>4. \A t \in SharedStarts(new) :
        /\ t \in SharedStarts(pr) /\ t # s /\ new.segments[t] = pr.segments[t]
        /\ virtualAddressFromPage(t) # address
  BY <1>1, <1>2, <1>3, PageOfAddress
<1>5. \A t \in SharedStarts(new) : pr.segments[t].name # name
  BY <1>4 DEF Matched, Linked
<1>6. DOMAIN new.virtualAddressSharedSegmentMap = DOMAIN g \ {address}
      /\ \A a \in DOMAIN g \ {address} : new.virtualAddressSharedSegmentMap[a] = g[a]
  BY DEF Without, Restrict
<1>7. \A n \in DOMAIN f \ {name} : n \in DOMAIN new.sharedSegmentVirtualAddressMap
                                   /\ new.sharedSegmentVirtualAddressMap[n] = f[n]
  BY DEF Without, Restrict
<1>8. Matched(new)
  BY <1>4, <1>5, <1>6, <1>7 DEF Matched, Linked
<1>9. ASSUME new.sharedSegmentVirtualAddressMap = Without(f, name), NamesUsed(pr, {name})
      PROVE  NamesUsed(new, {})
  <2>1. \A n : n # name => AttachedTo(pr, n) \subseteq AttachedTo(new, n)
    BY <1>1, <1>2 DEF AttachedTo
  <2>2. DOMAIN new.sharedSegmentVirtualAddressMap = DOMAIN f \ {name}
    BY <1>9 DEF Without, Restrict
  <2> QED BY <1>9, <2>1, <2>2 DEF NamesUsed
<1>10. ASSUME AddressesUsed(pr, {})
       PROVE  AddressesUsed(new, {})
  BY <1>2, <1>6, <1>10 DEF AddressesUsed
<1> QED BY <1>2, <1>4, <1>5, <1>8, <1>9, <1>10

LEMMA DetachShares ==
  ASSUME Bookkeeping, Sharing, NEW p \in Procs, Detach(p)
  PROVE  Sharing'
<1> DEFINE c == call[p]
           pr == proc[p]
           gone == Disconnected(pr, c.name)
           kept == [gone EXCEPT !.sharedSegmentVirtualAddressMap = pr.sharedSegmentVirtualAddressMap]
<1>1. /\ c.op = "disconnect" /\ call' = [call EXCEPT ![p] = Idle]
      /\ UNCHANGED <<life, segmentsMap, job, spoiled>>
      /\ \/ proc' = [proc EXCEPT ![p] = gone]
         \/ proc' = [proc EXCEPT ![p] = kept] /\ RolledBack(p)
  BY DEF Detach, Commit, SetCall, RolledBack, history
<1>2. pr \in Process /\ Good(pr) /\ c.name \in Names
  BY <1>1, Typing, CallIs
<1>3. gone \in Process
  <2> HIDE DEF c, pr
  <2> QED BY <1>2, DisconnectedGood
<1>4. PICK new : /\ proc' = [proc EXCEPT ![p] = new]
                 /\ new = gone \/ (new = kept /\ RolledBack(p))
  BY <1>1
<1>5. /\ new.segments = gone.segments
      /\ new.virtualAddressSharedSegmentMap = gone.virtualAddressSharedSegmentMap
      /\ \/ new.sharedSegmentVirtualAddressMap = gone.sharedSegmentVirtualAddressMap
         \/ new.sharedSegmentVirtualAddressMap = pr.sharedSegmentVirtualAddressMap /\ RolledBack(p)
  <2> DEFINE f == pr.sharedSegmentVirtualAddressMap
  <2>1. kept = [gone EXCEPT !.sharedSegmentVirtualAddressMap = f]
    OBVIOUS
  <2> HIDE DEF gone, pr, kept, f
  <2>2. /\ kept.segments = gone.segments /\ kept.sharedSegmentVirtualAddressMap = f
        /\ kept.virtualAddressSharedSegmentMap = gone.virtualAddressSharedSegmentMap
    BY <1>3, <2>1, ProcessIs
  <2> QED BY <1>4, <2>2 DEF f
<1>6. proc'[p] = new /\ call'[p] = Idle
      /\ \A q \in Procs \ {p} : proc'[q] = proc[q] /\ call'[q] = call[q]
  BY <1>1, <1>4, Typing DEF ProcsShaped
<1>7. \A q \in Procs : ManagerKeeps(q) /\ SameRollback(q)
  BY <1>1 DEF ManagerKeeps, SameRollback, RolledBack
<1>8. life[p] # "unborn"
  BY <1>1, NotUnborn
<1>9. ASSUME p \in Alive, p \notin spoiled
      PROVE  Shares(p)'
  <2>1. Shares(p)
    BY <1>9 DEF Sharing
  <2>2. Between(p) = {c.name} /\ Arriving(p) = {} /\ Matched(pr) /\ AttachedTo(pr, c.name) # {}
    BY <1>1, <2>1 DEF Between, Arriving, SharedCalls, Shares
  <2>3. Between(p)' = {} /\ Arriving(p)' = {} /\ call'[p].op = "idle"
    BY <1>6 DEF Between, Arriving, SharedCalls, Idle
  <2>4. RolledBack(p) \/ (NamesUsed(pr, {c.name}) /\ AddressesUsed(pr, {}))
    BY <2>1, <2>2 DEF Shares
  <2>5. \A s \in SharedStarts(pr) :
          OwnerOf(segmentsMap, p, pr.segments[s].name, pr.segments[s].numPages, {c.name})
    BY <2>1, <2>2 DEF Shares, Registered
  <2>6. PICK s \in AttachedTo(pr, c.name) : TRUE
    BY <2>2
  <2> DEFINE address == virtualAddressFromPage(s)
  <2>7. s \in SharedStarts(pr) /\ pr.segments[s].name = c.name
    BY DEF AttachedTo
  <2> HIDE DEF c, pr
  <2>8. /\ gone.segments = Without(pr.segments, s)
        /\ gone.sharedSegmentVirtualAddressMap = Without(pr.sharedSegmentVirtualAddressMap, c.name)
        /\ gone.virtualAddressSharedSegmentMap = Without(pr.virtualAddressSharedSegmentMap, address)
    BY <1>2, <2>2, DisconnectedIs
  <2> HIDE DEF gone, address
  <2>9. /\ SharedStarts(new) = SharedStarts(pr) \ {s}
        /\ \A t \in SharedStarts(new) : new.segments[t] = pr.segments[t] /\ pr.segments[t].name # c.name
        /\ Matched(new)
        /\ new.sharedSegmentVirtualAddressMap = Without(pr.sharedSegmentVirtualAddressMap, c.name)
           /\ NamesUsed(pr, {c.name}) => NamesUsed(new, {})
        /\ AddressesUsed(pr, {}) => AddressesUsed(new, {})
    BY <1>2, <1>5, <2>2, <2>7, <2>8, DetachedIs DEF address
  <2>10. Registered(p)'
    <3>1. ASSUME NEW t \in SharedStarts(new)
          PROVE  OwnerOf(segmentsMap', p, new.segments[t].name, new.segments[t].numPages, {})
      BY <1>1, <2>5, <2>9, <3>1 DEF OwnerOf
    <3> QED BY <1>6, <2>3, <3>1 DEF Registered
  <2>11. RolledBack(p)' \/ (NamesUsed(new, {}) /\ AddressesUsed(new, {}))
    BY <1>1, <1>5, <2>4, <2>8, <2>9 DEF RolledBack
  <2> QED BY <1>6, <2>3, <2>9, <2>10, <2>11 DEF Shares
<1>10. life'[p] \in {"live", "cloning", "destroying"} /\ p \notin spoiled' => Shares(p)'
  BY <1>1, <1>9 DEF Alive
<1>11. life'[p] # "unborn" /\ spoiled \subseteq spoiled'
  BY <1>1, <1>8
<1>12. \A q \in Procs \ {p} : /\ proc'[q] = proc[q] /\ call'[q] = call[q] /\ life'[q] = life[q]
                              /\ ManagerKeeps(q) /\ SameRollback(q)
  BY <1>1, <1>6, <1>7
<1> QED BY <1>10, <1>11, <1>12, OneShares

---------------------------------------------------------------------------
(* Owners that go.                                                         *)

LEMMA OwnerRemoved ==
  ASSUME Bookkeeping, NEW p, NEW name \in DOMAIN segmentsMap, removeProcess(name, p)
  PROVE  /\ DOMAIN segmentsMap' = DOMAIN segmentsMap
         /\ \A n \in DOMAIN segmentsMap : segmentsMap'[n].size = segmentsMap[n].size
         /\ \A n \in DOMAIN segmentsMap \ {name} : segmentsMap'[n] = segmentsMap[n]
         /\ segmentsMap'[name].owners = segmentsMap[name].owners \ {p}
<1> DEFINE Entry == [size : Nat \ {0}, owners : SUBSET Procs]
           m == segmentsMap[name]
           e == [m EXCEPT !.owners = @ \ {p}]
<1>1. m \in Entry
  <2>1. segmentsMap \in Partial(Names, Entry)
    BY Typing
  <2> HIDE DEF Entry
  <2> QED BY <2>1, PartialIs
<1>2. e.size = m.size /\ e.owners = m.owners \ {p}
  <2> HIDE DEF m
  <2> QED BY <1>1
<1>3. segmentsMap' = [segmentsMap EXCEPT ![name] = e]
  BY DEF removeProcess
<1> HIDE DEF e
<1>4. DOMAIN segmentsMap' = DOMAIN segmentsMap
  BY <1>3
<1>5. segmentsMap'[name] = e /\ \A n \in DOMAIN segmentsMap \ {name} : segmentsMap'[n] = segmentsMap[n]
  BY <1>3
<1> QED BY <1>2, <1>4, <1>5

LEMMA OthersOwn ==
  ASSUME Bookkeeping, NEW p, NEW name \in DOMAIN segmentsMap, removeProcess(name, p)
  PROVE  \A q \in Procs \ {p} : ManagerKeeps(q)
BY OwnerRemoved DEF ManagerKeeps

\* The step of p's own call that takes p off, with what it has to leave
LEMMA BeginDisconnectShares ==
  ASSUME Bookkeeping, Sharing, NEW p \in Procs, NEW name, NEW new,
         call[p] = Idle, life[p] # "unborn", BeginDisconnect(p, name),
         proc' = [proc EXCEPT ![p] = new],
         p \in Alive \ spoiled => SameSharing(proc[p], new),
         p \in Alive \ spoiled => RolledBack(p) \/ SameAddresses(proc[p], new)
  PROVE  Sharing'
<1> DEFINE pr == proc[p]
           c == [op |-> "disconnect", name |-> name]
<1>1. /\ name \in DOMAIN segmentsMap /\ removeProcess(name, p)
      /\ call' = [call EXCEPT ![p] = c]
      /\ spoiled' = spoiled \cup IF AttachedTo(pr, name) = {} THEN {p} ELSE {}
      /\ UNCHANGED <<life, job>>
  BY DEF BeginDisconnect, SetCall, Spoil
<1>2. c.op = "disconnect" /\ c.name = name
  OBVIOUS
<1> HIDE DEF c
<1>3. proc'[p] = new /\ call'[p] = c
      /\ \A q \in Procs \ {p} : proc'[q] = proc[q] /\ call'[q] = call[q]
  BY <1>1, Typing DEF ProcsShaped
<1>4. \A q \in Procs \ {p} : ManagerKeeps(q)
  BY <1>1, OthersOwn
<1>5. \A q \in Procs : SameRollback(q)
  BY <1>1 DEF SameRollback, RolledBack
<1>6. ASSUME p \in Alive, p \notin spoiled'
      PROVE  Shares(p)'
  <2>1. Shares(p) /\ AttachedTo(pr, name) # {} /\ p \notin spoiled
    BY <1>1, <1>6 DEF Sharing
  <2>2. SameSharing(pr, new) /\ (RolledBack(p) \/ SameAddresses(pr, new))
    BY <1>6, <2>1
  <2>3. Between(p) = {} /\ Arriving(p) = {}
    BY DEF Between, Arriving, SharedCalls, Idle
  <2>4. Between(p)' = {name} /\ Arriving(p)' = {}
    BY <1>2, <1>3 DEF Between, Arriving, SharedCalls
  <2>5. Matched(pr) /\ (RolledBack(p) \/ (NamesUsed(pr, {}) /\ AddressesUsed(pr, {})))
    BY <2>1, <2>3 DEF Shares
  <2>6. Matched(new) /\ (NamesUsed(pr, {}) => NamesUsed(new, {}))
        /\ (SameAddresses(pr, new) /\ AddressesUsed(pr, {}) => AddressesUsed(new, {}))
    BY <2>2, <2>5, SameMatched, SameUsed
  <2>7. NamesUsed(new, {}) => NamesUsed(new, {name})
    BY DEF NamesUsed
  <2>8. RolledBack(p)' \/ (NamesUsed(new, {name}) /\ AddressesUsed(new, {}))
    BY <1>1, <2>2, <2>5, <2>6, <2>7 DEF RolledBack
  <2>9. AttachedTo(new, name) # {}
    BY <2>1, <2>2, SameAttached
  <2>10. Registered(p)'
    <3>1. ASSUME NEW s \in SharedStarts(new)
          PROVE  OwnerOf(segmentsMap', p, new.segments[s].name, new.segments[s].numPages, {name})
      <4>1. s \in SharedStarts(pr) /\ new.segments[s] = pr.segments[s]
        BY <2>2, <3>1 DEF SameSharing
      <4>2. OwnerOf(segmentsMap, p, pr.segments[s].name, pr.segments[s].numPages, {})
        BY <2>1, <2>3, <4>1 DEF Shares, Registered
      <4> QED BY <1>1, <4>1, <4>2, OwnerRemoved DEF OwnerOf
    <3> QED BY <1>3, <2>4, <3>1 DEF Registered
  <2> QED BY <1>2, <1>3, <2>4, <2>6, <2>8, <2>9, <2>10 DEF Shares
<1>7. life'[p] \in {"live", "cloning", "destroying"} /\ p \notin spoiled' => Shares(p)'
  BY <1>1, <1>6 DEF Alive
<1>8. life'[p] # "unborn" /\ spoiled \subseteq spoiled'
  BY <1>1
<1>9. \A q \in Procs \ {p} : /\ proc'[q] = proc[q] /\ call'[q] = call[q] /\ life'[q] = life[q]
                             /\ ManagerKeeps(q) /\ SameRollback(q)
  BY <1>1, <1>3, <1>4, <1>5
<1> QED BY <1>7, <1>8, <1>9, OneShares

LEMMA DisconnectSharedShares ==
  ASSUME Bookkeeping, Sharing, NEW p \in Procs, NEW name, DisconnectSharedSegment(p, name)
  PROVE  Sharing'
<1>1. Calls(p) /\ BeginDisconnect(p, name) /\ proc' = [proc EXCEPT ![p] = proc[p]]
  BY Typing DEF DisconnectSharedSegment, ProcsShaped
<1>2. SameSharing(proc[p], proc[p]) /\ SameAddresses(proc[p], proc[p])
  BY SameIsSame
<1> QED BY <1>1, <1>2, LiveIs, BeginDisconnectShares

LEMMA CleanUpTurnShares ==
  ASSUME Bookkeeping, Sharing, CleanUpTurn
  PROVE  Sharing'
<1>1. PICK p \in Procs : p = job.process
  BY Typing, JobIs DEF CleanUpTurn
<1> DEFINE pr == proc[p]
           names == pr.virtualAddressSharedSegmentMap
           looked(s) == Emplace(names, virtualAddressFromPage(s), NoName)
           isShared(s) == IF job.op = "destroy" THEN pr.segments[s].isShared ELSE job.isShared
<1>2. PICK s \in DOMAIN pr.segments :
        \/ /\ proc' = [proc EXCEPT ![p] = deleteSegmentPrivate(pr, virtualAddressFromPage(s))]
           /\ UNCHANGED <<life, call, segmentsMap, job, spoiled>>
        \/ /\ isShared(s)
           /\ proc' = [proc EXCEPT ![p].virtualAddressSharedSegmentMap = looked(s)]
           /\ \/ BeginDisconnect(p, looked(s)[virtualAddressFromPage(s)])
              \/ UNCHANGED <<life, call, segmentsMap, job, spoiled>>
  BY <1>1 DEF CleanUpTurn, Commit, history
<1>3. /\ job.op \in {"destroy", "rollback"} /\ call[p] = Idle
      /\ job.op # "destroy" => RolledBack(p)
  BY <1>1 DEF CleanUpTurn, RolledBack
<1>4. life[p] # "unborn"
  BY <1>1, <1>3, Typing DEF JobFits
<1>5. UNCHANGED <<life, job>>
  BY <1>2 DEF BeginDisconnect
<1>6. \A q \in Procs : SameRollback(q)
  BY <1>5 DEF SameRollback, RolledBack
<1>7. CASE /\ proc' = [proc EXCEPT ![p] = deleteSegmentPrivate(pr, virtualAddressFromPage(s))]
           /\ UNCHANGED <<life, call, segmentsMap, job, spoiled>>
  <2> DEFINE new == deleteSegmentPrivate(pr, virtualAddressFromPage(s))
  <2>1. new = proc[p] \/ \E a : new = deleteSegmentPrivate(proc[p], a)
    OBVIOUS
  <2>2. proc' = [proc EXCEPT ![p] = new]
    BY <1>7
  <2> HIDE DEF new
  <2> QED BY <1>4, <1>6, <1>7, <2>1, <2>2, DeletionShares
<1>8. CASE /\ isShared(s)
           /\ proc' = [proc EXCEPT ![p].virtualAddressSharedSegmentMap = looked(s)]
           /\ \/ BeginDisconnect(p, looked(s)[virtualAddressFromPage(s)])
              \/ UNCHANGED <<life, call, segmentsMap, job, spoiled>>
  <2> DEFINE g == looked(s)
             address == virtualAddressFromPage(s)
  <2>1. pr \in Process
    BY Typing
  <2>2. PICK new : /\ proc' = [proc EXCEPT ![p] = new] /\ new.segments = pr.segments
                   /\ new.sharedSegmentVirtualAddressMap = pr.sharedSegmentVirtualAddressMap
                   /\ new.virtualAddressSharedSegmentMap = g
    <3>4. proc' = [proc EXCEPT ![p].virtualAddressSharedSegmentMap = g] /\ proc \in [Procs -> Process]
      BY <1>8, Typing DEF ProcsShaped
    <3> HIDE DEF g
    <3>1. proc' = [proc EXCEPT ![p] = [pr EXCEPT !.virtualAddressSharedSegmentMap = g]]
      BY <3>4
    <3>2. PICK new : new = [pr EXCEPT !.virtualAddressSharedSegmentMap = g]
      OBVIOUS
    <3>3. /\ new.segments = pr.segments
          /\ new.sharedSegmentVirtualAddressMap = pr.sharedSegmentVirtualAddressMap
          /\ new.virtualAddressSharedSegmentMap = g
      <4> HIDE DEF pr
      <4> QED BY <2>1, <3>2, ProcessIs
    <3> QED BY <3>1, <3>2, <3>3
  <2>3. SharedStarts(new) = SharedStarts(pr)
    BY <2>2, SameSegments
  <2>4. \A a \in DOMAIN names : a \in DOMAIN g /\ g[a] = names[a]
    BY DEF Emplace, With
  <2>5. SameSharing(pr, new)
    <3> HIDE DEF g
    <3> QED BY <2>2, <2>3, <2>4 DEF SameSharing
  <2>6. ASSUME p \in Alive \ spoiled
        PROVE  RolledBack(p) \/ SameAddresses(pr, new)
    <3>1. CASE job.op = "destroy"
      <4>1. s \in SharedStarts(pr) /\ Matched(pr)
        BY <1>8, <2>6, <3>1 DEF SharedStarts, Sharing, Shares
      <4>2. address \in DOMAIN names
        BY <4>1 DEF Matched, Linked
      <4>3. g = names
        BY <4>2 DEF Emplace
      <4> QED BY <2>2, <4>3 DEF SameAddresses
    <3> QED BY <1>3, <3>1
  <2>7. CASE BeginDisconnect(p, g[address])
    BY <1>3, <1>4, <2>2, <2>5, <2>6, <2>7, BeginDisconnectShares
  <2>8. CASE UNCHANGED <<life, call, segmentsMap, job, spoiled>>
    <3>1. proc'[p] = new /\ \A q \in Procs \ {p} : proc'[q] = proc[q]
      BY <2>2, Typing DEF ProcsShaped
    <3>2. \A q \in Procs : ManagerKeeps(q) /\ SameCall(q)
      BY <2>8 DEF ManagerKeeps, SameCall
    <3>3. ASSUME p \in Alive, p \notin spoiled
          PROVE  Shares(p)'
      <4>1. Shares(p) /\ SameSharing(proc[p], proc'[p])
        BY <2>5, <3>1, <3>3 DEF Sharing
      <4>2. RolledBack(p)' \/ SameAddresses(proc[p], proc'[p])
        BY <2>6, <2>8, <3>1, <3>3 DEF RolledBack
      <4> QED BY <1>6, <3>2, <4>1, <4>2, SharesKept
    <3>4. life'[p] \in {"live", "cloning", "destroying"} /\ p \notin spoiled' => Shares(p)'
      BY <2>8, <3>3 DEF Alive
    <3> QED BY <1>4, <1>6, <2>8, <3>1, <3>2, <3>4, OneShares
  <2> QED BY <1>8, <2>7, <2>8
<1> QED BY <1>2, <1>7, <1>8

LEMMA FreedNone ==
  ASSUME NEW pr \in Process
  PROVE  Freed(pr, {}) = pr
<1> DEFINE old == pr.segments
           m == [s \in DOMAIN old |-> [old[s] EXCEPT !.dangling = @ \/ s \in {}]]
           new == Freed(pr, {})
<1>1. old = [s \in DOMAIN old |-> old[s]] /\ \A s \in DOMAIN old : old[s] \in Segment
  <2>1. old \in Partial(PageIds, Segment)
    BY ProcessIs
  <2> HIDE DEF old
  <2> QED BY <2>1, PartialIs
<1>2. new = [pr EXCEPT !.segments = m]
  BY DEF Freed
<1> HIDE DEF old, new
<1>3. \A s \in DOMAIN old : m[s] = old[s]
  <2>1. \A e \in Segment : [e EXCEPT !.dangling = @ \/ FALSE] = e
    BY DEF Segment
  <2> QED BY <1>1, <2>1
<1>4. m = old
  BY <1>1, <1>3
<1> HIDE DEF m
<1>5. new = [pr EXCEPT !.segments = pr.segments]
  BY <1>2, <1>4 DEF old
<1>6. new = pr
  BY <1>5, ProcessIs
<1> QED BY <1>6 DEF new

\* Without a shared segment at the address the lookup of a disconnect finds
\* nothing, and only the entries of a failed createSharedSegment are erased.
LEMMA RefusedIs ==
  ASSUME NEW pr \in Process, NEW c, Leaving(pr, c), c.address \in Nat
  PROVE  Disconnected(pr, c.name) = pr /\ Refused(pr, c.address, c.name) = Erased(pr, c.address, c.name)
<1>1. SharedAt(pr, c.address) = {}
  BY SharedAtIs DEF Leaving
<1>2. Disconnected(pr, c.name) = pr
  BY <1>1, LookedIs DEF Disconnected, Leaving
<1> QED BY <1>2 DEF Refused

LEMMA ErasedIs ==
  ASSUME NEW pr \in Process, Matched(pr), NEW c, Leaving(pr, c),
         NEW new, new = Erased(pr, c.address, c.name)
  PROVE  /\ SharedStarts(new) = SharedStarts(pr) /\ new.segments = pr.segments
         /\ \A s \in SharedStarts(pr) : pr.segments[s].name # c.name
         /\ Matched(new)
         /\ NamesUsed(pr, {c.name}) => NamesUsed(new, {})
         /\ AddressesUsed(pr, {c.address}) => AddressesUsed(new, {})
<1> DEFINE f == pr.sharedSegmentVirtualAddressMap
           g == pr.virtualAddressSharedSegmentMap
           less == Without(f, c.name)
           fewer == Without(g, c.address)
<1>0. /\ new.segments = pr.segments /\ new.sharedSegmentVirtualAddressMap = less
      /\ new.virtualAddressSharedSegmentMap = fewer
  <2>1. new = [pr EXCEPT !.sharedSegmentVirtualAddressMap = less,
                         !.virtualAddressSharedSegmentMap = fewer]
    BY DEF Erased
  <2> HIDE DEF less, fewer
  <2> QED BY <2>1, ProcessIs
<1>1. SharedStarts(new) = SharedStarts(pr) /\ \A n : AttachedTo(new, n) = AttachedTo(pr, n)
  BY <1>0, SameSegments
<1>2. \A s \in SharedStarts(pr) : pr.segments[s].name # c.name
  BY DEF Leaving, AttachedTo
<1>3. DOMAIN new.sharedSegmentVirtualAddressMap = DOMAIN f \ {c.name}
      /\ \A n \in DOMAIN f \ {c.name} : new.sharedSegmentVirtualAddressMap[n] = f[n]
  BY <1>0 DEF Without, Restrict
<1>4. DOMAIN new.virtualAddressSharedSegmentMap = DOMAIN g \ {c.address}
      /\ \A a \in DOMAIN g \ {c.address} : new.virtualAddressSharedSegmentMap[a] = g[a]
  BY <1>0 DEF Without, Restrict
<1>5. Matched(new)
  BY <1>0, <1>1, <1>2, <1>3, <1>4 DEF Matched, Linked, Leaving
<1>6. NamesUsed(pr, {c.name}) => NamesUsed(new, {})
  BY <1>1, <1>3 DEF NamesUsed
<1>7. AddressesUsed(pr, {c.address}) => AddressesUsed(new, {})
  BY <1>1, <1>4 DEF AddressesUsed
<1> QED BY <1>0, <1>1, <1>2, <1>5, <1>6, <1>7

\* allocateSharedSegment fails: p is no owner any more, and nothing else of it
\* has changed.
LEMMA AttachFailsShares ==
  ASSUME Bookkeeping, Sharing, NEW p \in Procs, AttachFails(p)
  PROVE  Sharing'
<1> DEFINE c == call[p]
           pr == proc[p]
           known == c.name \in DOMAIN segmentsMap
           d == [op |-> "refused", address |-> c.address, name |-> c.name]
<1>1. PICK new : /\ proc' = [proc EXCEPT ![p] = new]
                 /\ known => new = Disconnected(pr, c.name)
  <2>1. proc = [proc EXCEPT ![p] = pr]
    BY Typing DEF ProcsShaped
  <2> QED BY <2>1 DEF AttachFails, Commit
<1>2. /\ c.op = "attach" /\ call' = [call EXCEPT ![p] = d] /\ UNCHANGED life
      /\ spoiled' = spoiled \cup IF SharedAt(pr, c.address) = {} THEN {} ELSE {p}
      /\ IF known THEN removeProcess(c.name, p) ELSE UNCHANGED segmentsMap
  BY DEF AttachFails, SetCall, Spoil
<1>3. \/ job' = job
      \/ RolledBack(p)' /\ life[p] = "cloning"
  BY DEF AttachFails, RolledBack
<1>4. pr \in Process /\ Good(pr) /\ c.name \in Names /\ c.address \in Nat
  BY <1>2, Typing, CallIs
<1>5. d.op = "refused" /\ d.address = c.address /\ d.name = c.name
  OBVIOUS
<1> HIDE DEF d
<1>6. proc'[p] = new /\ call'[p] = d
      /\ \A q \in Procs \ {p} : proc'[q] = proc[q] /\ call'[q] = call[q]
  BY <1>1, <1>2, Typing DEF ProcsShaped
<1>7. \A q \in Procs \ {p} : ManagerKeeps(q)
  <2>1. CASE known
    BY <1>2, <2>1, OthersOwn
  <2>2. CASE ~known
    BY <1>2, <2>2 DEF ManagerKeeps
  <2> QED BY <2>1, <2>2
<1>8. \A q \in Procs : SameRollback(q)
  <2>1. life[p] = "cloning" => job.process = p
    BY Typing DEF JobFits
  <2> QED BY <1>3, <2>1 DEF SameRollback, RolledBack
<1>9. life[p] # "unborn"
  BY <1>2, NotUnborn
<1>10. ASSUME p \in Alive, p \notin spoiled'
       PROVE  Shares(p)'
  <2>1. Shares(p) /\ SharedAt(pr, c.address) = {}
    BY <1>2, <1>10 DEF Sharing
  <2>2. Attaching(pr, c) /\ known /\ Matched(pr)
    BY <1>2, <2>1 DEF Shares, OwnerOf
  <2>3. Between(p) = {c.name} /\ Arriving(p) = {c.address}
    BY <1>2 DEF Between, Arriving, SharedCalls
  <2>4. Between(p)' = {c.name} /\ Arriving(p)' = {c.address}
    BY <1>5, <1>6 DEF Between, Arriving, SharedCalls
  <2>5. RolledBack(p) \/ (NamesUsed(pr, {c.name}) /\ AddressesUsed(pr, {c.address}))
    BY <2>1, <2>3 DEF Shares
  <2>6. \A s \in SharedStarts(pr) :
          OwnerOf(segmentsMap, p, pr.segments[s].name, pr.segments[s].numPages, {c.name})
    BY <2>1, <2>3 DEF Shares, Registered
  <2>7. removeProcess(c.name, p) /\ c.name \in DOMAIN segmentsMap /\ new = Disconnected(pr, c.name)
    BY <1>1, <1>2, <2>2
  <2> HIDE DEF c, pr, known
  <2>8. Leaving(pr, c)
    BY <1>4, <2>1, <2>2, SharedAtIs DEF Attaching, Leaving
  <2>9. new = pr
    BY <1>4, <2>7, <2>8, RefusedIs
  <2>10. Leaving(pr, d)
    BY <1>5, <2>8 DEF Leaving
  <2>11. Registered(p)'
    <3>1. ASSUME NEW s \in SharedStarts(pr)
          PROVE  OwnerOf(segmentsMap', p, pr.segments[s].name, pr.segments[s].numPages, {c.name})
      <4>1. OwnerOf(segmentsMap, p, pr.segments[s].name, pr.segments[s].numPages, {c.name})
        BY <2>6, <3>1
      <4> QED BY <2>7, <4>1, OwnerRemoved DEF OwnerOf
    <3> QED BY <1>6, <2>4, <2>9, <3>1 DEF Registered
  <2>12. RolledBack(p)' \/ (NamesUsed(pr, {c.name}) /\ AddressesUsed(pr, {c.address}))
    BY <1>3, <2>5 DEF RolledBack
  <2> QED BY <1>5, <1>6, <2>2, <2>4, <2>9, <2>10, <2>11, <2>12 DEF Shares
<1>11. life'[p] \in {"live", "cloning", "destroying"} /\ p \notin spoiled' => Shares(p)'
  BY <1>2, <1>10 DEF Alive
<1>12. life'[p] # "unborn" /\ spoiled \subseteq spoiled'
  BY <1>2, <1>9
<1>13. \A q \in Procs \ {p} : /\ proc'[q] = proc[q] /\ call'[q] = call[q] /\ life'[q] = life[q]
                              /\ ManagerKeeps(q) /\ SameRollback(q)
  BY <1>2, <1>6, <1>7, <1>8
<1> QED BY <1>11, <1>12, <1>13, OneShares

\* Both maps lose what a failed createSharedSegment had entered, and the call
\* is over.
LEMMA ErasureShares ==
  ASSUME Bookkeeping, Sharing, NEW p \in Procs, call[p].op \in {"refused", "erase"},
         NEW new, proc' = [proc EXCEPT ![p] = new], call' = [call EXCEPT ![p] = Idle],
         UNCHANGED <<life, segmentsMap, job, spoiled>>,
         Leaving(proc[p], call[p]) => new = Erased(proc[p], call[p].address, call[p].name)
  PROVE  Sharing'
<1> DEFINE c == call[p]
           pr == proc[p]
<1>1. pr \in Process /\ Good(pr)
  BY Typing
<1>2. proc'[p] = new /\ call'[p] = Idle
      /\ \A q \in Procs \ {p} : proc'[q] = proc[q] /\ call'[q] = call[q]
  BY Typing DEF ProcsShaped
<1>3. \A q \in Procs : ManagerKeeps(q) /\ SameRollback(q)
  BY DEF ManagerKeeps, SameRollback, RolledBack
<1>4. life[p] # "unborn"
  BY NotUnborn
<1>5. ASSUME p \in Alive, p \notin spoiled
      PROVE  Shares(p)'
  <2>1. Shares(p)
    BY <1>5 DEF Sharing
  <2>2. Leaving(pr, c) /\ Matched(pr)
    BY <2>1 DEF Shares
  <2>3. Between(p) = {c.name} /\ Arriving(p) = {c.address}
    BY DEF Between, Arriving, SharedCalls
  <2>4. Between(p)' = {} /\ Arriving(p)' = {} /\ call'[p].op = "idle"
    BY <1>2 DEF Between, Arriving, SharedCalls, Idle
  <2>5. RolledBack(p) \/ (NamesUsed(pr, {c.name}) /\ AddressesUsed(pr, {c.address}))
    BY <2>1, <2>3 DEF Shares
  <2>6. \A s \in SharedStarts(pr) :
          OwnerOf(segmentsMap, p, pr.segments[s].name, pr.segments[s].numPages, {c.name})
    BY <2>1, <2>3 DEF Shares, Registered
  <2>7. new = Erased(pr, c.address, c.name)
    BY <2>2
  <2> HIDE DEF c, pr
  <2>8. /\ SharedStarts(new) = SharedStarts(pr) /\ new.segments = pr.segments
        /\ \A s \in SharedStarts(pr) : pr.segments[s].name # c.name
        /\ Matched(new)
        /\ NamesUsed(pr, {c.name}) => NamesUsed(new, {})
        /\ AddressesUsed(pr, {c.address}) => AddressesUsed(new, {})
    BY <1>1, <2>2, <2>7, ErasedIs
  <2>9. Registered(p)'
    <3>1. ASSUME NEW s \in SharedStarts(new)
          PROVE  OwnerOf(segmentsMap', p, new.segments[s].name, new.segments[s].numPages, {})
      BY <2>6, <2>8, <3>1 DEF OwnerOf
    <3> QED BY <1>2, <2>4, <3>1 DEF Registered
  <2>10. RolledBack(p)' \/ (NamesUsed(new, {}) /\ AddressesUsed(new, {}))
    BY <2>5, <2>8 DEF RolledBack
  <2> QED BY <1>2, <2>4, <2>8, <2>9, <2>10 DEF Shares
<1>6. life'[p] \in {"live", "cloning", "destroying"} /\ p \notin spoiled' => Shares(p)'
  BY <1>5 DEF Alive
<1>7. life'[p] # "unborn" /\ spoiled \subseteq spoiled'
  BY <1>4
<1>8. \A q \in Procs \ {p} : /\ proc'[q] = proc[q] /\ call'[q] = call[q] /\ life'[q] = life[q]
                             /\ ManagerKeeps(q) /\ SameRollback(q)
  BY <1>2, <1>3
<1> QED BY <1>6, <1>7, <1>8, OneShares

\* The second disconnect takes p off once more, or the manager has lost the name.
LEMMA DisconnectAgainShares ==
  ASSUME Bookkeeping, Sharing, NEW p \in Procs, DisconnectAgain(p)
  PROVE  Sharing'
<1> DEFINE c == call[p]
           pr == proc[p]
           d == [op |-> "erase", address |-> c.address, name |-> c.name]
<1>1. c.op = "refused" /\ UNCHANGED <<life, job, spoiled>>
  BY DEF DisconnectAgain, history
<1>2. d.op = "erase" /\ d.address = c.address /\ d.name = c.name
  OBVIOUS
<1>3. CASE /\ c.name \in DOMAIN segmentsMap /\ removeProcess(c.name, p)
           /\ call' = [call EXCEPT ![p] = d] /\ UNCHANGED proc
  <2> HIDE DEF d
  <2>1. call'[p] = d /\ \A q \in Procs \ {p} : call'[q] = call[q]
    BY <1>3, Typing
  <2>2. \A q \in Procs \ {p} : ManagerKeeps(q)
    BY <1>3, OthersOwn
  <2>3. \A q \in Procs : SameRollback(q)
    BY <1>1 DEF SameRollback, RolledBack
  <2>4. life[p] # "unborn"
    BY <1>1, NotUnborn
  <2>5. ASSUME p \in Alive, p \notin spoiled
        PROVE  Shares(p)'
    <3>1. Shares(p)
      BY <2>5 DEF Sharing
    <3>2. Leaving(pr, c) /\ Matched(pr)
      BY <1>1, <3>1 DEF Shares
    <3>3. /\ Between(p) = {c.name} /\ Arriving(p) = {c.address}
          /\ Between(p)' = {c.name} /\ Arriving(p)' = {c.address}
      BY <1>1, <1>2, <2>1 DEF Between, Arriving, SharedCalls
    <3>4. \A s \in SharedStarts(pr) :
            OwnerOf(segmentsMap, p, pr.segments[s].name, pr.segments[s].numPages, {c.name})
      BY <3>1, <3>3 DEF Shares, Registered
    <3>5. RolledBack(p) \/ (NamesUsed(pr, {c.name}) /\ AddressesUsed(pr, {c.address}))
      BY <3>1, <3>3 DEF Shares
    <3>6. Registered(p)'
      <4>1. ASSUME NEW s \in SharedStarts(pr)
            PROVE  OwnerOf(segmentsMap', p, pr.segments[s].name, pr.segments[s].numPages, {c.name})
        <5>1. OwnerOf(segmentsMap, p, pr.segments[s].name, pr.segments[s].numPages, {c.name})
          BY <3>4, <4>1
        <5> QED BY <1>3, <5>1, OwnerRemoved DEF OwnerOf
      <4> QED BY <1>3, <3>3, <4>1 DEF Registered
    <3>7. RolledBack(p)' \/ (NamesUsed(pr, {c.name}) /\ AddressesUsed(pr, {c.address}))
      BY <1>1, <3>5 DEF RolledBack
    <3>8. Leaving(pr, d)
      BY <1>2, <3>2 DEF Leaving
    <3> QED BY <1>2, <1>3, <2>1, <3>2, <3>3, <3>6, <3>7, <3>8 DEF Shares
  <2>6. life'[p] \in {"live", "cloning", "destroying"} /\ p \notin spoiled' => Shares(p)'
    BY <1>1, <2>5 DEF Alive
  <2>7. life'[p] # "unborn" /\ spoiled \subseteq spoiled'
    BY <1>1, <2>4
  <2>8. \A q \in Procs \ {p} : /\ proc'[q] = proc[q] /\ call'[q] = call[q] /\ life'[q] = life[q]
                               /\ ManagerKeeps(q) /\ SameRollback(q)
    BY <1>1, <1>3, <2>1, <2>2, <2>3
  <2> QED BY <2>6, <2>7, <2>8, OneShares
<1>4. CASE /\ proc' = [proc EXCEPT ![p] = Erased(pr, c.address, c.name)]
           /\ call' = [call EXCEPT ![p] = Idle] /\ UNCHANGED segmentsMap
  <2>1. PICK new : new = Erased(pr, c.address, c.name)
    OBVIOUS
  <2> QED BY <1>1, <1>4, <2>1, ErasureShares
<1> QED BY <1>3, <1>4 DEF DisconnectAgain, SetCall

LEMMA EraseRefusedShares ==
  ASSUME Bookkeeping, Sharing, NEW p \in Procs, EraseRefused(p)
  PROVE  Sharing'
<1> DEFINE c == call[p]
           pr == proc[p]
           refused == Refused(pr, c.address, c.name)
<1>1. /\ c.op = "erase" /\ proc' = [proc EXCEPT ![p] = refused]
      /\ call' = [call EXCEPT ![p] = Idle] /\ UNCHANGED <<life, segmentsMap, job, spoiled>>
  BY DEF EraseRefused, Commit, SetCall, Refused, history
<1>2. pr \in Process /\ c.address \in Nat
  BY <1>1, Typing, CallIs
<1>3. Leaving(pr, c) => refused = Erased(pr, c.address, c.name)
  <2> HIDE DEF pr, c
  <2> QED BY <1>2, RefusedIs
<1> HIDE DEF refused
<1> QED BY <1>1, <1>3, ErasureShares

\* deleteSharedSegment takes one owner off, or frees the descriptors under
\* everybody who is attached or on the way.
LEMMA DeleteSharedShares ==
  ASSUME Bookkeeping, Sharing, NEW p \in Procs, NEW name, DeleteSharedSegment(p, name)
  PROVE  Sharing'
<1> DEFINE dangles(q) == AttachedTo(proc[q], name)
           waits(q) == call[q].op \in {"attach", "disconnect"} /\ call[q].name = name
<1>1. name \in DOMAIN segmentsMap /\ UNCHANGED <<life, job>>
  BY DEF DeleteSharedSegment
<1>2. \A q \in Procs : SameRollback(q)
  BY <1>1 DEF SameRollback, RolledBack
<1>3. CASE \E q \in segmentsMap[name].owners :
             removeProcess(name, q) /\ Spoil({q}) /\ UNCHANGED <<proc, call>>
  <2>1. PICK q \in segmentsMap[name].owners :
               removeProcess(name, q) /\ Spoil({q}) /\ UNCHANGED <<proc, call>>
    BY <1>3
  <2>2. spoiled' = spoiled \cup {q}
    BY <2>1 DEF Spoil
  <2>3. q \in Procs
    <3> DEFINE Entry == [size : Nat \ {0}, owners : SUBSET Procs]
    <3>1. segmentsMap[name] \in Entry
      <4>1. segmentsMap \in Partial(Names, Entry)
        BY Typing
      <4> HIDE DEF Entry
      <4> QED BY <1>1, <4>1, PartialIs
    <3> QED BY <3>1
  <2>4. \A r \in Procs \ {q} : ManagerKeeps(r)
    BY <1>1, <2>1, OthersOwn
  <2>5. life'[q] = "unborn" => Unborn(q)'
    BY <1>1, <2>1, <2>3 DEF Sharing, Unborn
  <2>6. spoiled \subseteq spoiled' /\ q \in spoiled'
    BY <2>2
  <2>7. \A r \in Procs \ {q} : /\ proc'[r] = proc[r] /\ call'[r] = call[r] /\ life'[r] = life[r]
                               /\ ManagerKeeps(r) /\ SameRollback(r)
    BY <1>1, <1>2, <2>1, <2>4
  <2> QED BY <2>3, <2>5, <2>6, <2>7, OneShares
<1>4. CASE /\ segmentsMap' = Without(segmentsMap, name)
           /\ proc' = [q \in Procs |-> Freed(proc[q], dangles(q))]
           /\ call' = [q \in Procs |->
                IF waits(q) /\ call[q].op = "attach"
                THEN [call[q] EXCEPT !.dangling = TRUE] ELSE call[q]]
           /\ Spoil({q \in Procs : dangles(q) # {} \/ waits(q)})
  <2>1. spoiled' = spoiled \cup {q \in Procs : dangles(q) # {} \/ waits(q)}
    BY <1>4 DEF Spoil
  <2>2. \A n \in DOMAIN segmentsMap \ {name} : n \in DOMAIN segmentsMap' /\ segmentsMap'[n] = segmentsMap[n]
    <3>1. segmentsMap' = Without(segmentsMap, name)
      BY <1>4
    <3> QED BY <3>1 DEF Without, Restrict
  <2>3. ASSUME NEW q \in Procs, ~waits(q)
        PROVE  call'[q] = call[q]
    BY <1>4, <2>3
  <2>4. ASSUME NEW q \in Procs, dangles(q) = {}
        PROVE  proc'[q] = proc[q]
    <3> DEFINE pr == proc[q]
    <3>1. pr \in Process /\ Good(pr) /\ proc'[q] = Freed(pr, {})
      BY <1>4, <2>4, Typing
    <3> HIDE DEF pr
    <3> QED BY <3>1, FreedNone DEF pr
  <2>5. ASSUME NEW q \in Procs, q \in Alive' \ spoiled'
        PROVE  Shares(q)'
    <3>1. Shares(q) /\ ~waits(q) /\ dangles(q) = {}
      BY <1>1, <2>1, <2>5 DEF Alive, Sharing
    <3>2. SameCall(q) /\ SameSharing(proc[q], proc'[q]) /\ SameAddresses(proc[q], proc'[q])
      BY <2>3, <2>4, <3>1, SameIsSame DEF SameCall
    <3>3. ~Uses(q, name)
      BY <3>1 DEF Uses
    <3>4. ManagerKeeps(q)
      BY <2>2, <3>3 DEF ManagerKeeps
    <3> QED BY <1>2, <3>1, <3>2, <3>4, SharesKept
  <2>6. ASSUME NEW q \in Procs, life'[q] = "unborn"
        PROVE  Unborn(q)'
    <3>1. proc[q] = NewProcess /\ call[q] = Idle
      BY <1>1, <2>6 DEF Sharing, Unborn
    <3>2. ~waits(q)
      BY <3>1 DEF Idle
    <3>3. dangles(q) = {}
      BY <3>1 DEF AttachedTo, SharedStarts, NewProcess, EmptyMap
    <3> QED BY <2>3, <2>4, <3>1, <3>2, <3>3 DEF Unborn
  <2> QED BY <2>5, <2>6 DEF Sharing
<1> QED BY <1>3, <1>4 DEF DeleteSharedSegment

---------------------------------------------------------------------------
(* The other steps.                                                        *)

\* Neither a process nor its names and owners change.
LEMMA NothingShares ==
  ASSUME Sharing, UNCHANGED <<life, proc, call, segmentsMap, spoiled>>,
         \A q \in Procs : SameRollback(q)
  PROVE  Sharing'
<1>1. ASSUME NEW q \in Procs
      PROVE  /\ q \in Alive' \ spoiled' => Shares(q)'
             /\ life'[q] = "unborn" => Unborn(q)'
  <2>1. ManagerKeeps(q) /\ SameCall(q) /\ SameSharing(proc[q], proc'[q]) /\ SameAddresses(proc[q], proc'[q])
    BY SameIsSame DEF ManagerKeeps, SameCall
  <2>2. q \in Alive' \ spoiled' => Shares(q)
    BY DEF Alive, Sharing
  <2>3. Shares(q) => Shares(q)'
    BY <2>1, SharesKept
  <2> QED BY <2>2, <2>3 DEF Sharing, Unborn
<1> QED BY <1>1 DEF Sharing

LEMMA CreateSharedShares ==
  ASSUME Bookkeeping, Sharing, NEW p \in Procs, NEW address, NEW size, NEW name,
         CreateSharedSegment(p, address, size, name)
  PROVE  Sharing'
<1>1. Calls(p) /\ BeginAttach(p, address, size, name) /\ UNCHANGED <<life, job>>
  BY DEF CreateSharedSegment
<1>2. life[p] = "live" /\ life[p] # "unborn" /\ call[p] = Idle
  BY <1>1, LiveIs
<1>3. ~RolledBack(p)
  BY <1>2, Typing DEF JobFits, RolledBack
<1>4. ~RolledBack(p)' /\ \A q \in Procs : SameRollback(q)
  BY <1>1, <1>3 DEF RolledBack, SameRollback
<1> QED BY <1>1, <1>2, <1>3, <1>4, BeginAttachShares

LEMMA CloneSharedShares ==
  ASSUME Bookkeeping, Sharing, job.op = "clone", call[job.process] = Idle,
         NEW s, CloneSharedSegment(s)
  PROVE  Sharing'
<1>1. PICK p \in Procs : p = job.process
  BY Typing, JobIs
<1>2. \A q \in Procs : SameRollback(q)
  BY DEF SameRollback, RolledBack
<1>3. CASE UNCHANGED <<proc, call, freeFrames, segmentsMap, spoiled>>
  BY <1>2, <1>3, NothingShares DEF CloneSharedSegment
<1>4. CASE /\ \E address, size, name : BeginAttach(p, address, size, name)
           /\ \E S : job' = [job EXCEPT !.todo = S]
  <2>1. life[p] # "unborn" /\ call[p] = Idle /\ ~RolledBack(p) /\ UNCHANGED life
    BY <1>1, Typing DEF JobFits, RolledBack, CloneSharedSegment
  <2>2. job \in CloneJob
    BY Typing, JobIs
  <2>3. ~RolledBack(p)'
    <3>1. \A S : [job EXCEPT !.todo = S].op = "clone"
      BY <2>2 DEF CloneJob
    <3> QED BY <1>4, <3>1 DEF RolledBack
  <2> QED BY <1>2, <1>4, <2>1, <2>3, BeginAttachShares
<1> QED BY <1>1, <1>3, <1>4 DEF CloneSharedSegment

\* A process that is born has no segment and no name.
LEMMA BornShares ==
  ASSUME Bookkeeping, Sharing, NEW p \in Procs, life[p] = "unborn", NEW stage, stage # "unborn",
         life' = [life EXCEPT ![p] = stage],
         UNCHANGED <<proc, call, segmentsMap, spoiled>>, \A q \in Procs : SameRollback(q)
  PROVE  Sharing'
<1>1. proc'[p] = NewProcess /\ call'[p] = Idle
  BY DEF Sharing, Unborn
<1>2. /\ SharedStarts(proc'[p]) = {}
      /\ DOMAIN proc'[p].sharedSegmentVirtualAddressMap = {}
      /\ DOMAIN proc'[p].virtualAddressSharedSegmentMap = {}
  BY <1>1 DEF NewProcess, EmptyMap, SharedStarts
<1>3. call'[p].op = "idle"
  BY <1>1 DEF Idle
<1>4. Shares(p)'
  BY <1>2, <1>3 DEF Shares, Matched, Registered, NamesUsed, AddressesUsed
<1>5. \A q \in Procs : ManagerKeeps(q)
  BY DEF ManagerKeeps
<1>6. life'[p] = stage /\ \A q \in Procs \ {p} : life'[q] = life[q]
  BY Typing
<1> QED BY <1>4, <1>5, <1>6, OneShares

LEMMA BirthsShare ==
  ASSUME Bookkeeping, Sharing, NEW p \in Procs,
         CreateProcess(p) \/ \E parent \in Procs : CloneProcess(parent, p)
  PROVE  Sharing'
<1>1. PICK stage : stage # "unborn" /\ life' = [life EXCEPT ![p] = stage]
  <2>1. \/ life' = [life EXCEPT ![p] = "live"]
        \/ life' = [life EXCEPT ![p] = "hollow"]
        \/ life' = [life EXCEPT ![p] = "cloning"]
    BY DEF CreateProcess, CloneProcess
  <2> QED BY <2>1
<1>2. /\ life[p] = "unborn" /\ job = NoJob
      /\ UNCHANGED <<proc, call, segmentsMap, spoiled>>
  BY DEF CreateProcess, CloneProcess, IsNextId, ksMutexFree, history
<1>3. \A q \in Procs : SameRollback(q)
  BY <1>2 DEF SameRollback, RolledBack, NoJob
<1> QED BY <1>1, <1>2, <1>3, BornShares

LEMMA CleanUpDoneShares ==
  ASSUME Bookkeeping, Sharing, CleanUpDone
  PROVE  Sharing'
<1>1. PICK p \in Procs : p = job.process
  BY Typing, JobIs DEF CleanUpDone
<1>2. /\ proc' = [proc EXCEPT ![p] = NewProcess] /\ life' = [life EXCEPT ![p] = "dead"]
      /\ UNCHANGED <<call, segmentsMap, spoiled>>
  BY <1>1 DEF CleanUpDone, history
<1>3. life'[p] = "dead"
      /\ \A q \in Procs \ {p} : proc'[q] = proc[q] /\ call'[q] = call[q] /\ life'[q] = life[q]
  BY <1>2, Typing DEF ProcsShaped
<1>4. \A q \in Procs \ {p} : ManagerKeeps(q) /\ SameRollback(q)
  BY <1>1, <1>2 DEF ManagerKeeps, SameRollback, RolledBack
<1>5. spoiled \subseteq spoiled'
  BY <1>2
<1> QED BY <1>3, <1>4, <1>5, OneShares

LEMMA SharingInductive ==
  ASSUME NoWrap, Bookkeeping, Sharing, [Next]_vars
  PROVE  Sharing'
<1>1. CASE UNCHANGED vars
  <2>1. UNCHANGED <<life, proc, call, segmentsMap, job, spoiled>>
    BY <1>1 DEF vars, history
  <2>2. \A q \in Procs : SameRollback(q)
    BY <2>1 DEF SameRollback, RolledBack
  <2> QED BY <2>1, <2>2, NothingShares
<1>2. CASE Next
  <2>1. Steps
    BY <1>2, NextIsSteps
  <2>2. CASE \E p \in Procs : CreateProcess(p) \/ DestroyProcess(p) \/ LoadContent(p) \/ LoadFails(p)
                              \/ Attach(p) \/ AttachFails(p) \/ AttachToFreed(p) \/ Detach(p)
                              \/ DisconnectAgain(p) \/ EraseRefused(p)
    <3>1. PICK p \in Procs : CreateProcess(p) \/ DestroyProcess(p) \/ LoadContent(p) \/ LoadFails(p)
                             \/ Attach(p) \/ AttachFails(p) \/ AttachToFreed(p) \/ Detach(p)
                             \/ DisconnectAgain(p) \/ EraseRefused(p)
      BY <2>2
    <3>2. ASSUME AttachToFreed(p)
          PROVE  Sharing'
      <4>1. UNCHANGED <<life, proc, call, segmentsMap, job, spoiled>>
        BY <3>2 DEF AttachToFreed, history
      <4>2. \A q \in Procs : SameRollback(q)
        BY <4>1 DEF SameRollback, RolledBack
      <4> QED BY <4>1, <4>2, NothingShares
    <3> QED BY <3>1, <3>2, BirthsShare, DestroyShares, DeleteAndLoadShare, AttachShares,
               AttachFailsShares, DisconnectAgainShares, EraseRefusedShares, DetachShares
  <2>3. CASE \E p \in Procs, child \in Procs : CloneProcess(p, child)
    BY <2>3, BirthsShare
  <2>4. CASE \E p \in Procs, address \in Addresses : DeleteSegment(p, address)
    BY <2>4, DeleteAndLoadShare
  <2>5. CASE \E p \in Procs, address \in Addresses, size \in Sizes :
               \/ CreateSegment(p, address, size) \/ LoadSegment(p, address, size)
               \/ RefuseSegment(p, address, size)
    BY <2>5, PrivateCallsShare
  <2>6. CASE \E p \in Procs, address \in Addresses, size \in Sizes, name \in Names :
               CreateSharedSegment(p, address, size, name)
    BY <2>6, CreateSharedShares
  <2>7. CASE \E p \in Procs, name \in Names : DisconnectSharedSegment(p, name) \/ DeleteSharedSegment(p, name)
    BY <2>7, DisconnectSharedShares, DeleteSharedShares
  <2>8. CASE /\ job.op = "clone" /\ call[job.process] = Idle
             /\ \E s : CloneOneSegment(s) \/ CloneSharedSegment(s)
    BY <2>8, CloneOneShares, CloneSharedShares
  <2>9. CASE CloneDone \/ CleanUpTurn \/ CleanUpDone
    BY <2>9, CloneDoneShares, CleanUpTurnShares, CleanUpDoneShares
  <2> QED BY <2>1, <2>2, <2>3, <2>4, <2>5, <2>6, <2>7, <2>8, <2>9 DEF Steps
<1> QED BY <1>1, <1>2

LEMMA SharingIsSound ==
  ASSUME Sharing
  PROVE  SoundUnlessSpoiled
<1>1. ASSUME NEW p \in Procs, life[p] \in {"live", "cloning", "destroying"}, p \notin spoiled
      PROVE  Sound(p)
  <2>1. Shares(p)
    BY <1>1 DEF Sharing, Alive
  <2>2. \A s \in SharedStarts(proc[p]) :
          Linked(proc[p], s)
          /\ OwnerOf(segmentsMap, p, proc[p].segments[s].name, proc[p].segments[s].numPages, Between(p))
    BY <2>1 DEF Shares, Matched, Registered
  <2>3. RolledBack(p) \/ NamesUsed(proc[p], Between(p))
    BY <2>1 DEF Shares
  <2> QED BY <2>2, <2>3 DEF Sound, Linked, OwnerOf, RolledBack, NamesUsed, Between, SharedCalls
<1> QED BY <1>1 DEF SoundUnlessSpoiled

\* Of a process that is not spoiled, the two maps, the shared segments and the
\* manager tell the same story, whatever attaches, disconnects, clones, rollbacks
\* and destructions of any processes come between.  Spoiled, and so excluded, is
\* a process that attaches again to a name it has, whose createSharedSegment is
\* refused at the start of its own shared segment, that disconnects a name it
\* does not have, or that uses a name, or is between the manager and its maps
\* with it, when anybody calls deleteSharedSegment for it: that call stops after
\* one user and later frees the descriptors (sharedsegment.cpp:45).
THEOREM SharedSegmentsSound ==
  ASSUME NoWrap
  PROVE  Spec => []SoundUnlessSpoiled
<1>1. Init => Sharing
  BY DEF Init, Sharing, Unborn, Alive
<1>2. Bookkeeping /\ Sharing /\ [Next]_vars => Sharing'
  BY SharingInductive
<1>3. Sharing => SoundUnlessSpoiled
  BY SharingIsSound
<1> QED BY <1>1, <1>2, <1>3, BookkeepingKept, PTL DEF Spec

=============================================================================
