-------------------------- MODULE ThrashingProofs --------------------------
(***************************************************************************)
(* Thrashing, for every number of processes, pages and frames and every    *)
(* period: the states are those of the code, and a round, in whatever      *)
(* order it visits the processes, stops neither too early nor too late.    *)
(* The argument about a round looks at the first or the last process it    *)
(* picked, and compares sums of working sets by inclusion.                 *)
(***************************************************************************)
EXTENDS Thrashing, FiniteSetTheorems, WellFoundedInduction, TLAPS

LEMMA ThreadTyped ==
  ASSUME TypeOK, NEW p \in Procs, Thread(p)
  PROVE  TypeOK'
<1>1. CASE CheckThrashing(p)
  BY <1>1 DEF CheckThrashing, TypeOK, Phases
<1>2. CASE Wait(p)
  BY <1>2 DEF Wait, TypeOK, Phases
<1>3. CASE SpuriousWakeup(p)
  BY <1>3 DEF SpuriousWakeup, TypeOK, Phases
<1>4. ASSUME NEW pages \in SUBSET VPages, Access(p, pages) PROVE TypeOK'
  BY <1>4 DEF Access, TypeOK, Phases
<1> QED BY <1>1, <1>2, <1>3, <1>4 DEF Thread

LEMMA ProcessTyped ==
  ASSUME TypeOK, NEW p \in Procs, CreateProcess(p) \/ DestroyProcess(p)
  PROVE  TypeOK'
<1>1. CASE CreateProcess(p)
  BY <1>1 DEF CreateProcess, TypeOK
<1>2. CASE DestroyProcess(p)
  <2>1. Period \in 1 .. Period
    BY PeriodAssumption
  <2> QED BY <1>2, <2>1 DEF DestroyProcess, TypeOK
<1> QED BY <1>1, <1>2

LEMMA JobTyped ==
  ASSUME TypeOK, PeriodicJob
  PROVE  TypeOK'
<1>1. live' = live
  BY DEF PeriodicJob
<1>2. CASE counter > 1
  BY <1>2, PeriodAssumption DEF PeriodicJob, TypeOK
<1>3. CASE counter = 1
  <2>1. counter' \in 1 .. Period /\ (ReleaseRound \/ BlockRound)
    BY <1>3, PeriodAssumption DEF PeriodicJob, CounterRenewed
  <2>2. accessHistory' = NewHistories
    BY <2>1 DEF ReleaseRound, BlockRound
  <2>3. accessHistory' \in [Procs -> SUBSET VPages]
    BY <2>2 DEF NewHistories, TypeOK
  <2>4. \E chosen : \/ /\ isInThrashing' = [p \in Procs |-> isInThrashing[p] /\ p \notin chosen]
                       /\ thread' = Woken(chosen)
                    \/ /\ isInThrashing' = [p \in Procs |-> isInThrashing[p] \/ p \in chosen]
                       /\ thread' = thread
    BY <2>1 DEF ReleaseRound, BlockRound
  <2>5. isInThrashing' \in [Procs -> BOOLEAN]
    BY <2>4, Zenon DEF TypeOK
  <2>6. thread' \in [Procs -> Phases]
    BY <2>4 DEF Woken, TypeOK, Phases
  <2> QED BY <1>1, <2>1, <2>3, <2>5, <2>6 DEF TypeOK
<1> QED BY <1>2, <1>3 DEF PeriodicJob

\* The counter of periodicJob stays between its two ends, whatever destructors
\* and rounds reset it, and a thread is in one of the four phases.
THEOREM TypeCorrect == Spec => []TypeOK
<1>1. Init => TypeOK
  BY PeriodAssumption DEF Init, TypeOK, Phases
<1>2. TypeOK /\ [Next]_vars => TypeOK'
  <2> SUFFICES ASSUME TypeOK, [Next]_vars PROVE TypeOK'
    OBVIOUS
  <2>1. ASSUME NEW p \in Procs, CreateProcess(p) \/ DestroyProcess(p) PROVE TypeOK'
    BY <2>1, ProcessTyped
  <2>2. ASSUME NEW p \in Procs, Thread(p) PROVE TypeOK'
    BY <2>2, ThreadTyped
  <2>3. CASE PeriodicJob
    BY <2>3, JobTyped
  <2>4. CASE UNCHANGED vars
    BY <2>4 DEF vars, TypeOK
  <2> QED BY <2>1, <2>2, <2>3, <2>4 DEF Next
<1> QED BY <1>1, <1>2, PTL DEF Spec

---------------------------------------------------------------------------
(* Sums of working sets.                                                   *)

LEMMA AccessedFinite ==
  ASSUME NEW S, IsFiniteSet(S)
  PROVE  IsFiniteSet(Accessed(S))
<1>1. IsFiniteSet(S \X VPages)
  BY FS_Product, PagesAssumption
<1>2. Accessed(S) \in SUBSET (S \X VPages)
  BY DEF Accessed
<1> QED BY <1>1, <1>2, FS_Subset

LEMMA NeededNat ==
  ASSUME NEW S, IsFiniteSet(S)
  PROVE  Needed(S) \in Nat
BY AccessedFinite, FS_CardinalityType DEF Needed

LEMMA NeededMonotone ==
  ASSUME NEW T, IsFiniteSet(T), NEW S \in SUBSET T
  PROVE  Needed(S) <= Needed(T)
<1>1. Accessed(S) \in SUBSET Accessed(T)
  BY DEF Accessed
<1> QED BY <1>1, AccessedFinite, FS_Subset DEF Needed

LEMMA NeededNone == Needed({}) = 0
<1>1. Accessed({}) = {}
  BY DEF Accessed
<1> QED BY <1>1, FS_EmptySet DEF Needed

\* What a set fits, its subsets fit.
LEMMA FitsMonotone ==
  ASSUME NEW T, IsFiniteSet(T), NEW S \in SUBSET T, Fits(Needed(T))
  PROVE  Fits(Needed(S))
<1>1. IsFiniteSet(S)
  BY FS_Subset
<1>2. Needed(S) \in Nat /\ Needed(T) \in Nat /\ Needed(S) <= Needed(T)
  BY <1>1, NeededNat, NeededMonotone
<1> QED BY <1>2, MemoryAssumption DEF Fits

LEMMA NoneFits == Fits(Needed({}))
BY NeededNone, MemoryAssumption DEF Fits

\* Needed is the sum the code keeps as it goes: one process adds its working set
\* to it, or takes it away (thrashingmanager.cpp:75,96).
LEMMA RunningSum ==
  ASSUME NEW S, IsFiniteSet(S), NEW p, p \notin S, accessHistory[p] \subseteq VPages
  PROVE  Needed(S \cup {p}) = Needed(S) + WorkingSet(p)
<1> DEFINE f == [v \in accessHistory[p] |-> <<p, v>>]
<1>1. IsFiniteSet(accessHistory[p])
  BY PagesAssumption, FS_Subset
<1>2. f \in Bijection(accessHistory[p], Accessed({p}))
  <2>1. \A v \in accessHistory[p] : f[v] \in Accessed({p})
    BY DEF Accessed
  <2>2. \A v, w \in accessHistory[p] : f[v] = f[w] => v = w
    OBVIOUS
  <2>3. \A e \in Accessed({p}) : \E v \in accessHistory[p] : f[v] = e
    BY DEF Accessed
  <2> QED BY <2>1, <2>2, <2>3 DEF Bijection, Injection, IsInjective, Surjection
<1>3. IsFiniteSet(Accessed({p})) /\ Needed({p}) = WorkingSet(p)
  BY <1>1, <1>2, FS_Bijection DEF ExistsBijection, Needed, WorkingSet
<1>4. Accessed(S \cup {p}) = Accessed(S) \cup Accessed({p})
  BY DEF Accessed
<1>5. Accessed(S) \cap Accessed({p}) = {}
  BY DEF Accessed
<1>6. IsFiniteSet(Accessed(S))
  BY AccessedFinite
<1>7. /\ Needed(S \cup {p}) = Needed(S) + Needed({p}) - Cardinality({})
      /\ Needed(S) \in Nat /\ Needed({p}) \in Nat
  BY <1>3, <1>4, <1>5, <1>6, FS_Union, FS_CardinalityType DEF Needed
<1> QED BY <1>3, <1>7, FS_EmptySet

---------------------------------------------------------------------------
(* Orders of visit.                                                        *)

LEMMA LeastOf ==
  ASSUME NEW T \in SUBSET Nat, T # {}
  PROVE  \E m \in T : \A i \in T : m <= i
<1>1. PICK m \in T : \A i \in T : <<i, m>> \notin OpToRel(<, Nat)
  BY WFMin, NatLessThanWellFounded
<1>2. \A i \in T : ~(i < m)
  BY <1>1 DEF OpToRel
<1> QED BY <1>2

LEMMA GreatestOf ==
  ASSUME NEW n \in Nat, NEW T \in SUBSET (1 .. n), T # {}
  PROVE  \E m \in T : \A i \in T : i <= m
<1> DEFINE U == {n - i : i \in T}
<1>1. U \in SUBSET Nat /\ U # {}
  <2>1. \A i \in 1 .. n : n - i \in Nat
    OBVIOUS
  <2>2. U \in SUBSET Nat
    BY <2>1
  <2> QED BY <2>2
<1>2. PICK u \in U : \A w \in U : u <= w
  BY <1>1, LeastOf
<1>3. PICK m \in T : u = n - m
  OBVIOUS
<1>4. ASSUME NEW i \in T PROVE i <= m
  <2>1. n - m <= n - i
    BY <1>2, <1>3
  <2> QED BY <2>1
<1> QED BY <1>4

\* A round visits each process of the list once.
LEMMA VisitsAll ==
  ASSUME NEW S, IsFiniteSet(S), NEW order \in SetToSeqs(S)
  PROVE  /\ Cardinality(S) \in Nat
         /\ DOMAIN order = 1 .. Cardinality(S)
         /\ \A i \in DOMAIN order : order[i] \in S
         /\ \A p \in S : \E i \in DOMAIN order : order[i] = p
<1> DEFINE n == Cardinality(S)
<1>1. n \in Nat
  BY FS_CardinalityType
<1>2. /\ order \in [1 .. n -> S]
      /\ \A i, j \in 1 .. n : i # j => order[i] # order[j]
  BY DEF SetToSeqs
<1>3. order \in Injection(1 .. n, S)
  BY <1>2 DEF Injection, IsInjective
<1>4. Cardinality(1 .. n) = n
  BY <1>1, FS_Interval
<1>5. order \in Surjection(1 .. n, S)
  BY <1>3, <1>4, FS_Injection
<1> QED BY <1>1, <1>2, <1>5 DEF Surjection

---------------------------------------------------------------------------
(* What a round picks.                                                     *)

\* A round that releases processes releases what fits, and all that fits.
LEMMA ReleaseFits ==
  ASSUME IsFiniteSet(live), Fits(Needed(Active)),
         NEW order \in SetToSeqs(Blocked), NEW chosen \in SUBSET Blocked,
         Released(order, chosen)
  PROVE  /\ Fits(Needed(Active \cup chosen))
         /\ \A p \in Blocked \ chosen : ~Fits(Needed(Active \cup chosen \cup {p}))
<1> DEFINE n == Cardinality(Blocked)
<1>1. IsFiniteSet(Active) /\ IsFiniteSet(Blocked)
  BY FS_Subset DEF Active, Blocked
<1>2. /\ n \in Nat
      /\ DOMAIN order = 1 .. n
      /\ \A i \in DOMAIN order : order[i] \in Blocked
      /\ \A p \in Blocked : \E i \in DOMAIN order : order[i] = p
  BY <1>1, VisitsAll
<1> HIDE DEF n
<1>3. Fits(Needed(Active \cup chosen))
  <2>1. CASE chosen = {}
    BY <2>1
  <2>2. CASE chosen # {}
    <3> DEFINE T == {i \in 1 .. n : order[i] \in chosen}
    <3>1. T # {}
      BY <1>2, <2>2
    <3>2. PICK m \in T : \A i \in T : i <= m
      BY <1>2, <3>1, GreatestOf
    <3>3. Fits(Needed(Active \cup (chosen \cap Before(order, m)) \cup {order[m]}))
      BY <1>2 DEF Released
    <3>4. ASSUME NEW p \in chosen PROVE p \in Before(order, m) \cup {order[m]}
      <4>1. PICK i \in 1 .. n : order[i] = p
        BY <1>2
      <4>2. i <= m
        BY <3>2, <4>1
      <4>3. i = m \/ i \in 1 .. m - 1
        BY <1>2, <4>2
      <4> QED BY <4>1, <4>3 DEF Before
    <3>5. order[m] \in chosen
      OBVIOUS
    <3>6. Active \cup (chosen \cap Before(order, m)) \cup {order[m]} = Active \cup chosen
      BY <3>4, <3>5
    <3> QED BY <3>3, <3>6
  <2> QED BY <2>1, <2>2
<1>4. ASSUME NEW p \in Blocked \ chosen, Fits(Needed(Active \cup chosen \cup {p}))
      PROVE  FALSE
  <2>1. PICK i \in 1 .. n : order[i] = p
    BY <1>2
  <2> DEFINE S == Active \cup (chosen \cap Before(order, i)) \cup {p}
  <2>2. ~Fits(Needed(S))
    BY <1>2, <2>1 DEF Released
  <2>3. IsFiniteSet(Active \cup chosen \cup {p})
    <3>1. IsFiniteSet(chosen)
      BY <1>1, FS_Subset
    <3> QED BY <1>1, <3>1, FS_Union, FS_Singleton
  <2>4. S \in SUBSET (Active \cup chosen \cup {p})
    OBVIOUS
  <2> QED BY <1>4, <2>2, <2>3, <2>4, FitsMonotone
<1> QED BY <1>3, <1>4

\* A round that blocks processes blocks at least one, until the others fit, and
\* had to block the last one it blocked.
LEMMA BlockFits ==
  ASSUME IsFiniteSet(live), ~Fits(Needed(Active)),
         NEW order \in SetToSeqs(Active), NEW chosen \in SUBSET Active,
         NewlyBlocked(order, chosen)
  PROVE  /\ Fits(Needed(Active \ chosen))
         /\ \E p \in chosen : ~Fits(Needed((Active \ chosen) \cup {p}))
<1> DEFINE n == Cardinality(Active)
<1>1. IsFiniteSet(Active)
  BY FS_Subset DEF Active
<1>2. /\ n \in Nat
      /\ DOMAIN order = 1 .. n
      /\ \A i \in DOMAIN order : order[i] \in Active
      /\ \A p \in Active : \E i \in DOMAIN order : order[i] = p
  BY <1>1, VisitsAll
<1> HIDE DEF n
<1>3. Fits(Needed(Active \ chosen))
  <2>1. CASE Active \ chosen = {}
    BY <2>1, NoneFits
  <2>2. CASE Active \ chosen # {}
    <3> DEFINE T == {i \in 1 .. n : order[i] \notin chosen}
    <3>1. T # {} /\ T \in SUBSET Nat
      BY <1>2, <2>2
    <3>2. PICK m \in T : \A i \in T : m <= i
      BY <3>1, LeastOf
    <3>3. Fits(Needed(Active \ Before(order, m)))
      BY <1>2 DEF NewlyBlocked
    <3>4. Active \ chosen \in SUBSET (Active \ Before(order, m))
      <4>1. \A j \in 1 .. m - 1 : order[j] \in chosen
        <5>1. \A j \in 1 .. m - 1 : j \in 1 .. n /\ ~(m <= j)
          BY <1>2, <3>2
        <5> QED BY <3>2, <5>1
      <4> QED BY <4>1 DEF Before
    <3>5. IsFiniteSet(Active \ Before(order, m))
      BY <1>1, FS_Difference
    <3> QED BY <3>3, <3>4, <3>5, FitsMonotone
  <2> QED BY <2>1, <2>2
<1>4. \E p \in chosen : ~Fits(Needed((Active \ chosen) \cup {p}))
  <2> DEFINE T == {i \in 1 .. n : order[i] \in chosen}
  <2>1. T # {}
    <3>1. Active # {}
      BY NoneFits
    <3>2. 1 \in 1 .. n
      BY <1>2, <3>1
    <3>3. Before(order, 1) = {}
      BY DEF Before
    <3>4. Active \ Before(order, 1) = Active
      BY <3>3
    <3> QED BY <1>2, <3>2, <3>4 DEF NewlyBlocked
  <2>2. PICK m \in T : \A i \in T : i <= m
    BY <1>2, <2>1, GreatestOf
  <2>3. ~Fits(Needed(Active \ Before(order, m)))
    BY <1>2 DEF NewlyBlocked
  <2>4. ASSUME NEW q \in Active \ Before(order, m)
        PROVE  q \in (Active \ chosen) \cup {order[m]}
    <3>1. PICK j \in 1 .. n : order[j] = q
      BY <1>2
    <3>2. CASE q \in chosen
      <4>1. j <= m
        BY <2>2, <3>1, <3>2
      <4>2. j \notin 1 .. m - 1
        BY <3>1 DEF Before
      <4>3. j = m
        BY <1>2, <4>1, <4>2
      <4> QED BY <3>1, <4>3
    <3> QED BY <3>2
  <2>5. Active \ Before(order, m) \in SUBSET ((Active \ chosen) \cup {order[m]})
    BY <2>4
  <2>6. IsFiniteSet((Active \ chosen) \cup {order[m]})
    BY <1>1, FS_Difference, FS_AddElement
  <2>7. ~Fits(Needed((Active \ chosen) \cup {order[m]}))
    BY <2>3, <2>5, <2>6, FitsMonotone
  <2> QED BY <2>7
<1> QED BY <1>3, <1>4

---------------------------------------------------------------------------
(* The rounds of the specification.                                        *)

FiniteInv == TypeOK /\ IsFiniteSet(live)

LEMMA FiniteCorrect == Spec => []FiniteInv
<1>1. Init => IsFiniteSet(live)
  BY FS_EmptySet DEF Init
<1>2. IsFiniteSet(live) /\ [Next]_vars => IsFiniteSet(live)'
  <2> SUFFICES ASSUME IsFiniteSet(live), [Next]_vars PROVE IsFiniteSet(live')
    OBVIOUS
  <2>1. \/ live' = live
        \/ \E p \in Procs : live' = live \cup {p} \/ live' = live \ {p}
    BY DEF Next, CreateProcess, DestroyProcess, Thread, CheckThrashing, Wait,
           SpuriousWakeup, Access, PeriodicJob, vars
  <2> QED BY <2>1, FS_AddElement, FS_RemoveElement
<1> QED BY <1>1, <1>2, TypeCorrect, PTL DEF Spec, FiniteInv

LEMMA OnlyTheJobRounds ==
  ASSUME [Next]_vars, Round
  PROVE  ReleaseRound \/ BlockRound
<1>1. ASSUME NEW p \in Procs, CreateProcess(p) \/ DestroyProcess(p) \/ Thread(p)
      PROVE  FALSE
  BY <1>1 DEF CreateProcess, DestroyProcess, Thread, CheckThrashing, Wait,
              SpuriousWakeup, Access, Round
<1>2. ~UNCHANGED vars
  BY DEF vars, Round
<1>3. PeriodicJob
  BY <1>1, <1>2 DEF Next
<1> QED BY <1>3 DEF PeriodicJob, Round

LEMMA AfterARelease ==
  ASSUME TypeOK, NEW chosen \in SUBSET Blocked,
         isInThrashing' = [p \in Procs |-> isInThrashing[p] /\ p \notin chosen]
  PROVE  /\ ActiveAfter = Active \cup chosen
         /\ live \ ActiveAfter = Blocked \ chosen
         /\ {p \in Active : isInThrashing'[p]} = {}
BY DEF TypeOK, ActiveAfter, Active, Blocked

LEMMA AfterABlock ==
  ASSUME TypeOK, NEW chosen \in SUBSET Active,
         isInThrashing' = [p \in Procs |-> isInThrashing[p] \/ p \in chosen]
  PROVE  /\ ActiveAfter = Active \ chosen
         /\ {p \in Active : isInThrashing'[p]} = chosen
BY DEF TypeOK, ActiveAfter, Active

\* What the two properties say of a round.
LEMMA RoundIsRight ==
  ASSUME FiniteInv, [Next]_vars, Round
  PROVE  LET new == {p \in Active : isInThrashing'[p]}
             TooLarge(p) == ~Fits(Needed(ActiveAfter \cup {p}))
         IN  /\ Fits(Needed(ActiveAfter))
             /\ IF Fits(Needed(Active))
                THEN new = {} /\ \A p \in live \ ActiveAfter : TooLarge(p)
                ELSE ActiveAfter \subseteq Active /\ \E p \in new : TooLarge(p)
<1>1. CASE ReleaseRound
  <2>1. PICK order \in SetToSeqs(Blocked), chosen \in SUBSET Blocked :
          /\ Released(order, chosen)
          /\ isInThrashing' = [p \in Procs |-> isInThrashing[p] /\ p \notin chosen]
    BY <1>1 DEF ReleaseRound
  <2>2. /\ Fits(Needed(Active \cup chosen))
        /\ \A p \in Blocked \ chosen : ~Fits(Needed(Active \cup chosen \cup {p}))
    BY <1>1, <2>1, ReleaseFits DEF ReleaseRound, FiniteInv
  <2>3. /\ ActiveAfter = Active \cup chosen
        /\ live \ ActiveAfter = Blocked \ chosen
        /\ {p \in Active : isInThrashing'[p]} = {}
    BY <2>1, AfterARelease DEF FiniteInv
  <2>4. Fits(Needed(Active))
    BY <1>1 DEF ReleaseRound
  <2> QED BY <2>2, <2>3, <2>4
<1>2. CASE BlockRound
  <2>1. PICK order \in SetToSeqs(Active), chosen \in SUBSET Active :
          /\ NewlyBlocked(order, chosen)
          /\ isInThrashing' = [p \in Procs |-> isInThrashing[p] \/ p \in chosen]
    BY <1>2 DEF BlockRound
  <2>2. /\ Fits(Needed(Active \ chosen))
        /\ \E p \in chosen : ~Fits(Needed((Active \ chosen) \cup {p}))
    BY <1>2, <2>1, BlockFits DEF BlockRound, FiniteInv
  <2>3. /\ ActiveAfter = Active \ chosen
        /\ {p \in Active : isInThrashing'[p]} = chosen
    BY <2>1, AfterABlock DEF FiniteInv
  <2>4. ~Fits(Needed(Active))
    BY <1>2 DEF BlockRound
  <2> QED BY <2>2, <2>3, <2>4
<1> QED BY <1>1, <1>2, OnlyTheJobRounds

\* After a round the working sets of the active processes fit memory, in
\* whatever order it released or blocked them (thrashingmanager.cpp:64-103).
THEOREM RoundsFit == Spec => WorkingSetsFit
<1>1. FiniteInv /\ [Next]_vars => [Round => Needed(ActiveAfter) <= SizeInFrames]_vars
  BY RoundIsRight DEF Fits
<1> QED BY <1>1, FiniteCorrect, PTL DEF Spec, WorkingSetsFit

\* A round that finds the active processes fitting memory blocks none of them and
\* leaves no process blocked that would fit beside those that are active after it.
\* A round that finds them too large releases nobody, and at least one of those it
\* blocks would not fit beside those it spares: it stops as soon as it may
\* (thrashingmanager.cpp:64-103).
THEOREM RoundsStopInTime == Spec => RoundStopsInTime
<1>1. FiniteInv /\ [Next]_vars =>
        [Round =>
           LET new == {p \in Active : isInThrashing'[p]}
               TooLarge(p) == Needed(ActiveAfter \cup {p}) > SizeInFrames
           IN  IF Fits(Needed(Active))
               THEN new = {} /\ \A p \in live \ ActiveAfter : TooLarge(p)
               ELSE ActiveAfter \subseteq Active /\ \E p \in new : TooLarge(p)]_vars
  <2> SUFFICES ASSUME FiniteInv, [Next]_vars, Round
               PROVE  LET new == {p \in Active : isInThrashing'[p]}
                          TooLarge(p) == Needed(ActiveAfter \cup {p}) > SizeInFrames
                      IN  IF Fits(Needed(Active))
                          THEN new = {} /\ \A p \in live \ ActiveAfter : TooLarge(p)
                          ELSE ActiveAfter \subseteq Active /\ \E p \in new : TooLarge(p)
    OBVIOUS
  <2>1. IsFiniteSet(ActiveAfter)
    BY FS_Subset DEF FiniteInv, ActiveAfter
  <2>2. ASSUME NEW p, ~Fits(Needed(ActiveAfter \cup {p}))
        PROVE  Needed(ActiveAfter \cup {p}) > SizeInFrames
    <3> DEFINE k == Needed(ActiveAfter \cup {p})
    <3>1. IsFiniteSet(ActiveAfter \cup {p})
      BY <2>1, FS_AddElement
    <3>2. k \in Nat
      BY <3>1, NeededNat
    <3>3. ~(k <= SizeInFrames)
      BY <2>2 DEF Fits
    <3> HIDE DEF k
    <3>4. k > SizeInFrames
      BY <3>2, <3>3, MemoryAssumption
    <3> QED BY <3>4 DEF k
  <2> QED BY <2>2, RoundIsRight
<1> QED BY <1>1, FiniteCorrect, PTL DEF Spec, RoundStopsInTime

=============================================================================
