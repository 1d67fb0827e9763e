------------------------- MODULE AllocatorsProofs -------------------------
(***************************************************************************)
(* Allocators: the list, its counter and the stack are sound for every     *)
(* number of frames and clusters, and both allocators implement            *)
(* UnitAllocator.  The three invariants are inductive together: the list   *)
(* is taken from as often as freeFrames allows, and the stack is used only *)
(* once the counter has reached the end.                                   *)
(***************************************************************************)
EXTENDS Allocators, FiniteSetTheorems, TLAPS

\* As many elements as places, when no element occurs twice.
LEMMA Counted ==
  ASSUME NEW s, NEW n \in Nat, NEW T,
         \A i, j \in 1 .. n : s[i] = s[j] => i = j,
         \A i \in 1 .. n : s[i] \in T,
         \A x \in T : \E i \in 1 .. n : s[i] = x
  PROVE  IsFiniteSet(T) /\ Cardinality(T) = n
<1> DEFINE g == [i \in 1 .. n |-> s[i]]
<1>1. g \in Bijection(1 .. n, T)
  <2>1. g \in [1 .. n -> T]
    OBVIOUS
  <2>2. \A i, j \in DOMAIN g : g[i] = g[j] => i = j
    OBVIOUS
  <2>3. \A t \in T : \E i \in 1 .. n : g[i] = t
    OBVIOUS
  <2> QED
    BY <2>1, <2>2, <2>3 DEF Bijection, Injection, Surjection, IsInjective
<1>2. IsFiniteSet(1 .. n) /\ Cardinality(1 .. n) = n
  BY FS_Interval
<1>3. ExistsBijection(1 .. n, T)
  BY <1>1 DEF ExistsBijection
<1> QED
  BY <1>2, <1>3, FS_Bijection

\* t is s without its first n elements.
Shifted(s, t, n) ==
  /\ n \in 1 .. Len(s)
  /\ Len(t) = Len(s) - n
  /\ \A i \in 1 .. Len(t) : t[i] = s[i + n]

\* A list that loses its first n elements loses exactly those.
LEMMA TakenOff ==
  ASSUME NEW S, NEW s \in Seq(S), NEW t \in Seq(S), NEW n, Shifted(s, t, n),
         IsInjective(s)
  PROVE  /\ IsInjective(t)
         /\ \A x \in Range(t) : x \in Range(s) /\ \A i \in 1 .. n : s[i] # x
         /\ \A x \in Range(s) : x \in Range(t) \/ \E i \in 1 .. n : s[i] = x
<1>1. /\ DOMAIN s = 1 .. Len(s) /\ DOMAIN t = 1 .. Len(t)
      /\ Len(s) \in Nat /\ Len(t) \in Nat /\ n \in 1 .. Len(s)
      /\ Len(t) = Len(s) - n
      /\ \A i \in 1 .. Len(t) : t[i] = s[i + n]
  BY DEF Shifted
<1>2. \A i \in DOMAIN t : i \in Nat /\ i + n \in DOMAIN s /\ t[i] = s[i + n]
  BY <1>1
<1>3. IsInjective(t)
  <2> SUFFICES ASSUME NEW i \in DOMAIN t, NEW j \in DOMAIN t, t[i] = t[j]
               PROVE  i = j
    BY DEF IsInjective
  <2>1. i + n = j + n
    BY <1>2 DEF IsInjective
  <2> QED
    BY <1>1, <1>2, <2>1
<1>4. ASSUME NEW x \in Range(t)
      PROVE  x \in Range(s) /\ \A i \in 1 .. n : s[i] # x
  <2>1. PICK i \in DOMAIN t : x = t[i]
    BY DEF Range
  <2>2. i + n \in DOMAIN s /\ x = s[i + n] /\ i + n > n
    BY <1>1, <1>2, <2>1
  <2>3. \A j \in 1 .. n : j \in DOMAIN s /\ j # i + n
    BY <1>1, <2>2
  <2>4. \A j \in 1 .. n : s[j] # x
    BY <2>2, <2>3 DEF IsInjective
  <2> QED
    BY <2>2, <2>4 DEF Range
<1>5. ASSUME NEW x \in Range(s), \A i \in 1 .. n : s[i] # x
      PROVE  x \in Range(t)
  <2>1. PICK i \in DOMAIN s : x = s[i] /\ i \notin 1 .. n
    BY <1>5 DEF Range
  <2>2. i - n \in DOMAIN t /\ (i - n) + n = i
    BY <1>1, <2>1
  <2>3. t[i - n] = x
    BY <1>2, <2>1, <2>2
  <2> QED
    BY <2>2, <2>3 DEF Range
<1> QED
  BY <1>3, <1>4, <1>5

\* A new element put in front is the only change.
LEMMA PutInFront ==
  ASSUME NEW S, NEW s \in Seq(S), NEW x \in S, IsInjective(s), x \notin Range(s),
         NEW t \in Seq(S), Len(t) = Len(s) + 1, t[1] = x,
         \A i \in 1 .. Len(s) : t[i + 1] = s[i]
  PROVE  IsInjective(t) /\ Range(t) = Range(s) \cup {x}
<1>1. /\ Len(t) = Len(s) + 1
      /\ t[1] = x
      /\ \A i \in 1 .. Len(s) : t[i + 1] = s[i]
  OBVIOUS
<1>2. DOMAIN s = 1 .. Len(s) /\ DOMAIN t = 1 .. Len(t) /\ Len(s) \in Nat
  BY <1>1
<1>3. \A i \in DOMAIN t : i = 1 \/ (i - 1 \in DOMAIN s /\ t[i] = s[i - 1])
  <2> SUFFICES ASSUME NEW i \in DOMAIN t, i # 1
               PROVE  i - 1 \in DOMAIN s /\ t[i] = s[i - 1]
    OBVIOUS
  <2>1. i - 1 \in 1 .. Len(s) /\ (i - 1) + 1 = i
    BY <1>1, <1>2
  <2> QED
    BY <1>1, <1>2, <2>1
<1>4. \A i \in DOMAIN s : s[i] \in Range(s)
  BY DEF Range
<1>5. IsInjective(t)
  <2> SUFFICES ASSUME NEW i \in DOMAIN t, NEW j \in DOMAIN t, t[i] = t[j], i # j
               PROVE  FALSE
    BY DEF IsInjective
  <2>1. i # 1 /\ j # 1
    BY <1>1, <1>3, <1>4
  <2>2. i - 1 = j - 1
    BY <1>3, <2>1 DEF IsInjective
  <2>3. i \in Int /\ j \in Int
    BY <1>1, <1>2
  <2> QED
    BY <2>2, <2>3
<1>6. Range(t) \subseteq Range(s) \cup {x}
  <2>1. \A i \in DOMAIN t : t[i] \in Range(s) \cup {x}
    BY <1>1, <1>3, <1>4
  <2>2. \A y \in Range(t) : \E i \in DOMAIN t : y = t[i]
    BY DEF Range
  <2> QED
    BY <2>1, <2>2
<1>7. Range(s) \cup {x} \subseteq Range(t)
  <2>1. \A i \in DOMAIN s : i + 1 \in DOMAIN t /\ t[i + 1] = s[i]
    BY <1>1, <1>2
  <2>2. 1 \in DOMAIN t /\ t[1] = x
    BY <1>1, <1>2
  <2>3. \A i \in DOMAIN s : s[i] \in Range(t)
    BY <2>1 DEF Range
  <2>4. x \in Range(t)
    BY <2>2 DEF Range
  <2> QED
    BY <2>3, <2>4 DEF Range
<1> QED
  BY <1>1, <1>5, <1>6, <1>7

---------------------------------------------------------------------------
Sound == TypeOK /\ FreeListSound /\ StackSound

LEMMA FramesCounted == IsFiniteSet(Frames) /\ Cardinality(Frames) = NumFrames
BY SizesAssumption, FS_Interval DEF Frames

LEMMA ClustersCounted ==
  IsFiniteSet(Clusters) /\ Cardinality(Clusters) = NumClusters
BY SizesAssumption, FS_Interval DEF Clusters

\* A list without repetitions is as long as the set of its elements is large.
LEMMA LengthCounts ==
  ASSUME NEW S, NEW s \in Seq(S), IsInjective(s)
  PROVE  IsFiniteSet(Range(s)) /\ Cardinality(Range(s)) = Len(s)
<1>1. DOMAIN s = 1 .. Len(s) /\ Len(s) \in Nat
  OBVIOUS
<1>2. /\ \A i \in 1 .. Len(s) : s[i] \in Range(s)
      /\ \A x \in Range(s) : \E i \in 1 .. Len(s) : s[i] = x
  BY <1>1 DEF Range
<1>3. \A i, j \in 1 .. Len(s) : s[i] = s[j] => i = j
  BY <1>1 DEF IsInjective
<1> QED
  BY <1>1, <1>2, <1>3, Counted

LEMMA InitSound == Init => Sound
<1> SUFFICES ASSUME Init
             PROVE  Sound
  OBVIOUS
<1>1. NumFrames \in Nat \ {0} /\ NumClusters \in Nat
  BY SizesAssumption
<1>2. /\ freeList \in Seq(Frames)
      /\ Len(freeList) = NumFrames
      /\ DOMAIN freeList = 1 .. NumFrames
      /\ \A i \in 1 .. NumFrames : freeList[i] = i - 1
  BY <1>1 DEF Init, Frames
<1>3. TypeOK
  BY <1>1, <1>2 DEF Init, TypeOK
<1>4. FreeListSound
  <2>1. IsInjective(freeList)
    BY <1>1, <1>2 DEF IsInjective
  <2>2. \A f \in Frames : f + 1 \in DOMAIN freeList /\ freeList[f + 1] = f
    BY <1>1, <1>2 DEF Frames
  <2>3. \A i \in DOMAIN freeList : freeList[i] \in Frames
    BY <1>1, <1>2 DEF Frames
  <2>4. Range(freeList) = Frames
    BY <2>2, <2>3 DEF Range
  <2> QED
    BY <1>2, <2>1, <2>4 DEF Init, FreeListSound
<1>5. StackSound
  BY DEF Init, StackSound, IsInjective, Range
<1> QED
  BY <1>3, <1>4, <1>5 DEF Sound

\* A request for no frame succeeds and takes none (pmtallocator.cpp:89).
LEMMA NoneTaken ==
  ASSUME TypeOK, AllocateFrames(0)
  PROVE  /\ UNCHANGED <<freeList, freeFrames, framesHeld, clusterVars>>
         /\ framesAsked' = 0 /\ framesParity' = 1 - framesParity
<1>1. freeList \in Seq(Frames) /\ freeFrames \in Int
  BY SizesAssumption DEF TypeOK
<1>2. freeList' = SubSeq(freeList, 1, Len(freeList))
  BY DEF AllocateFrames, Remaining
<1>3. freeList' = freeList
  BY <1>1, <1>2
<1>4. FirstFrames(0) = {}
  BY DEF FirstFrames
<1>5. freeFrames' = freeFrames
  BY <1>1 DEF AllocateFrames
<1> QED
  BY <1>3, <1>4, <1>5 DEF AllocateFrames, CallForFrames, clusterVars

LEMMA FrameStep ==
  ASSUME Sound, NextFrame
  PROVE  Sound'
<1> USE SizesAssumption
<1>0. /\ TypeOK /\ FreeListSound /\ StackSound
      /\ freeList \in Seq(Frames) /\ Len(freeList) = freeFrames
      /\ freeFrames \in 0 .. NumFrames
      /\ IsInjective(freeList) /\ Range(freeList) = Frames \ framesHeld
      /\ framesHeld \subseteq Frames /\ framesParity \in {0, 1}
  BY DEF Sound, TypeOK, FreeListSound
<1>1. ASSUME NEW n \in 1 .. (NumFrames + 1), AllocateFrames(n)
      PROVE  Sound'
  <2>1. n \in 1 .. Len(freeList)
    BY <1>0, <1>1 DEF AllocateFrames
  <2>2. freeList' = SubSeq(freeList, n + 1, Len(freeList))
    BY <1>1 DEF AllocateFrames, Remaining
  <2>3. /\ freeList' \in Seq(Frames)
        /\ Len(freeList') = Len(freeList) - n
        /\ \A i \in 1 .. Len(freeList') : freeList'[i] = freeList[i + n]
    BY <1>0, <2>1, <2>2
  <2>4. IsInjective(freeList') /\ Range(freeList') = Range(freeList) \ FirstFrames(n)
    <3>1. /\ IsInjective(freeList')
          /\ \A x \in Range(freeList') :
               x \in Range(freeList) /\ \A i \in 1 .. n : freeList[i] # x
          /\ \A x \in Range(freeList) :
               x \in Range(freeList') \/ \E i \in 1 .. n : freeList[i] = x
      <4>1. Shifted(freeList, freeList', n)
        BY <2>1, <2>3 DEF Shifted
      <4>2. freeList \in Seq(Frames) /\ freeList' \in Seq(Frames) /\ IsInjective(freeList)
        BY <1>0, <2>3
      <4> QED
        BY <4>1, <4>2, TakenOff
    <3> QED
      BY <3>1 DEF FirstFrames
  <2>5. FirstFrames(n) \subseteq Frames
    BY <1>0, <2>1 DEF FirstFrames
  <2>6. freeFrames' \in 0 .. NumFrames /\ freeFrames' = Len(freeList')
    BY <1>0, <1>1, <2>1, <2>3 DEF AllocateFrames
  <2>7. TypeOK'
    BY <1>0, <1>1, <2>3, <2>5, <2>6 DEF AllocateFrames, CallForFrames, TypeOK, clusterVars
  <2>8. Range(freeList') = Frames \ framesHeld'
    BY <1>0, <1>1, <2>4 DEF AllocateFrames
  <2>9. FreeListSound'
    BY <2>4, <2>6, <2>8 DEF FreeListSound
  <2>10. StackSound'
    BY <1>0, <1>1 DEF AllocateFrames, StackSound, clusterVars
  <2> QED
    BY <2>7, <2>9, <2>10 DEF Sound
<1>2. ASSUME NEW n \in 0 .. (NumFrames + 1), RefuseFrames(n)
      PROVE  Sound'
  <2>1. TypeOK'
    BY <1>0, <1>2 DEF RefuseFrames, CallForFrames, TypeOK, clusterVars
  <2>2. FreeListSound' /\ StackSound'
    BY <1>0, <1>2 DEF RefuseFrames, FreeListSound, StackSound, clusterVars
  <2> QED
    BY <2>1, <2>2 DEF Sound
<1>3. ASSUME NEW f \in framesHeld, FreeFrame(f)
      PROVE  Sound'
  <2>1. f \in Frames /\ f \notin Range(freeList)
    BY <1>0
  <2>2. freeList' = <<f>> \o freeList
    BY <1>3 DEF FreeFrame
  <2>3. /\ freeList' \in Seq(Frames)
        /\ Len(freeList') = Len(freeList) + 1
        /\ freeList'[1] = f
        /\ \A i \in 1 .. Len(freeList) : freeList'[i + 1] = freeList[i]
    BY <1>0, <2>1, <2>2
  <2>4. /\ freeList' \in Seq(Frames)
        /\ Len(freeList') = Len(freeList) + 1
        /\ IsInjective(freeList')
        /\ Range(freeList') = Range(freeList) \cup {f}
    BY <1>0, <2>1, <2>3, PutInFront
  <2>5. Len(freeList') <= NumFrames
    <3>1. IsFiniteSet(Range(freeList')) /\ Cardinality(Range(freeList')) = Len(freeList')
      BY <2>4, LengthCounts
    <3>2. Range(freeList') \in SUBSET Frames
      BY <1>0, <2>1, <2>4
    <3> QED
      BY <3>1, <3>2, FramesCounted, FS_Subset
  <2>6. freeFrames' \in 0 .. NumFrames /\ freeFrames' = Len(freeList')
    BY <1>0, <1>3, <2>4, <2>5 DEF FreeFrame, CountOneMore
  <2>7. TypeOK'
    BY <1>0, <1>3, <2>4, <2>6 DEF FreeFrame, CallForFrames, TypeOK, clusterVars
  <2>8. Range(freeList') = Frames \ framesHeld'
    BY <1>0, <1>3, <2>1, <2>4 DEF FreeFrame
  <2>9. FreeListSound'
    BY <2>4, <2>6, <2>8 DEF FreeListSound
  <2>10. StackSound'
    BY <1>0, <1>3 DEF FreeFrame, StackSound, clusterVars
  <2> QED
    BY <2>7, <2>9, <2>10 DEF Sound
<1>4. CASE AllocateFrames(0)
  <2>1. /\ UNCHANGED <<freeList, freeFrames, framesHeld, clusterVars>>
        /\ framesAsked' = 0 /\ framesParity' = 1 - framesParity
    BY <1>4, NoneTaken DEF Sound
  <2>2. TypeOK'
    BY <1>0, <2>1 DEF TypeOK, clusterVars
  <2>3. FreeListSound' /\ StackSound'
    BY <1>0, <2>1 DEF FreeListSound, StackSound, clusterVars
  <2> QED
    BY <2>2, <2>3 DEF Sound
<1>5. \A n \in 0 .. (NumFrames + 1) : n = 0 \/ n \in 1 .. (NumFrames + 1)
  OBVIOUS
<1> QED
  BY <1>1, <1>2, <1>3, <1>4, <1>5 DEF NextFrame

---------------------------------------------------------------------------
LEMMA ClusterStep ==
  ASSUME Sound, NextCluster
  PROVE  Sound'
<1> USE SizesAssumption
<1>0. /\ TypeOK /\ FreeListSound /\ StackSound
      /\ clusterStack \in Seq(Clusters) /\ IsInjective(clusterStack)
      /\ clusterAllocCounter \in 0 .. NumClusters
      /\ Range(clusterStack) = (0 .. (clusterAllocCounter - 1)) \ clustersHeld
      /\ clustersHeld \subseteq 0 .. (clusterAllocCounter - 1)
      /\ clustersHeld \subseteq Clusters
      /\ clustersParity \in {0, 1}
  BY DEF Sound, TypeOK, StackSound
<1>1. ASSUME AllocateNewCluster
      PROVE  Sound'
  <2>1. clusterAllocCounter' \in 0 .. NumClusters /\ clusterAllocCounter \in Clusters
    BY <1>0, <1>1 DEF AllocateNewCluster, NotUsedYet, Clusters
  <2>2. TypeOK'
    BY <1>0, <1>1, <2>1 DEF AllocateNewCluster, CallForClusters, TypeOK, frameVars
  <2>3. 0 .. (clusterAllocCounter' - 1) = (0 .. (clusterAllocCounter - 1)) \cup {clusterAllocCounter}
    BY <1>0, <1>1 DEF AllocateNewCluster
  <2>4. clusterAllocCounter \notin 0 .. (clusterAllocCounter - 1)
    BY <1>0
  <2>5. StackSound'
    BY <1>0, <1>1, <2>3, <2>4 DEF AllocateNewCluster, StackSound
  <2>6. FreeListSound'
    BY <1>0, <1>1 DEF AllocateNewCluster, FreeListSound, frameVars
  <2> QED
    BY <2>2, <2>5, <2>6 DEF Sound
<1>2. ASSUME AllocateUsedCluster
      PROVE  Sound'
  <2>1. /\ clusterStack' \in Seq(Clusters) /\ Len(clusterStack) \in Nat
        /\ 1 \in 1 .. Len(clusterStack)
        /\ Len(clusterStack') = Len(clusterStack) - 1
        /\ \A i \in 1 .. Len(clusterStack') : clusterStack'[i] = clusterStack[i + 1]
    BY <1>0, <1>2 DEF AllocateUsedCluster, Popped
  <2>2. Head(clusterStack) = clusterStack[1]
    BY <1>0, <1>2 DEF AllocateUsedCluster
  <2>3. /\ IsInjective(clusterStack')
        /\ Range(clusterStack') = Range(clusterStack) \ {Head(clusterStack)}
    <3>1. /\ IsInjective(clusterStack')
          /\ \A x \in Range(clusterStack') :
               x \in Range(clusterStack) /\ \A i \in 1 .. 1 : clusterStack[i] # x
          /\ \A x \in Range(clusterStack) :
               x \in Range(clusterStack') \/ \E i \in 1 .. 1 : clusterStack[i] = x
      <4>1. Shifted(clusterStack, clusterStack', 1)
        BY <2>1 DEF Shifted
      <4>2. /\ clusterStack \in Seq(Clusters) /\ clusterStack' \in Seq(Clusters)
            /\ IsInjective(clusterStack)
        BY <1>0, <2>1
      <4> QED
        BY <4>1, <4>2, TakenOff
    <3> QED
      BY <2>2, <3>1
  <2>4. Head(clusterStack) \in Clusters /\ Head(clusterStack) \in Range(clusterStack)
    <3>1. 1 \in DOMAIN clusterStack /\ Head(clusterStack) = clusterStack[1]
      BY <1>0, <1>2 DEF AllocateUsedCluster
    <3>2. Head(clusterStack) \in Clusters
      BY <1>0, <1>2, <3>1
    <3> QED
      BY <3>1, <3>2 DEF Range
  <2>5. TypeOK'
    <3>1. clustersHeld' \subseteq Clusters
      BY <1>0, <1>2, <2>4 DEF AllocateUsedCluster
    <3>2. clustersAsked' \in {0, 1} /\ clustersParity' \in {0, 1}
      BY <1>0, <1>2 DEF AllocateUsedCluster, CallForClusters
    <3>3. clusterStack' \in Seq(Clusters)
      BY <2>1
    <3>4. UNCHANGED <<clusterAllocCounter, freeList, freeFrames, framesHeld, framesAsked,
                      framesParity>>
      BY <1>2 DEF AllocateUsedCluster, frameVars
    <3> QED
      BY <1>0, <3>1, <3>2, <3>3, <3>4 DEF TypeOK
  <2>6. StackSound'
    BY <1>0, <1>2, <2>3, <2>4 DEF AllocateUsedCluster, StackSound
  <2>7. FreeListSound'
    BY <1>0, <1>2 DEF AllocateUsedCluster, FreeListSound, frameVars
  <2> QED
    BY <2>5, <2>6, <2>7 DEF Sound
<1>3. ASSUME RefuseCluster
      PROVE  Sound'
  <2>1. TypeOK'
    BY <1>0, <1>3 DEF RefuseCluster, CallForClusters, TypeOK, frameVars
  <2>2. FreeListSound' /\ StackSound'
    BY <1>0, <1>3 DEF RefuseCluster, FreeListSound, StackSound, frameVars
  <2> QED
    BY <2>1, <2>2 DEF Sound
<1>4. ASSUME NEW c \in clustersHeld, FreeCluster(c)
      PROVE  Sound'
  <2>1. c \in Clusters /\ c \notin Range(clusterStack)
    BY <1>0
  <2>2. clusterStack' = <<c>> \o clusterStack
    BY <1>4 DEF FreeCluster, Pushed
  <2>3. /\ clusterStack' \in Seq(Clusters)
        /\ Len(clusterStack') = Len(clusterStack) + 1
        /\ clusterStack'[1] = c
        /\ \A i \in 1 .. Len(clusterStack) : clusterStack'[i + 1] = clusterStack[i]
    BY <1>0, <2>1, <2>2
  <2>4. /\ IsInjective(clusterStack')
        /\ Range(clusterStack') = Range(clusterStack) \cup {c}
    BY <1>0, <2>1, <2>3, PutInFront
  <2>5. TypeOK'
    BY <1>0, <1>4, <2>3 DEF FreeCluster, CallForClusters, TypeOK, frameVars
  <2>6. StackSound'
    BY <1>0, <1>4, <2>4 DEF FreeCluster, StackSound
  <2>7. FreeListSound'
    BY <1>0, <1>4 DEF FreeCluster, FreeListSound, frameVars
  <2> QED
    BY <2>5, <2>6, <2>7 DEF Sound
<1> QED
  BY <1>1, <1>2, <1>3, <1>4 DEF NextCluster

\* The free list, its counter and the stack of clusters always say which units
\* are free (VMAllocator, PMTAllocator, ClusterAllocator).
THEOREM SoundAllocators == Spec => [](TypeOK /\ FreeListSound /\ StackSound)
<1>1. Sound /\ [Next]_vars => Sound'
  <2> SUFFICES ASSUME Sound, [Next]_vars
               PROVE  Sound'
    OBVIOUS
  <2>1. CASE UNCHANGED vars
    BY <2>1 DEF Sound, TypeOK, FreeListSound, StackSound, vars, frameVars, clusterVars
  <2>2. CASE Next
    BY <2>2, FrameStep, ClusterStep DEF Next
  <2> QED
    BY <2>1, <2>2
<1> QED
  BY <1>1, InitSound, PTL DEF Spec, Sound

\* The counters stay within the memory they count: freeFrames is never negative,
\* and clusterAllocCounter does not pass the number of clusters.
THEOREM TypeCorrect == Spec => []TypeOK
BY SoundAllocators, PTL

\* A cluster that was handed out and not released is not on the stack, and one
\* that was released is there once: none is handed out twice, none is lost.
THEOREM StackKept == Spec => []StackSound
BY SoundAllocators, PTL

---------------------------------------------------------------------------
\* UnitAllocator counts as this module does.
LEMMA SameCount ==
  /\ \A S : FrameUnits!Cardinality(S) = Cardinality(S)
  /\ \A S : ClusterUnits!Cardinality(S) = Cardinality(S)
<1>1. \A S : FrameUnits!Cardinality(S) = Cardinality(S)
  BY DEF FrameUnits!Cardinality, Cardinality
<1>2. \A S : ClusterUnits!Cardinality(S) = Cardinality(S)
  BY DEF ClusterUnits!Cardinality, Cardinality
<1> QED
  BY <1>1, <1>2

\* An allocation takes as many frames as it is asked for, all of them free.
LEMMA FrameCallAllowed ==
  ASSUME Sound, NextFrame
  PROVE  FrameUnits!UANext
<1> USE SizesAssumption
<1>0. /\ freeList \in Seq(Frames) /\ Len(freeList) = freeFrames
      /\ freeFrames \in 0 .. NumFrames /\ DOMAIN freeList = 1 .. freeFrames
      /\ IsInjective(freeList) /\ Range(freeList) = Frames \ framesHeld
  BY DEF Sound, TypeOK, FreeListSound
<1>1. Cardinality(Frames) = NumFrames
  BY FramesCounted
<1>2. Cardinality(Frames \ framesHeld) = freeFrames
  BY <1>0, LengthCounts
<1>3. ASSUME NEW n \in 1 .. (NumFrames + 1), AllocateFrames(n)
      PROVE  FrameUnits!Grant(n)
  <2>1. n \in 1 .. freeFrames
    BY <1>0, <1>3 DEF AllocateFrames
  <2>2. \A i, j \in 1 .. n : freeList[i] = freeList[j] => i = j
    BY <1>0, <2>1 DEF IsInjective
  <2>3. /\ \A i \in 1 .. n : freeList[i] \in FirstFrames(n)
        /\ \A x \in FirstFrames(n) : \E i \in 1 .. n : freeList[i] = x
    BY DEF FirstFrames
  <2>4. Cardinality(FirstFrames(n)) = n
    BY <2>1, <2>2, <2>3, Counted
  <2>5. \A i \in 1 .. n : freeList[i] \in Range(freeList)
    BY <1>0, <2>1 DEF Range
  <2>6. FirstFrames(n) \in SUBSET (Frames \ framesHeld)
    BY <1>0, <2>3, <2>5
  <2> QED
    BY <1>3, <2>4, <2>6, SameCount DEF AllocateFrames, CallForFrames, FrameUnits!Grant, FrameUnits!Call
<1>4. ASSUME NEW n \in 0 .. (NumFrames + 1), RefuseFrames(n)
      PROVE  FrameUnits!Refuse(n)
  <2>1. n > freeFrames
    BY <1>0, <1>4 DEF RefuseFrames
  <2> QED
    BY <1>2, <1>4, <2>1, SameCount DEF RefuseFrames, CallForFrames, FrameUnits!Refuse, FrameUnits!Call
<1>5. ASSUME NEW f \in framesHeld, FreeFrame(f)
      PROVE  FrameUnits!Release(f)
  BY <1>5 DEF FreeFrame, CallForFrames, FrameUnits!Release, FrameUnits!Call
<1>6. CASE AllocateFrames(0)
  <2>1. framesHeld' = framesHeld \cup {} /\ framesAsked' = 0 /\ framesParity' = 1 - framesParity
    BY <1>6, NoneTaken DEF Sound
  <2>2. Cardinality({}) = 0
    BY FS_EmptySet
  <2>3. FrameUnits!Grant(0)
    BY <2>1, <2>2, SameCount DEF FrameUnits!Grant, FrameUnits!Call
  <2> QED
    BY <1>1, <2>3, SameCount DEF FrameUnits!UANext
<1>7. \A n \in 0 .. (NumFrames + 1) : n = 0 \/ n \in 1 .. (NumFrames + 1)
  OBVIOUS
<1>8. \A n \in 0 .. (NumFrames + 1) : n \in 0 .. (Cardinality(Frames) + 1)
  BY <1>1
<1> QED
  BY <1>3, <1>4, <1>5, <1>6, <1>7, <1>8, SameCount DEF NextFrame, FrameUnits!UANext

\* VMAllocator and PMTAllocator refuse frames only when too few are free, and
\* never hand out a frame that is in use.
THEOREM FramesImplemented == Spec => ImplementsFrames
<1>1. Init => FrameUnits!UAInit
  BY DEF Init, FrameUnits!UAInit
<1>2. ASSUME Sound, [Next]_vars
      PROVE  [FrameUnits!UANext]_<<framesHeld, framesAsked, framesParity>>
  <2>1. CASE NextFrame
    BY <1>2, <2>1, FrameCallAllowed
  <2>2. CASE NextCluster
    BY <2>2 DEF NextCluster, AllocateNewCluster, AllocateUsedCluster, RefuseCluster,
                FreeCluster, frameVars
  <2>3. CASE UNCHANGED vars
    BY <2>3 DEF vars, frameVars
  <2> QED
    BY <1>2, <2>1, <2>2, <2>3 DEF Next
<1>3. Spec => []Sound
  BY SoundAllocators, PTL DEF Sound
<1> QED
  BY <1>1, <1>2, <1>3, PTL DEF Spec, ImplementsFrames, FrameUnits!UASpec

\* A cluster that is handed out is free, whichever way it comes.
LEMMA ClusterCallAllowed ==
  ASSUME Sound, NextCluster
  PROVE  ClusterUnits!UANext
<1> USE SizesAssumption
<1>0. /\ clusterStack \in Seq(Clusters)
      /\ clusterAllocCounter \in 0 .. NumClusters
      /\ Range(clusterStack) = (0 .. (clusterAllocCounter - 1)) \ clustersHeld
      /\ clustersHeld \subseteq 0 .. (clusterAllocCounter - 1)
  BY DEF Sound, TypeOK, StackSound
<1>1. 1 \in 0 .. (Cardinality(Clusters) + 1)
  BY ClustersCounted
<1>2. ASSUME NEW c \in Clusters \ clustersHeld, clustersHeld' = clustersHeld \cup {c},
             CallForClusters(1)
      PROVE  ClusterUnits!UANext
  <2>1. Cardinality({c}) = 1 /\ {c} \in SUBSET (Clusters \ clustersHeld)
    BY FS_Singleton
  <2>2. ClusterUnits!Grant(1)
    BY <1>2, <2>1, SameCount DEF ClusterUnits!Grant, ClusterUnits!Call, CallForClusters
  <2> QED
    BY <1>1, <2>2, SameCount DEF ClusterUnits!UANext
<1>3. CASE AllocateNewCluster
  <2>1. clusterAllocCounter \in Clusters \ clustersHeld
    BY <1>0, <1>3 DEF AllocateNewCluster, NotUsedYet, Clusters
  <2> QED
    BY <1>2, <1>3, <2>1 DEF AllocateNewCluster
<1>4. CASE AllocateUsedCluster
  <2>1. 1 \in DOMAIN clusterStack /\ Head(clusterStack) = clusterStack[1]
    BY <1>0, <1>4 DEF AllocateUsedCluster
  <2>2. Head(clusterStack) \in Range(clusterStack) /\ Head(clusterStack) \in Clusters
    BY <1>0, <2>1 DEF Range
  <2>3. Head(clusterStack) \in Clusters \ clustersHeld
    BY <1>0, <2>2
  <2> QED
    BY <1>2, <1>4, <2>3 DEF AllocateUsedCluster
<1>5. CASE RefuseCluster
  <2>1. Range(clusterStack) = {}
    BY <1>5 DEF RefuseCluster, Range
  <2>2. clusterAllocCounter = NumClusters
    BY <1>0, <1>5 DEF RefuseCluster, NotUsedYet
  <2>3. Clusters \ clustersHeld = {}
    BY <1>0, <2>1, <2>2 DEF Clusters
  <2>4. Cardinality(Clusters \ clustersHeld) = 0
    BY <2>3, FS_EmptySet
  <2>5. ClusterUnits!Refuse(1)
    BY <1>5, <2>4, SameCount DEF RefuseCluster, CallForClusters, ClusterUnits!Refuse, ClusterUnits!Call
  <2> QED
    BY <1>1, <2>5, SameCount DEF ClusterUnits!UANext
<1>6. ASSUME NEW c \in clustersHeld, FreeCluster(c)
      PROVE  ClusterUnits!UANext
  BY <1>6, SameCount DEF FreeCluster, CallForClusters, ClusterUnits!UANext, ClusterUnits!Release,
              ClusterUnits!Call
<1> QED
  BY <1>3, <1>4, <1>5, <1>6 DEF NextCluster

\* ClusterAllocator refuses a cluster only when every one is in use, and never
\* hands out one that is.
THEOREM ClustersImplemented == Spec => ImplementsClusters
<1>1. Init => ClusterUnits!UAInit
  BY DEF Init, ClusterUnits!UAInit
<1>2. ASSUME Sound, [Next]_vars
      PROVE  [ClusterUnits!UANext]_<<clustersHeld, clustersAsked, clustersParity>>
  <2>1. CASE NextCluster
    BY <1>2, <2>1, ClusterCallAllowed
  <2>2. CASE NextFrame
    BY <2>2 DEF NextFrame, AllocateFrames, RefuseFrames, FreeFrame, clusterVars
  <2>3. CASE UNCHANGED vars
    BY <2>3 DEF vars, clusterVars
  <2> QED
    BY <1>2, <2>1, <2>2, <2>3 DEF Next
<1>3. Spec => []Sound
  BY SoundAllocators, PTL DEF Sound
<1> QED
  BY <1>1, <1>2, <1>3, PTL DEF Spec, ImplementsClusters, ClusterUnits!UASpec

===========================================================================
