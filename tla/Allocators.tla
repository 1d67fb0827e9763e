---------------------------- MODULE Allocators ----------------------------
(***************************************************************************)
(* The allocators.  VMAllocator and PMTAllocator keep their free frames in *)
(* a list that is linked through the frames, and count them beside it      *)
(* (PMTAllocator can also be asked for several frames, or for none).       *)
(* ClusterAllocator counts up to the number of clusters, and uses released *)
(* clusters, kept on a stack, only after that.                             *)
(*                                                                         *)
(* Each call holds its allocator's mutex.  The callers release what they   *)
(* hold and nothing else: neither allocator checks it.                     *)
(***************************************************************************)
EXTENDS Naturals, FiniteSets, Sequences, SequencesExt

CONSTANTS NumFrames, NumClusters

ASSUME SizesAssumption == NumFrames \in Nat \ {0} /\ NumClusters \in Nat

Frames   == 0 .. (NumFrames - 1)
Clusters == 0 .. (NumClusters - 1)

VARIABLES
  freeList,             \* the list at framesHead
  freeFrames,           \* its length, counted separately
  framesHeld,           \* frames in use
  framesAsked,          \* frames the last call asked for, 0 for a release too
  framesParity,         \* of the number of calls
  clusterAllocCounter,
  clusterStack,
  clustersHeld,
  clustersAsked,
  clustersParity

frameVars   == <<freeList, freeFrames, framesHeld, framesAsked, framesParity>>
clusterVars == <<clusterAllocCounter, clusterStack, clustersHeld,
                 clustersAsked, clustersParity>>
vars        == <<frameVars, clusterVars>>

TypeOK ==
  /\ freeList \in Seq(Frames)
  /\ freeFrames \in 0 .. NumFrames
  /\ framesHeld \subseteq Frames
  /\ framesAsked \in 0 .. (NumFrames + 1)
  /\ framesParity \in {0, 1}
  /\ clusterAllocCounter \in 0 .. NumClusters
  /\ clusterStack \in Seq(Clusters)
  /\ clustersHeld \subseteq Clusters
  /\ clustersAsked \in {0, 1}
  /\ clustersParity \in {0, 1}

Init ==
  /\ freeList = [i \in 1 .. NumFrames |-> i - 1]
  /\ freeFrames = NumFrames
  /\ framesHeld = {}
  /\ framesAsked = 0
  /\ framesParity = 0
  /\ clusterAllocCounter = 0
  /\ clusterStack = <<>>
  /\ clustersHeld = {}
  /\ clustersAsked = 0
  /\ clustersParity = 0

---------------------------------------------------------------------------
(* Frames.                                                                 *)

CallForFrames(n) == framesAsked' = n /\ framesParity' = 1 - framesParity

FirstFrames(n) == {freeList[i] : i \in 1 .. n}

\* The list once n frames are taken off its head, and a mutant that leaves the
\* last of them on it.
RemainingOneMore(n) == IF n = 0 THEN freeList ELSE SubSeq(freeList, n, Len(freeList))
Remaining(n)        == SubSeq(freeList, n + 1, Len(freeList))

\* allocateFrame for one frame, PMTAllocator::allocateFrames for any number: for
\* none it succeeds, whatever is left.
AllocateFrames(n) ==
  /\ n = 0 \/ freeList # <<>>
  /\ n <= freeFrames
  /\ freeList' = Remaining(n)
  /\ freeFrames' = freeFrames - n
  /\ framesHeld' = framesHeld \cup FirstFrames(n)
  /\ CallForFrames(n)
  /\ UNCHANGED clusterVars

RefuseFrames(n) ==
  /\ n # 0
  /\ freeList = <<>> \/ n > freeFrames
  /\ CallForFrames(n)
  /\ UNCHANGED <<freeList, freeFrames, framesHeld, clusterVars>>

CountKept    == freeFrames
CountOneMore == freeFrames + 1

FreeFrame(f) ==
  /\ freeList' = <<f>> \o freeList
  /\ freeFrames' = CountOneMore
  /\ framesHeld' = framesHeld \ {f}
  /\ CallForFrames(0)
  /\ UNCHANGED clusterVars

---------------------------------------------------------------------------
(* Clusters.                                                               *)

CallForClusters(n) == clustersAsked' = n /\ clustersParity' = 1 - clustersParity

NotUsedYetOrEnd == clusterAllocCounter <= NumClusters
NotUsedYet      == clusterAllocCounter < NumClusters

AllocateNewCluster ==
  /\ NotUsedYet
  /\ clusterAllocCounter' = clusterAllocCounter + 1
  /\ clustersHeld' = clustersHeld \cup {clusterAllocCounter}
  /\ CallForClusters(1)
  /\ UNCHANGED <<clusterStack, frameVars>>

PoppedAtBack == Front(clusterStack)
Popped       == Tail(clusterStack)

AllocateUsedCluster ==
  /\ ~NotUsedYet
  /\ clusterStack # <<>>
  /\ clusterStack' = Popped
  /\ clustersHeld' = clustersHeld \cup {Head(clusterStack)}
  /\ CallForClusters(1)
  /\ UNCHANGED <<clusterAllocCounter, frameVars>>

RefuseCluster ==
  /\ ~NotUsedYet
  /\ clusterStack = <<>>
  /\ CallForClusters(1)
  /\ UNCHANGED <<clusterAllocCounter, clusterStack, clustersHeld, frameVars>>

NotPushed(c) == clusterStack
Pushed(c)    == <<c>> \o clusterStack

FreeCluster(c) ==
  /\ c \in Clusters
  /\ clusterStack' = Pushed(c)
  /\ clustersHeld' = clustersHeld \ {c}
  /\ CallForClusters(0)
  /\ UNCHANGED <<clusterAllocCounter, frameVars>>

---------------------------------------------------------------------------
NextFrame ==
  \/ \E n \in 0 .. (NumFrames + 1) : AllocateFrames(n) \/ RefuseFrames(n)
  \/ \E f \in framesHeld : FreeFrame(f)

NextCluster ==
  \/ AllocateNewCluster \/ AllocateUsedCluster \/ RefuseCluster
  \/ \E c \in clustersHeld : FreeCluster(c)

Next == NextFrame \/ NextCluster

Spec == Init /\ [][Next]_vars

---------------------------------------------------------------------------
(* Properties.                                                             *)

\* The list holds the frames that are not in use, each once, and freeFrames,
\* which allocateFrames trusts when it takes several, is its length.
FreeListSound ==
  /\ IsInjective(freeList)
  /\ Range(freeList) = Frames \ framesHeld
  /\ freeFrames = Len(freeList)

\* A cluster below the counter is in use or on the stack once, and none above
\* it is either.
StackSound ==
  /\ IsInjective(clusterStack)
  /\ Range(clusterStack) = (0 .. (clusterAllocCounter - 1)) \ clustersHeld
  /\ clustersHeld \subseteq 0 .. (clusterAllocCounter - 1)

\* The frame manager's view of both: a set of units, from which a request is
\* refused only when too few are left, and never given what another holds.
FrameUnits   == INSTANCE UnitAllocator
                  WITH Units <- Frames, held <- framesHeld,
                       asked <- framesAsked, parity <- framesParity
ClusterUnits == INSTANCE UnitAllocator
                  WITH Units <- Clusters, held <- clustersHeld,
                       asked <- clustersAsked, parity <- clustersParity

\* VMAllocator and PMTAllocator implement an allocator of a set of frames.
ImplementsFrames == FrameUnits!UASpec

\* ClusterAllocator implements an allocator of a set of clusters.
ImplementsClusters == ClusterUnits!UASpec

===========================================================================
