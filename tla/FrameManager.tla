--------------------------- MODULE FrameManager ---------------------------
(***************************************************************************)
(* The frame manager (framemanager.cpp) with the frame descriptors it      *)
(* keeps (pmt.cpp), the page table entries those descriptors update, the   *)
(* frames of VM memory and the clusters of the partition.                  *)
(*                                                                         *)
(* A slot <<p, v>> stands for one PMT2Descriptor: the entry of virtual     *)
(* page v in the page table of process p.  The two free lists are sets:    *)
(* which free frame or cluster an allocator hands out is left open.        *)
(*                                                                         *)
(* framesMutex makes loadFrameInVM and removeProcessFromFrameOwners        *)
(* atomic.  An eviction is split in two actions, Evict and Place; the      *)
(* module that composes them holds the lock from the one to the other.     *)
(***************************************************************************)
EXTENDS Naturals, FiniteSets

CONSTANTS
  Procs,         \* process ids
  VPages,        \* virtual pages of a process
  NumFrames,     \* frames of VM memory (VMAllocator::sizeInFrames)
  Clusters,      \* clusters of the partition
  FDs,           \* heap addresses that `new FrameDescriptor' can return
  Values,        \* what a page can hold
  Zero,          \* the content of a page that was never written
  Link,          \* a free frame: it holds VMAllocator's free list link
  NoFD,          \* the null FrameDescriptor pointer
  NoCluster,     \* UINT32_MAX where a cluster number is expected
  WriteMayFail,  \* may Partition::writeCluster return 0?
  ReadMayFail    \* may Partition::readCluster return 0?

ASSUME FramesAssumption == NumFrames \in Nat \ {0}
ASSUME FinitenessAssumption == IsFiniteSet(Procs) /\ IsFiniteSet(VPages)
ASSUME ValuesAssumption == Zero \in Values /\ Link \notin Values
ASSUME PointersAssumption ==
  /\ NoFD \notin FDs
  /\ NoCluster \notin Clusters \cup FDs
  /\ Clusters \cap FDs = {}
ASSUME FailuresAssumption == WriteMayFail \in BOOLEAN /\ ReadMayFail \in BOOLEAN

VARIABLES
  pte,                 \* PMT2Descriptor of every slot
  fd,                  \* FrameDescriptor at every heap address
  vmFree,              \* VMAllocator's free frames
  vmDescriptors,       \* frame -> descriptor of the page it holds
  clusterFree,         \* ClusterAllocator's free clusters
  clusterDescriptors,  \* cluster -> descriptor of the page saved there
  clockHand,           \* where the clock looks next
  mem,                 \* content of every frame
  disk,                \* content of every cluster
  failing              \* did the last step meet a failed Partition call or
                       \* a full partition?  (observed, never read)

fmVars == <<pte, fd, vmFree, vmDescriptors, clusterFree, clusterDescriptors,
            clockHand, mem, disk, failing>>

Slot   == Procs \X VPages
Frames == 0 .. (NumFrames - 1)

\* PMT2Descriptor.  diskFrameNum is a cluster number once diskValid is set and
\* holds a pointer to the page's frame descriptor until then.
PTE == [vmValid : BOOLEAN, diskValid : BOOLEAN, dirty : BOOLEAN,
        referenceBit : BOOLEAN, read : BOOLEAN, write : BOOLEAN,
        execute : BOOLEAN, copyOnWrite : BOOLEAN,
        vmFrameNum : Frames, diskFrameNum : Clusters \cup FDs \cup {NoCluster}]

\* FrameDescriptor.  owners is the list pmt2Head.
FD == {d \in [owners : SUBSET Slot, vmValid : BOOLEAN, vmFrameNum : Frames,
               diskValid : BOOLEAN, diskFrameNum : Clusters \cup {NoCluster},
               sharedBit : BOOLEAN] :
         d.diskValid => d.diskFrameNum \in Clusters}

\* An entry that no segment uses.  The fields a deletion leaves behind are not
\* kept: allocateEmptySegment rewrites all of them before they are read again.
BlankPTE == [vmValid |-> FALSE, diskValid |-> FALSE, dirty |-> FALSE,
             referenceBit |-> FALSE, read |-> FALSE, write |-> FALSE,
             execute |-> FALSE, copyOnWrite |-> FALSE,
             vmFrameNum |-> 0, diskFrameNum |-> NoCluster]

\* What the constructor builds, and what a descriptor is once it has been
\* released: the heap has no free list of its own here.
BlankFD == [owners |-> {}, vmValid |-> FALSE, vmFrameNum |-> 0,
            diskValid |-> FALSE, diskFrameNum |-> NoCluster,
            sharedBit |-> FALSE]

FMTypeOK ==
  /\ pte \in [Slot -> PTE]
  /\ fd \in [FDs -> FD]
  /\ vmFree \in SUBSET Frames
  /\ vmDescriptors \in [Frames -> FDs \cup {NoFD}]
  /\ clusterFree \in SUBSET Clusters
  /\ clusterDescriptors \in [Clusters -> FDs \cup {NoFD}]
  /\ clockHand \in Frames
  /\ mem \in [Frames -> Values \cup {Link}]
  /\ disk \in [Clusters -> Values \cup {Link}]
  /\ failing \in BOOLEAN

FMInit ==
  /\ pte = [s \in Slot |-> BlankPTE]
  /\ fd = [d \in FDs |-> BlankFD]
  /\ vmFree = Frames
  /\ vmDescriptors = [f \in Frames |-> NoFD]
  /\ clusterFree = Clusters
  /\ clusterDescriptors = [c \in Clusters |-> NoFD]
  /\ clockHand = 0
  /\ mem = [f \in Frames |-> Link]
  /\ disk = [c \in Clusters |-> Zero]
  /\ failing = FALSE

---------------------------------------------------------------------------
(* Frame descriptors.                                                      *)

\* frameDescFromPMT2Desc.  A diskFrameNum that is neither a cluster nor a
\* pointer, when one of them is wanted, is as good as a null pointer.
FrameDescOf(e) ==
  IF e.vmValid THEN vmDescriptors[e.vmFrameNum]
  ELSE IF e.diskValid /\ e.diskFrameNum \in Clusters
    THEN clusterDescriptors[e.diskFrameNum]
  ELSE IF ~e.diskValid /\ e.diskFrameNum \in FDs THEN e.diskFrameNum
  ELSE NoFD

GetDirty(d)        == \E s \in fd[d].owners : pte[s].dirty
GetReferenceBit(d) == \E s \in fd[d].owners : pte[s].referenceBit

SetCopyOnWriteNever(e) == e
SetCopyOnWrite(e) ==
  IF e.write THEN [e EXCEPT !.write = FALSE, !.copyOnWrite = TRUE] ELSE e

ResetCopyOnWriteHalf(e) ==
  IF e.copyOnWrite THEN [e EXCEPT !.write = TRUE] ELSE e
ResetCopyOnWrite(e) ==
  IF e.copyOnWrite THEN [e EXCEPT !.write = TRUE, !.copyOnWrite = FALSE] ELSE e

\* An address that no pointer of the program holds any more.
Unused(d) ==
  /\ fd[d] = BlankFD
  /\ \A f \in Frames : vmDescriptors[f] # d
  /\ \A c \in Clusters : clusterDescriptors[c] # d
HeapHasRoom == \E d \in FDs : Unused(d)
NewFD       == CHOOSE d \in FDs : Unused(d)

---------------------------------------------------------------------------
(* The clock: the hand clears the reference bits of the frames it passes   *)
(* and stops at the first frame without one, its start if all had one.     *)

FindFrameUnderHand(victim, passed) == victim = clockHand /\ passed = {}
FindFrameToFlush(victim, passed) ==
  LET Ahead(k)      == (clockHand + k) % NumFrames
      Referenced(f) == GetReferenceBit(vmDescriptors[f])
  IN  \/ \E k \in Frames :
           /\ victim = Ahead(k)
           /\ ~Referenced(victim)
           /\ passed = {Ahead(j) : j \in 0 .. (k - 1)}
           /\ \A f \in passed : Referenced(f)
      \/ /\ \A f \in Frames : Referenced(f)
         /\ victim = clockHand
         /\ passed = Frames

NextHandOverrun(victim) == victim + 1
NextHand(victim)        == (victim + 1) % NumFrames

NoReference(e) == [e EXCEPT !.referenceBit = FALSE]

\* The page table once the reference bits of the frames in passed are reset.
SweptPTE(passed) ==
  [s \in Slot |-> IF \E f \in passed : s \in fd[vmDescriptors[f]].owners
                    THEN NoReference(pte[s]) ELSE pte[s]]

\* The victim's descriptor d leaves its frame.  newCluster is the cluster it
\* was given now (NoCluster: none), clean tells whether dirty is reset.
PageOut(d, victim, passed, newCluster, clean) ==
  LET Out(e) == [e EXCEPT
        !.vmValid = FALSE, !.vmFrameNum = 0,
        !.diskValid = @ \/ newCluster # NoCluster,
        !.diskFrameNum = IF newCluster # NoCluster THEN newCluster ELSE @,
        !.dirty = @ /\ ~clean]
  IN  /\ pte' = [s \in Slot |-> IF s \in fd[d].owners
                                  THEN Out(SweptPTE(passed)[s])
                                  ELSE SweptPTE(passed)[s]]
      /\ fd' = [fd EXCEPT ![d].vmValid = FALSE, ![d].vmFrameNum = 0,
                  ![d].diskValid = @ \/ newCluster # NoCluster,
                  ![d].diskFrameNum = IF newCluster # NoCluster
                                        THEN newCluster ELSE @]
      /\ vmFree' = vmFree \cup {victim}
      /\ vmDescriptors' = [vmDescriptors EXCEPT ![victim] = NoFD]
      /\ mem' = [mem EXCEPT ![victim] = Link]
      /\ clockHand' = NextHand(victim)

---------------------------------------------------------------------------
(* flushFrame and the first half of loadFrameInVM, by what becomes of the  *)
(* victim's content.                                                       *)

\* What the clusters hold once the victim is written to c, and how a page that
\* is on disk finds its descriptor.
Written(c, victim) == [disk EXCEPT ![c] = mem[victim]]
FiledNowhere(c, d) == clusterDescriptors
Filed(c, d)        == [clusterDescriptors EXCEPT ![c] = d]

\* The victim had no cluster: one is allocated and written.
SaveToNewCluster(d, victim, passed) ==
  /\ ~fd[d].diskValid
  /\ \E c \in clusterFree :
       /\ clusterFree' = clusterFree \ {c}
       /\ disk' = Written(c, victim)
       /\ clusterDescriptors' = Filed(c, d)
       /\ PageOut(d, victim, passed, c, FALSE)
  /\ failing' = FALSE

\* The partition is full: flushFrame reports success all the same, and the
\* page leaves memory without having been written anywhere.  The descriptor
\* is then stored at clusterDescriptors[UINT32_MAX], outside the array.
DropUnsaved(d, victim, passed) ==
  /\ ~fd[d].diskValid
  /\ clusterFree = {}
  /\ PageOut(d, victim, passed, NoCluster, FALSE)
  /\ failing' = TRUE
  /\ UNCHANGED <<clusterFree, clusterDescriptors, disk>>

\* The victim's cluster is up to date, or is brought up to date, or could not
\* be written, in which case the page is dropped dirty.
SaveToOwnCluster(d, victim, passed) ==
  LET c == fd[d].diskFrameNum
  IN  /\ fd[d].diskValid
      /\ \/ /\ ~GetDirty(d)
            /\ PageOut(d, victim, passed, NoCluster, FALSE)
            /\ failing' = FALSE
            /\ UNCHANGED disk
         \/ /\ GetDirty(d)
            /\ disk' = Written(c, victim)
            /\ PageOut(d, victim, passed, NoCluster, TRUE)
            /\ failing' = FALSE
         \/ /\ GetDirty(d)
            /\ WriteMayFail
            /\ PageOut(d, victim, passed, NoCluster, FALSE)
            /\ failing' = TRUE
            /\ UNCHANGED disk
      /\ clusterDescriptors' = Filed(c, d)
      /\ UNCHANGED clusterFree

\* No frame is free: the clock's victim leaves memory.
Evict ==
  /\ vmFree = {}
  /\ \E victim \in Frames, passed \in SUBSET Frames :
       /\ FindFrameToFlush(victim, passed)
       /\ LET d == vmDescriptors[victim]
          IN  \/ SaveToNewCluster(d, victim, passed)
              \/ DropUnsaved(d, victim, passed)
              \/ SaveToOwnCluster(d, victim, passed)

\* The store at clusterDescriptors[UINT32_MAX] may also end the program.
EvictMayCrash ==
  /\ vmFree = {}
  /\ clusterFree = {}
  /\ \E victim \in Frames, passed \in SUBSET Frames :
       /\ FindFrameToFlush(victim, passed)
       /\ ~fd[vmDescriptors[victim]].diskValid

\* The write to the victim's new cluster fails: the cluster is given back,
\* the victim stays, and loadFrameInVM returns null.
EvictFails ==
  /\ vmFree = {}
  /\ WriteMayFail
  /\ clusterFree # {}
  /\ \E victim \in Frames, passed \in SUBSET Frames :
       /\ FindFrameToFlush(victim, passed)
       /\ ~fd[vmDescriptors[victim]].diskValid
       /\ pte' = SweptPTE(passed)
       /\ clockHand' = NextHand(victim)
  /\ failing' = TRUE
  /\ UNCHANGED <<fd, vmFree, vmDescriptors, clusterFree, clusterDescriptors,
                 mem, disk>>

---------------------------------------------------------------------------
(* The second half of loadFrameInVM, for the entry of slot s.              *)

\* An owner's entry once the page is in frame f; fresh: it has no cluster.
Arrived(e, f, fresh) ==
  [e EXCEPT !.vmValid = TRUE, !.vmFrameNum = f, !.dirty = @ \/ fresh]

\* What the page's cluster holds, or what the allocator leaves in the frame.
FetchedUnzeroed(d) == IF fd[d].diskValid THEN disk[fd[d].diskFrameNum] ELSE Link
Fetched(d)         == IF fd[d].diskValid THEN disk[fd[d].diskFrameNum] ELSE Zero

\* A free frame takes the page: from its cluster, or zeroed by the allocator.
Place(s) ==
  LET d == FrameDescOf(pte[s])
  IN  /\ d # NoFD
      /\ \E f \in vmFree :
           /\ vmFree' = vmFree \ {f}
           /\ vmDescriptors' = [vmDescriptors EXCEPT ![f] = d]
           /\ fd' = [fd EXCEPT ![d].vmValid = TRUE, ![d].vmFrameNum = f]
           /\ pte' = [t \in Slot |->
                IF t \in fd[d].owners
                  THEN Arrived(pte[t], f, ~fd[d].diskValid) ELSE pte[t]]
           /\ mem' = [mem EXCEPT ![f] = Fetched(d)]
      /\ failing' = FALSE
      /\ UNCHANGED <<clusterFree, clusterDescriptors, clockHand, disk>>

\* The entry of t after the load of d's page into f failed for the entry of s,
\* which was taken off the owners before their bits are reset.
RolledBackNowhere(t, s, d, f) ==
  IF t \notin fd[d].owners THEN pte[t]
  ELSE [pte[t] EXCEPT !.vmValid = TRUE, !.vmFrameNum = f]
RolledBack(t, s, d, f) ==
  IF t \notin fd[d].owners THEN pte[t]
  ELSE IF t = s THEN [pte[t] EXCEPT !.vmValid = TRUE, !.vmFrameNum = f]
  ELSE [pte[t] EXCEPT !.vmValid = FALSE, !.vmFrameNum = 0]

PlaceFailsValid(s) ==
  LET d == FrameDescOf(pte[s])
  IN  /\ ReadMayFail
      /\ d # NoFD
      /\ fd[d].diskValid
      /\ \E f \in vmFree :
           /\ vmDescriptors' = [vmDescriptors EXCEPT ![f] = NoFD]
           /\ pte' = [t \in Slot |-> RolledBack(t, s, d, f)]
      /\ fd' = [fd EXCEPT ![d].owners = @ \ {s}, ![d].vmValid = TRUE,
                          ![d].vmFrameNum = 0]
      /\ failing' = TRUE
      /\ UNCHANGED <<vmFree, clusterFree, clusterDescriptors, clockHand, mem,
                     disk>>

\* readCluster fails.  The frame is given back, but the faulting entry
\* keeps vmValid and the frame number, and its page loses it as an owner.
PlaceFails(s) ==
  LET d == FrameDescOf(pte[s])
  IN  /\ ReadMayFail
      /\ d # NoFD
      /\ fd[d].diskValid
      /\ \E f \in vmFree :
           /\ vmDescriptors' = [vmDescriptors EXCEPT ![f] = NoFD]
           /\ pte' = [t \in Slot |-> RolledBack(t, s, d, f)]
      /\ fd' = [fd EXCEPT ![d].owners = @ \ {s}, ![d].vmValid = FALSE,
                          ![d].vmFrameNum = 0]
      /\ clusterDescriptors' = IF pte[s].diskValid THEN Filed(pte[s].diskFrameNum, d)
                               ELSE clusterDescriptors
      /\ failing' = TRUE
      /\ UNCHANGED <<vmFree, clusterFree, clockHand, mem, disk>>

---------------------------------------------------------------------------
(* Taking slots away from descriptors.                                     *)

FrameKept(d)    == vmFree
FreedFrame(d)   == IF fd[d].vmValid THEN vmFree \cup {fd[d].vmFrameNum} ELSE vmFree
ClusterKept(d)  == clusterFree
FreedCluster(d) == IF fd[d].diskValid THEN clusterFree \cup {fd[d].diskFrameNum}
                   ELSE clusterFree

\* d, which has no owners, gives back its frame and its cluster
\* (removeProcessFromFrameOwners), and is no longer used.  What a free cluster
\* holds is not kept: it is written before it is read again.
ReleaseFD(d) ==
  /\ fd' = [fd EXCEPT ![d] = BlankFD]
  /\ vmFree' = FreedFrame(d)
  /\ mem' = IF fd[d].vmValid THEN [mem EXCEPT ![fd[d].vmFrameNum] = Link] ELSE mem
  /\ clusterFree' = FreedCluster(d)
  /\ disk' = IF fd[d].diskValid THEN [disk EXCEPT ![fd[d].diskFrameNum] = Zero]
             ELSE disk
  /\ failing' = FALSE
  /\ UNCHANGED <<vmDescriptors, clusterDescriptors, clockHand>>

\* s leaves the owners of d, which a page that is not shared does not survive
\* when s was the last one.
RemoveOwner(s, d) ==
  LET rest == fd[d].owners \ {s}
  IN  /\ pte' = [pte EXCEPT ![s] = BlankPTE]
      /\ \/ /\ rest = {} /\ ~fd[d].sharedBit
            /\ ReleaseFD(d)
         \/ /\ rest # {} \/ fd[d].sharedBit
            /\ fd' = [fd EXCEPT ![d].owners = rest]
            /\ failing' = FALSE
            /\ UNCHANGED <<vmFree, vmDescriptors, clusterFree,
                           clusterDescriptors, clockHand, mem, disk>>

===========================================================================
