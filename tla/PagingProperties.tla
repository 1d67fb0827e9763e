------------------------- MODULE PagingProperties -------------------------
(***************************************************************************)
(* What is true of Paging: how the entries, the descriptors, the two       *)
(* allocators and the contents of memory and disk belong together, and     *)
(* that a process sees its own memory (AddressSpaces).                     *)
(***************************************************************************)
EXTENDS Paging

CONSTANT Unmapped  \* the abstract content of a page outside the segments

ASSUME UnmappedAssumption == Unmapped \notin Values /\ NoSlot \notin Slot \X Values

---------------------------------------------------------------------------
(* Accounting.                                                             *)

\* A frame that is not free holds the page of the descriptor that
\* vmDescriptors names for it, and a descriptor that says it is in memory is
\* the one named for its frame: no frame is lost, freed while it is in use or
\* shared by two pages (loadFrameInVM, removeProcessFromFrameOwners).
FrameAccounting ==
  /\ \A f \in Frames \ vmFree :
       LET d == vmDescriptors[f]
       IN  d # NoFD /\ fd[d].vmValid /\ fd[d].vmFrameNum = f
  /\ \A d \in FDs : fd[d].vmValid =>
       /\ fd[d].vmFrameNum \notin vmFree
       /\ vmDescriptors[fd[d].vmFrameNum] = d

\* The same of clusters: a page on disk finds its descriptor again through
\* clusterDescriptors, and a cluster that is not free is some page's.
ClusterAccounting ==
  /\ \A d \in FDs : fd[d].diskValid =>
       /\ fd[d].diskFrameNum \in Clusters \ clusterFree
       /\ clusterDescriptors[fd[d].diskFrameNum] = d
  /\ \A c \in Clusters \ clusterFree :
       \E d \in FDs : fd[d].diskValid /\ fd[d].diskFrameNum = c

\* Every owner's entry says of the page what its descriptor says: the state
\* is kept twice and updated by walking the list of owners.
AgreesWith(e, d) ==
  /\ e.vmValid = fd[d].vmValid
  /\ e.vmValid => e.vmFrameNum = fd[d].vmFrameNum
  /\ e.diskValid = fd[d].diskValid
  /\ e.diskValid => e.diskFrameNum = fd[d].diskFrameNum

EntriesAgree == \A d \in FDs : \A s \in fd[d].owners : AgreesWith(pte[s], d)

\* A page of a segment has one descriptor, and frameDescFromPMT2Desc finds it
\* from the page's entry; only a shared page that a full partition dropped is
\* not found any more.
Dropped(d) == fd[d].sharedBit /\ ~fd[d].vmValid /\ ~fd[d].diskValid

DescriptorFound ==
  \A s \in Slot : segment[s] # NoSegment =>
    \E d \in FDs : /\ \A c \in FDs : s \in fd[c].owners <=> c = d
                  /\ \/ FrameDescOf(pte[s]) = d
                     \/ pte[s].diskFrameNum = NoCluster /\ Dropped(d)

\* A page that no process owns any more is given back (framemanager.cpp:148,
\* kernelprocess.cpp:464), unless it is a shared segment's.  While a copy is made
\* its rollback may still need the page; once the operation is over nobody does.
OwnerlessPagesFreed ==
  Idle => \A d \in FDs : fd[d].owners = {} /\ ~fd[d].sharedBit =>
            ~fd[d].vmValid /\ ~fd[d].diskValid

\* A page that says it is in memory is in a frame that was allocated to it,
\* after a load that failed too (framemanager.cpp:88, "rollback").
MappedFramesAllocated ==
  \A s \in Slot : segment[s] # NoSegment /\ pte[s].vmValid =>
    pte[s].vmFrameNum \notin vmFree

\* The clock gives a second chance: a page that was accessed since the hand
\* passed it is evicted only when all were, and then it is not the page that
\* the last eviction made room for.
SecondChance ==
  [][\A f \in vmFree' \ vmFree :
       vmFree = {} /\ segment' = segment /\ GetReferenceBit(vmDescriptors[f]) =>
         /\ \A g \in Frames : GetReferenceBit(vmDescriptors[g])
         /\ NumFrames > 1 => clockHand # NextHand(f)]_vars

\* The invariant from which the four of accounting are proved, for partitions
\* that can be read.  An entry e that names the page of descriptor d agrees
\* with it, and until the page has a cluster e points to d itself, or, when it
\* was attached to a shared page in memory, to nothing.
Located(e, d) ==
  /\ AgreesWith(e, d)
  /\ ~e.diskValid => \/ e.diskFrameNum = d
                     \/ e.diskFrameNum = NoCluster /\ fd[d].sharedBit

OwnersLocated == \A d \in FDs : \A s \in fd[d].owners : Located(pte[s], d)

\* Every page of a segment has one descriptor, and no other page has any.
OneDescriptor ==
  \A s \in Slot :
    /\ segment[s] # NoSegment <=> \E d \in FDs : s \in fd[d].owners
    /\ \A c, d \in FDs : s \in fd[c].owners /\ s \in fd[d].owners => c = d

\* While pageFault makes a copy, the copy's descriptor is nowhere, and as long
\* as the load can fail the backup still tells where the original is.
CopyNowhere ==
  op.phase \in {"cowload", "rollback"} =>
    /\ op.parent \in FDs /\ op.child \in FDs /\ op.parent # op.child
    /\ fd[op.child].owners = {op.slot}
    /\ ~fd[op.child].vmValid /\ ~fd[op.child].diskValid

CopyPending ==
  /\ CopyNowhere
  /\ op.phase \in {"cowload", "rollback"} =>
       /\ ~fd[op.child].sharedBit
       /\ op.phase = "rollback" \/ vmFree = {} => Located(op.backup, op.parent)

NoStrayCluster == \A d \in FDs : ~fd[d].diskValid => fd[d].diskFrameNum = NoCluster

\* A shared segment's name stands for a descriptor of its own.
SharedKnown ==
  \A x \in SharedNames : sharedFD[x] # NoFD =>
    /\ fd[sharedFD[x]].sharedBit
    /\ \A y \in SharedNames : sharedFD[y] = sharedFD[x] => y = x

OnSegment == op.phase # "idle" => segment[op.slot] # NoSegment

Places == /\ FrameAccounting /\ ClusterAccounting /\ NoStrayCluster
          /\ OwnersLocated /\ OneDescriptor

\* A failed read takes the faulting page off the owners of its descriptor,
\* whose entry says ever after that it is in memory.
OwnersOrStranded ==
  \A s \in Slot :
    /\ \A d \in FDs : s \in fd[d].owners => segment[s] # NoSegment
    /\ \A c, d \in FDs : s \in fd[c].owners /\ s \in fd[d].owners => c = d
    /\ segment[s] # NoSegment =>
         pte[s].vmValid \/ \E d \in FDs : s \in fd[d].owners

\* The invariant from which accounting is proved for partitions that cannot
\* always be read, as long as the owners' entries agree with their pages: in
\* each state where they do, the next one is accounted for.
AccountsKept == /\ TypeOK /\ FrameAccounting /\ ClusterAccounting
                /\ NoStrayCluster /\ OwnersOrStranded /\ OnSegment
                /\ CopyNowhere

\* A page of a segment whose descriptor lost it as an owner.
Stranded(s) == segment[s] # NoSegment /\ \A d \in FDs : s \notin fd[d].owners

\* A clone takes over the entry of its parent's stranded page.
ClonesStranded ==
  \E p, q \in Procs :
    /\ CloneProcess(p, q)
    /\ \E v \in VPages : Stranded(<<p, v>>) /\ segment[<<p, v>>].name = Private

\* Owners' entries go wrong in two ways only, when a read failed before: a clone
\* takes over the entry of a stranded page, or the rollback of a copy
\* (kernelprocess.cpp:212) brings one back.
OnlySharingMisleads ==
  [][OwnersLocated /\ ~OwnersLocated' =>
       \/ ClonesStranded
       \/ CowRollback /\ ~Located(op.backup, op.parent)]_vars

\* A stranded page gets new owners: it is cloned, or copied, after which its
\* old entry may come back.
SharesStranded == ClonesStranded \/ (CowDetach /\ Stranded(op.slot))

\* The invariant from which accounting is proved, whatever reads fail, as long
\* as no stranded page is shared.
AccountsLocated == AccountsKept /\ OwnersLocated /\ SharedKnown /\ CopyPending

Bookkeeping == TypeOK /\ Places /\ SharedKnown /\ OnSegment /\ CopyPending

---------------------------------------------------------------------------
(* Copy on write.                                                          *)

\* A page that two processes share since a clone cannot be written by any of
\* them before it was copied.
CowIsolation ==
  \A d \in FDs : ~fd[d].sharedBit /\ Cardinality(fd[d].owners) > 1 =>
    \A s \in fd[d].owners : ~pte[s].write

\* Copy on write never gives or takes a right: a page is writable, now or
\* after a copy, exactly when its segment is.
RightsKept ==
  \A s \in Slot : segment[s] # NoSegment =>
    /\ (pte[s].write \/ pte[s].copyOnWrite) = CanBeWritten(segment[s].flags)
    /\ ~(pte[s].write /\ pte[s].copyOnWrite)

---------------------------------------------------------------------------
(* Content.                                                                *)

\* A page of memory that none of its owners marks dirty is the same on disk:
\* evicting it without a write loses nothing.
Clean(d) ==
  fd[d].vmValid /\ fd[d].diskValid /\ ~GetDirty(d) =>
    mem[fd[d].vmFrameNum] = disk[fd[d].diskFrameNum]

CleanMeansSaved == \A d \in FDs : ~fd[d].sharedBit /\ fd[d].owners # {} => Clean(d)

\* The same of the pages of shared segments, which FrameDescriptor::getDirty
\* answers for: "has anyone written to the frame" (pmt.cpp:63).
SharedDirtyTracked == \A d \in FDs : fd[d].sharedBit => Clean(d)

\* A page in memory or on disk, and the buffer of a copy, hold what processes
\* have stored or zeroes, never a free frame's link to the next (VMAllocator's
\* list, pageFault's memcpy).
PagesHoldData ==
  /\ \A d \in FDs :
       /\ fd[d].vmValid => mem[fd[d].vmFrameNum] \in Values
       /\ fd[d].diskValid => disk[fd[d].diskFrameNum] \in Values
  /\ op.phase \in {"cowload", "cowcopy", "rollback"} => op.buffer \in Values

\* The content of the private page at s: while its copy is made it is in the
\* buffer.
IsPrivate(s) == segment[s] # NoSegment /\ segment[s].name = Private

Content(s) ==
  LET e == pte[s]
  IN  IF ~IsPrivate(s) THEN Unmapped
      ELSE IF op.phase \in {"cowload", "cowcopy", "rollback"} /\ op.slot = s
        THEN op.buffer
      ELSE IF e.vmValid THEN mem[e.vmFrameNum]
      ELSE IF e.diskValid THEN disk[e.diskFrameNum]
      ELSE Zero

\* The store that a process has requested of a private page, or the content that
\* its page is being loaded with.
Storing ==
  IF op.phase # "idle" /\ IsPrivate(op.slot)
     /\ (IsWrite(op.type) \/ op.phase \in {"load", "fill", "unload"})
    THEN <<op.slot, op.value>> ELSE NoSlot

Memory == INSTANCE AddressSpaces
            WITH content <- [s \in Slot |-> Content(s)], store <- Storing,
                 NoStore <- NoSlot

\* Paging implements private memory: whatever is evicted, loaded, copied and
\* shared between clones, a page changes only by its own process's stores, except
\* in a step that met a failed or full partition.  What such a step may lose is
\* not restricted further than to one content for all that it changes.
ImplementsAddressSpaces == Memory!ASSpec

---------------------------------------------------------------------------
(* The invariant from which copy on write, rights, contents and the result *)
(* of page faults are proved, again for partitions that can be read.       *)

\* The pages of private segments have private descriptors, and only they.
KindsKept ==
  \A d \in FDs : \A s \in fd[d].owners :
    fd[d].sharedBit <=> segment[s].name # Private

\* Entry e has the rights of a segment with these flags, the right to write
\* possibly after a copy.
Entitled(e, flags) ==
  /\ e.read = CanBeRead(flags)
  /\ e.execute = CanBeExecuted(flags)
  /\ (e.write \/ e.copyOnWrite) = CanBeWritten(flags)
  /\ ~(e.write /\ e.copyOnWrite)

SegmentsEntitle ==
  \A s \in Slot : segment[s] # NoSegment => Entitled(pte[s], segment[s].flags)

\* Processes that share a page since a clone cannot write to it, and know
\* alike whether it is dirty; a page of a shared segment is never copied.
SharersAlike ==
  \A d \in FDs : \A s \in fd[d].owners :
    IF fd[d].sharedBit THEN ~pte[s].copyOnWrite
    ELSE \A t \in fd[d].owners :
           s # t => ~pte[s].write /\ pte[s].dirty = pte[t].dirty

\* What the step that is about to run relies on.
StepPrepared ==
  LET e == pte[op.slot]
      InFrame == e.vmValid /\ op.frame = e.vmFrameNum
  IN  /\ op.phase = "fault" => op.type \in Accesses
      /\ op.phase = "detach" => InFrame /\ ShouldHandleCOW(e, op.type)
      /\ op.phase \in {"cowload", "cowcopy", "rollback"} =>
           e.write /\ op.type = "WRITE"
      /\ op.phase = "cowcopy" => InFrame /\ ~e.diskValid
      /\ op.phase = "retry" => Granted(op.slot, op.type)
      /\ op.phase = "touch" => /\ e.vmValid
                               /\ IsWrite(op.type) => e.write /\ e.dirty
      /\ op.phase = "fill" => InFrame
      /\ op.phase \in {"load", "fill", "unload"} =>
           /\ segment[op.slot].name = Private
           /\ \A d \in FDs :
                op.slot \in fd[d].owners => fd[d].owners = {op.slot}

\* While pageFault makes a copy, the backup has the rights of the segment and
\* tells whether other owners are left; as long as the load can fail it and
\* the buffer agree with the page that is left.
BackupUsable ==
  LET d == op.parent
      b == op.backup
  IN  op.phase \in {"cowload", "rollback"} =>
        /\ ~fd[d].sharedBit
        /\ Entitled(b, segment[op.slot].flags) /\ ~b.write
        /\ ~op.wasShared => fd[d].owners = {}
        /\ op.phase = "rollback" \/ vmFree = {} =>
             /\ b.vmValid
             /\ op.buffer = mem[b.vmFrameNum]
             /\ \A t \in fd[d].owners : pte[t].dirty = b.dirty
             /\ b.diskValid /\ ~b.dirty => op.buffer = disk[b.diskFrameNum]

Copying == /\ KindsKept /\ SegmentsEntitle /\ SharersAlike
           /\ CleanMeansSaved /\ StepPrepared /\ BackupUsable

---------------------------------------------------------------------------
(* Page faults.                                                            *)

\* What SystemTest asserts (SystemTest.cpp:31, :50, :65): after pageFault
\* returned OK the access is granted, and a granted access has an address.
InstructionCompletes ==
  /\ In("retry") => Granted(op.slot, op.type)
  /\ In("touch") => pte[op.slot].vmValid

\* pageFault refuses an access that the segment's rights allow only when the
\* partition failed or is full.
FaultResolved ==
  [][op.phase = "fault" /\ op'.phase = "idle" =>
       \/ failing'
       \/ ~IsAccessAllowed(FreshPTE(segment[op.slot].flags, NoFD), op.type)]_vars

===========================================================================
