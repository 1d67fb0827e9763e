------------------------------ MODULE Paging ------------------------------
(***************************************************************************)
(* Processes that use paged memory: segments, page faults, copy on write   *)
(* and cloning (kernelprocess.cpp) over the frame manager, driven as the   *)
(* public test drives them (SystemTest.cpp): access, on failure pageFault, *)
(* then the access once more and the load or store itself.                 *)
(*                                                                         *)
(* One operation runs at a time in the whole system, as it does under the  *)
(* test's mutex; op is that operation, cut into a step for every load, for *)
(* every failure and for every change between two loads.  Segments have    *)
(* one page, so that the loops over pages make one turn.  Page table       *)
(* frames are never short.  Destroying a process deletes its segments one  *)
(* by one, after which its id can be used again.                           *)
(***************************************************************************)
EXTENDS FrameManager

CONSTANTS
  SharedNames,  \* names of shared segments
  Flags,        \* access rights that segments are created with
  Accesses,     \* access types that processes request
  Images,       \* contents that segments are loaded with
  NoSlot,       \* what an operation works on when none is running
  NoSegment,    \* the segment of a page that no segment holds
  Private       \* in the place of a shared segment's name

AccessTypes == {"READ", "WRITE", "READ_WRITE", "EXECUTE"}

ASSUME SlotsAssumption == NoSlot \notin Slot
ASSUME AccessAssumption == Flags \subseteq AccessTypes /\ Accesses \subseteq AccessTypes
ASSUME ImagesAssumption == Images \subseteq Values
ASSUME SegmentAssumption ==
  /\ NoSegment \notin [flags : Flags, name : SharedNames \cup {Private}]
  /\ Private \notin SharedNames

VARIABLES
  segment,   \* slot -> the segment that holds the page
  sharedFD,  \* name -> descriptor of the shared segment's page
  op,        \* the operation that is running, with its locals
  crashed    \* a null descriptor was used, or an assertion failed

vars == <<fmVars, segment, sharedFD, op, crashed>>

Segments == [flags : Flags, name : SharedNames \cup {Private}]

Phases == {"idle", "fault", "detach", "cowload", "cowcopy", "rollback",
           "retry", "touch", "load", "fill", "unload"}

\* The operation works on a slot; type and value are what it accesses or loads.
\* frame is the frame a load returned; buffer, parent, child, backup and
\* wasShared are locals of pageFault.
Ops == [phase : Phases, slot : Slot \cup {NoSlot}, type : AccessTypes, value : Values,
        frame : Frames, buffer : Values \cup {Link}, parent : FDs \cup {NoFD},
        child : FDs \cup {NoFD}, backup : PTE, wasShared : BOOLEAN]

IdleOp == [phase |-> "idle", slot |-> NoSlot,
           type |-> "READ", value |-> Zero, frame |-> 0, buffer |-> Zero,
           parent |-> NoFD, child |-> NoFD, backup |-> BlankPTE,
           wasShared |-> FALSE]

PagingTypeOK ==
  /\ segment \in [Slot -> Segments \cup {NoSegment}]
  /\ sharedFD \in [SharedNames -> FDs \cup {NoFD}]
  /\ op \in Ops
  /\ op.phase # "idle" => op.slot \in Slot
  /\ crashed \in BOOLEAN

TypeOK == FMTypeOK /\ PagingTypeOK

Init ==
  /\ FMInit
  /\ segment = [s \in Slot |-> NoSegment]
  /\ sharedFD = [x \in SharedNames |-> NoFD]
  /\ op = IdleOp
  /\ crashed = FALSE

---------------------------------------------------------------------------
(* Rights.                                                                 *)

CanBeRead(flags)     == flags \in {"READ", "READ_WRITE"}
CanBeWritten(flags)  == flags \in {"WRITE", "READ_WRITE"}
CanBeExecuted(flags) == flags = "EXECUTE"

IsWrite(type) == type \in {"WRITE", "READ_WRITE"}

IsAccessAllowed(e, type) ==
  CASE type = "READ"       -> e.read
    [] type = "WRITE"      -> e.write
    [] type = "READ_WRITE" -> e.read /\ e.write
    [] type = "EXECUTE"    -> e.execute

ShouldNeverHandleCOW(e, type) == e.write /\ e.copyOnWrite /\ type = "WRITE"
ShouldHandleCOW(e, type) == ~e.write /\ e.copyOnWrite /\ type = "WRITE"

---------------------------------------------------------------------------
(* The operation's progress.                                               *)

Idle      == ~crashed /\ op.phase = "idle"
In(phase) == ~crashed /\ op.phase = phase

Finish   == op' = IdleOp
Goto(to) == op' = [op EXCEPT !.phase = to]
Crash    == crashed' = TRUE /\ UNCHANGED <<fmVars, segment, sharedFD, op>>

---------------------------------------------------------------------------
(* Loads and stores.                                                       *)

\* The page table entry once an access was granted.
AccessedClean(e, type) == [e EXCEPT !.referenceBit = TRUE]
Accessed(e, type) ==
  [e EXCEPT !.dirty = @ \/ IsWrite(type), !.referenceBit = TRUE]

Granted(s, type) == pte[s].vmValid /\ IsAccessAllowed(pte[s], type)

\* The first access of an instruction.  An access outside the segments
\* changes nothing and is left out.
Access(s, type, w) ==
  /\ Idle
  /\ segment[s] # NoSegment
  /\ ~IsWrite(type) => w = Zero
  /\ pte' = IF Granted(s, type) THEN [pte EXCEPT ![s] = Accessed(@, type)]
            ELSE pte
  /\ op' = [op EXCEPT !.slot = s, !.type = type, !.value = w,
                      !.phase = IF Granted(s, type) THEN "touch" ELSE "fault"]
  /\ failing' = FALSE
  /\ UNCHANGED <<fd, vmFree, vmDescriptors, clusterFree, clusterDescriptors,
                 clockHand, mem, disk, segment, sharedFD, crashed>>

\* The access after a page fault.  The test asserts that it is granted.
Retry ==
  /\ In("retry")
  /\ Granted(op.slot, op.type)
  /\ pte' = [pte EXCEPT ![op.slot] = Accessed(@, op.type)]
  /\ Goto("touch")
  /\ failing' = FALSE
  /\ UNCHANGED <<fd, vmFree, vmDescriptors, clusterFree, clusterDescriptors,
                 clockHand, mem, disk, segment, sharedFD, crashed>>

\* The load or store, at the address getPhysicalAddress returns.
Touch ==
  LET f == pte[op.slot].vmFrameNum
  IN  /\ In("touch")
      /\ pte[op.slot].vmValid
      /\ IsWrite(op.type) => f \notin vmFree
      /\ mem' = IF IsWrite(op.type) THEN [mem EXCEPT ![f] = op.value] ELSE mem
      /\ Finish
      /\ failing' = FALSE
      /\ UNCHANGED <<pte, fd, vmFree, vmDescriptors, clusterFree,
                     clusterDescriptors, clockHand, disk, segment, sharedFD,
                     crashed>>

\* A store into a free frame overwrites VMAllocator's free list: what the
\* program does afterwards is not modelled.
TouchFree ==
  /\ In("touch")
  /\ pte[op.slot].vmValid
  /\ IsWrite(op.type) /\ pte[op.slot].vmFrameNum \in vmFree
  /\ Crash

---------------------------------------------------------------------------
(* loadFrameInVM, called for the faulting page ("fault"), for the private  *)
(* copy of a page ("cowload") and for a segment's content ("load").        *)

Loading == ~crashed /\ op.phase \in {"fault", "cowload", "load"}
Absent  == Loading /\ ~pte[op.slot].vmValid

\* What the operation does next: e is the page's entry once it is loaded.
AfterLoadUnchecked(e) ==
  CASE op.phase = "cowload" -> "cowcopy"
    [] op.phase = "load"    -> "fill"
    [] op.phase = "fault"   -> "retry"
AfterLoad(e) ==
  CASE op.phase = "cowload" -> "cowcopy"
    [] op.phase = "load"    -> "fill"
    [] op.phase = "fault"   ->
         IF IsAccessAllowed(e, op.type) THEN "retry"
         ELSE IF ShouldHandleCOW(e, op.type) THEN "detach" ELSE "idle"

Loaded(e) ==
  op' = IF AfterLoad(e) = "idle" THEN IdleOp
        ELSE [op EXCEPT !.phase = AfterLoad(e), !.frame = e.vmFrameNum]

NotLoaded ==
  \/ op.phase = "fault" /\ Finish
  \/ op.phase = "cowload" /\ Goto("rollback")
  \/ op.phase = "load" /\ Goto("unload")

LoadResident ==
  /\ Loading
  /\ pte[op.slot].vmValid
  /\ Loaded(pte[op.slot])
  /\ failing' = FALSE
  /\ UNCHANGED <<pte, fd, vmFree, vmDescriptors, clusterFree,
                 clusterDescriptors, clockHand, mem, disk, segment, sharedFD,
                 crashed>>

LoadEvict ==
  /\ Absent
  /\ Evict
  /\ UNCHANGED <<segment, sharedFD, op, crashed>>

LoadEvictFails ==
  /\ Absent
  /\ EvictFails
  /\ NotLoaded
  /\ UNCHANGED <<segment, sharedFD, crashed>>

LoadPlace ==
  /\ Absent
  /\ Place(op.slot)
  /\ Loaded(pte'[op.slot])
  /\ UNCHANGED <<segment, sharedFD, crashed>>

LoadPlaceFails ==
  /\ Absent
  /\ PlaceFails(op.slot)
  /\ NotLoaded
  /\ UNCHANGED <<segment, sharedFD, crashed>>

LoadEvictCrashes ==
  /\ Absent
  /\ EvictMayCrash
  /\ Crash

\* The page has no descriptor: loadFrameInVM dereferences a null pointer.
LoadNull ==
  /\ Absent
  /\ vmFree # {}
  /\ FrameDescOf(pte[op.slot]) = NoFD
  /\ Crash

---------------------------------------------------------------------------
(* Copy on write.                                                          *)

\* Is t the one owner left?
SomeOwner(rest, t) == t \in rest
SoleOwner(rest, t) == rest = {t}

\* The page's content goes to a buffer and its entry to a new descriptor.
CowDetach ==
  LET s == op.slot
      parent == FrameDescOf(pte[s])
      rest == fd[parent].owners \ {s}
      child == NewFD
  IN  /\ In("detach")
      /\ HeapHasRoom
      /\ parent # NoFD  \* else DetachNull
      /\ fd' = [fd EXCEPT ![parent].owners = rest,
                          ![child] = [BlankFD EXCEPT !.owners = {s}]]
      /\ pte' = [t \in Slot |->
           IF t = s
             THEN [ResetCopyOnWrite(pte[s]) EXCEPT
                     !.vmValid = FALSE, !.vmFrameNum = 0,
                     !.diskValid = FALSE, !.diskFrameNum = child]
             ELSE IF SoleOwner(rest, t) THEN ResetCopyOnWrite(pte[t])
             ELSE pte[t]]
      /\ op' = [op EXCEPT
                  !.phase = "cowload", !.buffer = mem[op.frame],
                  !.parent = parent, !.child = child, !.backup = pte[s],
                  !.wasShared = Cardinality(fd[parent].owners) > 1]
      /\ failing' = FALSE
      /\ UNCHANGED <<vmFree, vmDescriptors, clusterFree, clusterDescriptors,
                     clockHand, mem, disk, segment, sharedFD, crashed>>

DetachNull ==
  /\ In("detach")
  /\ FrameDescOf(pte[op.slot]) = NoFD
  /\ Crash

CowCopy ==
  /\ In("cowcopy")
  /\ mem' = [mem EXCEPT ![op.frame] = op.buffer]
  /\ op' = [op EXCEPT
              !.phase = "retry", !.buffer = Zero, !.parent = NoFD,
              !.child = NoFD, !.backup = BlankPTE, !.wasShared = FALSE]
  /\ failing' = FALSE
  /\ UNCHANGED <<pte, fd, vmFree, vmDescriptors, clusterFree,
                 clusterDescriptors, clockHand, disk, segment, sharedFD,
                 crashed>>

\* No frame for the copy: the entry returns to the descriptor it had.
CowRollback ==
  LET s == op.slot
      d == op.parent
      owners == fd[d].owners \cup {s}
      restored == [pte EXCEPT ![s] = op.backup]
  IN  /\ In("rollback")
      /\ fd' = [fd EXCEPT ![op.child] = BlankFD, ![d].owners = owners]
      /\ pte' = [t \in Slot |->
           IF op.wasShared /\ t \in owners
             THEN SetCopyOnWrite(restored[t]) ELSE restored[t]]
      /\ Finish
      /\ failing' = FALSE
      /\ UNCHANGED <<vmFree, vmDescriptors, clusterFree, clusterDescriptors,
                     clockHand, mem, disk, segment, sharedFD, crashed>>

---------------------------------------------------------------------------
(* Segments.                                                               *)

\* The entry of a page of a new segment, whose descriptor is d.
FreshPTE(flags, d) ==
  [BlankPTE EXCEPT !.read = CanBeRead(flags), !.write = CanBeWritten(flags),
                   !.execute = CanBeExecuted(flags), !.diskFrameNum = d]

AllocateNewSegment(s, flags) ==
  LET d == NewFD
  IN  /\ HeapHasRoom
      /\ segment[s] = NoSegment
      /\ segment' = [segment EXCEPT ![s] = [flags |-> flags, name |-> Private]]
      /\ pte' = [pte EXCEPT ![s] = FreshPTE(flags, d)]
      /\ fd' = [fd EXCEPT ![d] = [BlankFD EXCEPT !.owners = {s}]]
      /\ failing' = FALSE
      /\ UNCHANGED <<vmFree, vmDescriptors, clusterFree, clusterDescriptors,
                     clockHand, mem, disk, sharedFD, crashed>>

CreateSegment(s, flags) ==
  /\ Idle
  /\ AllocateNewSegment(s, flags)
  /\ UNCHANGED op

\* Its page is loaded and filled by the steps that follow.
LoadSegment(s, flags, w) ==
  /\ Idle
  /\ AllocateNewSegment(s, flags)
  /\ op' = [op EXCEPT !.slot = s, !.value = w, !.phase = "load"]

Fill ==
  /\ In("fill")
  /\ pte' = [pte EXCEPT ![op.slot].dirty = TRUE]
  /\ mem' = [mem EXCEPT ![op.frame] = op.value]
  /\ Finish
  /\ failing' = FALSE
  /\ UNCHANGED <<fd, vmFree, vmDescriptors, clusterFree, clusterDescriptors,
                 clockHand, disk, segment, sharedFD, crashed>>

\* The segment at s goes, and with it s as an owner of its page; a page
\* without a descriptor is a null pointer used.
DeleteSegmentImpl(s) ==
  LET d == FrameDescOf(pte[s])
  IN  /\ d # NoFD
      /\ RemoveOwner(s, d)
      /\ segment' = [segment EXCEPT ![s] = NoSegment]
      /\ UNCHANGED <<sharedFD, crashed>>

\* A private segment is deleted, or a shared one disconnected; so does a
\* createSegment or loadSegment that finds a private segment in its place.
DeleteSegment(s) ==
  /\ Idle
  /\ segment[s] # NoSegment
  /\ DeleteSegmentImpl(s)
  /\ UNCHANGED op

DeleteNull(s) ==
  /\ Idle
  /\ segment[s] # NoSegment
  /\ FrameDescOf(pte[s]) = NoFD
  /\ Crash

\* The content could not be loaded: the new segment is deleted again.
Unload ==
  /\ In("unload")
  /\ DeleteSegmentImpl(op.slot)
  /\ Finish

---------------------------------------------------------------------------
(* Shared segments.                                                        *)

\* The entry of a page attached to the shared descriptor d.
AttachedAbsent(flags, d) ==
  [FreshPTE(flags, d) EXCEPT
     !.diskValid = fd[d].diskValid,
     !.diskFrameNum = IF fd[d].vmValid \/ fd[d].diskValid
                        THEN fd[d].diskFrameNum ELSE d,
     !.dirty = GetDirty(d), !.referenceBit = GetReferenceBit(d)]
AttachedUnsaved(flags, d) ==
  [FreshPTE(flags, d) EXCEPT
     !.vmValid = fd[d].vmValid, !.vmFrameNum = fd[d].vmFrameNum,
     !.diskFrameNum = IF fd[d].vmValid THEN fd[d].diskFrameNum ELSE d,
     !.dirty = GetDirty(d), !.referenceBit = GetReferenceBit(d)]
AttachedPTE(flags, d) ==
  [FreshPTE(flags, d) EXCEPT
     !.vmValid = fd[d].vmValid, !.vmFrameNum = fd[d].vmFrameNum,
     !.diskValid = fd[d].diskValid,
     !.diskFrameNum = IF fd[d].vmValid \/ fd[d].diskValid
                        THEN fd[d].diskFrameNum ELSE d,
     !.dirty = GetDirty(d), !.referenceBit = GetReferenceBit(d)]

\* The first process to attach a name creates the segment.  A second attach of
\* one name, with the addresses the maps then hold, is followed in Segments.
CreateSharedSegment(s, x, flags) ==
  LET new == sharedFD[x] = NoFD
      d == IF new THEN NewFD ELSE sharedFD[x]
  IN  /\ Idle
      /\ segment[s] = NoSegment
      /\ new => HeapHasRoom
      /\ sharedFD' = [sharedFD EXCEPT ![x] = d]
      /\ segment' = [segment EXCEPT ![s] = [flags |-> flags, name |-> x]]
      /\ pte' = [pte EXCEPT ![s] = AttachedPTE(flags, d)]
      /\ fd' = [fd EXCEPT ![d].owners = @ \cup {s}, ![d].sharedBit = TRUE]
      /\ failing' = FALSE
      /\ UNCHANGED <<vmFree, vmDescriptors, clusterFree, clusterDescriptors,
                     clockHand, mem, disk, op, crashed>>

\* Called when no process is attached.
DeleteSharedSegment(x) ==
  LET d == sharedFD[x]
  IN  /\ Idle
      /\ d # NoFD
      /\ fd[d].owners = {}
      /\ ReleaseFD(d)
      /\ sharedFD' = [sharedFD EXCEPT ![x] = NoFD]
      /\ UNCHANGED <<pte, segment, op, crashed>>

---------------------------------------------------------------------------
(* Cloning.                                                                *)

\* The clone's entry of a page whose descriptor is d and whose parent has
\* entry e.
ClonedClean(flags, e, d) ==
  [FreshPTE(flags, d) EXCEPT
     !.vmValid = fd[d].vmValid, !.vmFrameNum = e.vmFrameNum,
     !.diskValid = fd[d].diskValid, !.diskFrameNum = e.diskFrameNum,
     !.referenceBit = GetReferenceBit(d), !.copyOnWrite = e.copyOnWrite]
ClonedPTE(flags, e, d) ==
  [FreshPTE(flags, d) EXCEPT
     !.vmValid = fd[d].vmValid, !.vmFrameNum = e.vmFrameNum,
     !.diskValid = fd[d].diskValid, !.diskFrameNum = e.diskFrameNum,
     !.dirty = GetDirty(d), !.referenceBit = GetReferenceBit(d),
     !.copyOnWrite = e.copyOnWrite]

\* Process q starts as a clone of p: it becomes an owner of p's private pages,
\* marked for copy on write, and attaches p's shared segments.
CloneProcess(p, q) ==
  LET From(t)    == <<p, t[2]>>
      Inherits(t) == t[1] = q /\ segment[From(t)] # NoSegment
      Shares(t)  == segment[From(t)].name # Private
      Page(t)    == IF Shares(t) THEN sharedFD[segment[From(t)].name]
                    ELSE FrameDescOf(pte[From(t)])
      Entry(t)   == IF Shares(t)
                      THEN AttachedPTE(segment[From(t)].flags, Page(t))
                      ELSE ClonedPTE(segment[From(t)].flags, pte[From(t)], Page(t))
      New(d)     == {t \in Slot : Inherits(t) /\ Page(t) = d}
      Marked(t)  == \E d \in FDs : /\ ~fd[d].sharedBit
                                   /\ New(d) # {}
                                   /\ t \in fd[d].owners \cup New(d)
                                   /\ Cardinality(fd[d].owners \cup New(d)) > 1
      Copied(t)  == IF Inherits(t) THEN Entry(t) ELSE pte[t]
  IN  /\ Idle
      /\ p # q
      /\ \E v \in VPages : segment[<<p, v>>] # NoSegment
      /\ \A v \in VPages : segment[<<q, v>>] = NoSegment
      /\ \A t \in Slot : Inherits(t) => Page(t) # NoFD
      /\ segment' = [t \in Slot |-> IF t[1] = q THEN segment[From(t)]
                                    ELSE segment[t]]
      /\ fd' = [d \in FDs |-> [fd[d] EXCEPT !.owners = @ \cup New(d)]]
      /\ pte' = [t \in Slot |-> IF Marked(t) THEN SetCopyOnWrite(Copied(t))
                                ELSE Copied(t)]
      /\ failing' = FALSE
      /\ UNCHANGED <<vmFree, vmDescriptors, clusterFree, clusterDescriptors,
                     clockHand, mem, disk, sharedFD, op, crashed>>

CloneNull(p, q) ==
  /\ Idle
  /\ p # q
  /\ \A v \in VPages : segment[<<q, v>>] = NoSegment
  /\ \E v \in VPages : /\ segment[<<p, v>>] # NoSegment
                        /\ segment[<<p, v>>].name = Private
                        /\ FrameDescOf(pte[<<p, v>>]) = NoFD
  /\ Crash

---------------------------------------------------------------------------
Halted == crashed /\ UNCHANGED vars

LoadFrame ==
  \/ LoadResident \/ LoadEvict \/ LoadEvictFails \/ LoadPlace
  \/ LoadPlaceFails \/ LoadEvictCrashes \/ LoadNull

CopyOnWrite == CowDetach \/ DetachNull \/ CowCopy \/ CowRollback

Next ==
  \/ \E s \in Slot :
       \/ \E type \in Accesses, w \in Values : Access(s, type, w)
       \/ \E flags \in Flags :
            \/ CreateSegment(s, flags)
            \/ \E w \in Images : LoadSegment(s, flags, w)
            \/ \E x \in SharedNames : CreateSharedSegment(s, x, flags)
       \/ DeleteSegment(s) \/ DeleteNull(s)
  \/ \E x \in SharedNames : DeleteSharedSegment(x)
  \/ \E p, q \in Procs : CloneProcess(p, q) \/ CloneNull(p, q)
  \/ Retry \/ Touch \/ TouchFree
  \/ LoadFrame
  \/ CopyOnWrite
  \/ Fill \/ Unload
  \/ Halted

Spec == Init /\ [][Next]_vars

===========================================================================
