------------------------------ MODULE Segments ------------------------------
(***************************************************************************)
(* The life of processes and of their segments: creation, cloning and      *)
(* destruction of a process (kernelsystem.cpp, process.cpp), its private   *)
(* and shared segments and its second-level page tables                    *)
(* (kernelprocess.cpp), and the manager of the shared segments             *)
(* (sharedsegment.cpp).                                                    *)
(*                                                                         *)
(* A call runs in one step as far as one mutex covers it.  A call that     *)
(* drops its mutexes half-way is cut there: createSharedSegment and        *)
(* disconnectSharedSegment after the manager has answered, a               *)
(* createSharedSegment that fails also before and within its second        *)
(* disconnect, loadSegment before the content is loaded.  The loops of     *)
(* cloneAllSegments and of ~KernelProcess hold ksMutex and the kpMutex of  *)
(* their processes, so they take one step per turn and the calls of the    *)
(* other threads come between.                                             *)
(*                                                                         *)
(* Frames and page contents are the subject of Paging: here an entry of a  *)
(* page table is allocated or not, and a shared segment is attached to     *)
(* live or to freed descriptors.                                           *)
(***************************************************************************)
EXTENDS Pages, FiniteSets, FiniteSetsExt, Functions

CONSTANTS
  NumProcs,      \* bound: processes that are ever created
  Names,         \* names of shared segments
  Addresses,     \* start addresses a caller may ask for
  Sizes,         \* sizes in pages a caller may ask for
  PMTSizes,      \* sizes of the page table memory in frames
  MaxMisuses,    \* bound: calls for the wrong name or the wrong time
  NoName         \* the empty string that operator[] inserts

ASSUME CallsAssumption ==
  /\ Addresses \subseteq 0 .. 2 ^ WordBits - 1
  /\ Sizes \subseteq Nat \ {0}
  /\ NumProcs \in Nat /\ PMTSizes \subseteq Nat
  /\ MaxMisuses \in Nat
  /\ NoName \notin Names

\* Process ids: nextId counts up, so each of them lives once.
Procs == 1 .. NumProcs

VARIABLES
  life,         \* process -> its stage
  proc,         \* process -> the maps of its KernelProcess
  call,         \* process -> the call its thread is in the middle of
  sizeInFrames, \* frames of the page table memory, chosen once
  freeFrames,   \* those of them that are free
  segmentsMap,  \* name -> size and segmentOwners of the shared segment
  job,          \* the loop that runs under ksMutex
  crashed,      \* the program touched freed memory and died of it
  spoiled,      \* history: processes whose maps a known misuse has damaged
  misuses       \* history: how many calls were such a misuse

history == <<spoiled, misuses>>
vars == <<life, proc, call, sizeInFrames, freeFrames, segmentsMap, job, crashed,
          history>>

\* "hollow" is the Process that createProcess returns when no frame is left
\* for its first-level table: its pProcess is null.
Stages == {"unborn", "live", "cloning", "destroying", "dead", "hollow"}

\* segments: start page -> Segment.  name and dangling describe the
\* descriptors its entries point to: those of the shared segment it was
\* attached to, freed or not.
Segment == [numPages : Nat \ {0}, isShared : BOOLEAN,
            name : Names \cup {NoName}, dangling : BOOLEAN]
Private(size) ==
  [numPages |-> size, isShared |-> FALSE, name |-> NoName, dangling |-> FALSE]

EmptyMap == [x \in {} |-> x]
NewProcess ==
  [segments |-> EmptyMap,
   allocated |-> {},
   pmt1 |-> [t \in TableIds |-> [pmt2Valid |-> FALSE, numValidPMT2Entries |-> 0]],
   sharedSegmentVirtualAddressMap |-> EmptyMap,
   virtualAddressSharedSegmentMap |-> EmptyMap]

Idle == [op |-> "idle"]
\* Calls that are between the manager and the maps of their process
SharedCalls == {"attach", "refused", "erase", "disconnect"}
NoJob == [op |-> "none"]

Init ==
  /\ life = [p \in Procs |-> "unborn"]
  /\ proc = [p \in Procs |-> NewProcess]
  /\ call = [p \in Procs |-> Idle]
  /\ sizeInFrames \in PMTSizes
  /\ freeFrames = sizeInFrames
  /\ segmentsMap = EmptyMap
  /\ job = NoJob
  /\ crashed = FALSE
  /\ spoiled = {}
  /\ misuses = 0

---------------------------------------------------------------------------
(* Maps of one process.  pr is the record of a process.                    *)

SpanOf(start, size) == start .. start + size - 1
SharedStarts(pr) == {s \in DOMAIN pr.segments : pr.segments[s].isShared}
PrivateStarts(pr) == DOMAIN pr.segments \ SharedStarts(pr)
Without(map, x) == Restrict(map, DOMAIN map \ {x})
With(map, x, y) == [z \in DOMAIN map \cup {x} |-> IF z = x THEN y ELSE map[z]]
Emplace(map, x, y) == IF x \in DOMAIN map THEN map ELSE With(map, x, y)

\* One probe every 2^Page1BitNum pages, up to the end of the last table.
getNumOfPMT2ToBeAllocated(pr, startPage, endPage) ==
  LET adjusted == IF page2FromPage(endPage) = 0 THEN endPage
                  ELSE pageFromPage1AndPage2(page1FromPage(endPage) + 1, 0)
      probes == {i \in startPage .. adjusted - 1 :
                   (i - startPage) % 2 ^ Page1BitNum = 0}
  IN Cardinality({i \in probes : ~pr.pmt1[page1FromPage(i)].pmt2Valid})

\* Mutant: the end is the last page, not the one after it.
NeededToLastPage(pr, address, size) ==
  getNumOfPMT2ToBeAllocated(pr, pageFromVA(address), pageFromVA(address) + size - 1)
Needed(pr, address, size) ==
  getNumOfPMT2ToBeAllocated(pr, pageFromVA(address), pageFromVA(address) + size)

allocateEmptySegmentOK(pr, address, size) ==
  /\ segmentFits(address, size)
  /\ SpanOf(pageFromVA(address), size) \cap pr.allocated = {}
  /\ Needed(pr, address, size) <= freeFrames

\* The segment and the entries of its pages; a table that was not valid
\* starts to count from zero.
Allocated(pr, start, segment) ==
  LET span == SpanOf(start, segment.numPages)
      entries(t) == Cardinality(span \cap pagesOfTable(t))
  IN [pr EXCEPT
        !.segments = With(@, start, segment),
        !.allocated = @ \cup span,
        !.pmt1 = [t \in TableIds |->
                    IF entries(t) = 0 THEN @[t]
                    ELSE [pmt2Valid |-> TRUE,
                          numValidPMT2Entries |-> entries(t) +
                            IF @[t].pmt2Valid THEN @[t].numValidPMT2Entries ELSE 0]]]

\* Mutant: an entry is taken off once for each table, not for each page.
DeletedOncePerTable(pr, start) ==
  LET span == SpanOf(start, pr.segments[start].numPages)
      left(t) == pr.pmt1[t].numValidPMT2Entries - 1
  IN [pr EXCEPT
        !.segments = Without(@, start),
        !.allocated = @ \ span,
        !.pmt1 = [t \in TableIds |->
                    IF span \cap pagesOfTable(t) = {} THEN @[t]
                    ELSE [pmt2Valid |-> left(t) # 0,
                          numValidPMT2Entries |-> left(t)]]]

\* deleteSegmentImpl.  A table whose last entry goes is no longer valid.
Deleted(pr, start) ==
  LET span == SpanOf(start, pr.segments[start].numPages)
      entries(t) == Cardinality(span \cap pagesOfTable(t))
      left(t) == pr.pmt1[t].numValidPMT2Entries - entries(t)
  IN [pr EXCEPT
        !.segments = Without(@, start),
        !.allocated = @ \ span,
        !.pmt1 = [t \in TableIds |->
                    IF entries(t) = 0 THEN @[t]
                    ELSE [pmt2Valid |-> left(t) # 0,
                          numValidPMT2Entries |-> left(t)]]]

\* The frames of the tables that an operation gives back to the allocator
Returned(old, new) ==
  Cardinality({t \in TableIds : old.pmt1[t].pmt2Valid /\ ~new.pmt1[t].pmt2Valid})

Starts(address) ==
  IF checkVirtualAddressBounds(address) /\ isVirtualAddressAligned(address)
  THEN {pageFromVA(address)} ELSE {}

PrivateAt(pr, address) == Starts(address) \cap PrivateStarts(pr)
SharedAt(pr, address) == Starts(address) \cap SharedStarts(pr)

\* Mutant: address 0 is taken for no address.
deleteSegmentPrivateNotAtZero(pr, address) ==
  IF address = 0 \/ PrivateAt(pr, address) = {} THEN pr
  ELSE Deleted(pr, pageFromVA(address))
deleteSegmentPrivate(pr, address) ==
  IF PrivateAt(pr, address) = {} THEN pr ELSE Deleted(pr, pageFromVA(address))

\* Mutants of Disconnected: the segment is not asked whether it is shared; only
\* one of the maps is cleared.
DisconnectedAny(pr, name) ==
  LET looked == [pr EXCEPT !.sharedSegmentVirtualAddressMap = Emplace(@, name, 0)]
      address == looked.sharedSegmentVirtualAddressMap[name]
  IN IF Starts(address) \cap DOMAIN pr.segments = {} THEN looked
     ELSE [Deleted(looked, pageFromVA(address)) EXCEPT
             !.virtualAddressSharedSegmentMap = Without(@, address),
             !.sharedSegmentVirtualAddressMap = Without(@, name)]
DisconnectedByName(pr, name) ==
  LET looked == [pr EXCEPT !.sharedSegmentVirtualAddressMap = Emplace(@, name, 0)]
      address == looked.sharedSegmentVirtualAddressMap[name]
  IN IF SharedAt(pr, address) = {} THEN looked
     ELSE [Deleted(looked, pageFromVA(address)) EXCEPT
             !.sharedSegmentVirtualAddressMap = Without(@, name)]

\* What disconnectSharedSegment does once the manager has said OK.  The
\* lookup with operator[] enters address 0 for a name the map does not hold,
\* and both maps lose their entries only when a segment was deleted.
Disconnected(pr, name) ==
  LET looked == [pr EXCEPT !.sharedSegmentVirtualAddressMap = Emplace(@, name, 0)]
      address == looked.sharedSegmentVirtualAddressMap[name]
  IN IF SharedAt(pr, address) = {} THEN looked
     ELSE [Deleted(looked, pageFromVA(address)) EXCEPT
             !.virtualAddressSharedSegmentMap = Without(@, address),
             !.sharedSegmentVirtualAddressMap = Without(@, name)]

\* The last words of a createSharedSegment that fails
Erased(pr, address, name) ==
  [pr EXCEPT !.sharedSegmentVirtualAddressMap = Without(@, name),
             !.virtualAddressSharedSegmentMap = Without(@, address)]

AttachedTo(pr, name) == {s \in SharedStarts(pr) : pr.segments[s].name = name}

\* The descriptors of the segments that start in S are freed.
Freed(pr, S) ==
  [pr EXCEPT !.segments =
     [s \in DOMAIN pr.segments |-> [pr.segments[s] EXCEPT !.dangling = @ \/ s \in S]]]

---------------------------------------------------------------------------
(* Steps.  Deleting a segment whose descriptors are freed touches freed    *)
(* memory: the program dies or goes on.                                    *)

Commit(p, new, taken) ==
  /\ proc' = [proc EXCEPT ![p] = new]
  /\ freeFrames' = freeFrames - taken + Returned(proc[p], new)
  /\ \/ UNCHANGED crashed
     \/ /\ \E s \in DOMAIN proc[p].segments \ DOMAIN new.segments :
             proc[p].segments[s].dangling
        /\ crashed' = TRUE

\* kpMutex of the parent is held while it is cloned.
kpMutexFree(p) == job.op \in {"clone", "rollback"} => job.parent # p
ksMutexFree == job = NoJob
Calls(p) == life[p] = "live" /\ call[p] = Idle
SetCall(p, c) == call' = [call EXCEPT ![p] = c]
Spoil(S) == spoiled' = spoiled \cup S
\* A call of a user that damages maps, up to the bound
Misuse(wrong) ==
  /\ wrong => misuses < MaxMisuses
  /\ misuses' = IF wrong THEN misuses + 1 ELSE misuses

(* Private segments.                                                       *)

AllocatePrivate(p, address, size) ==
  /\ Calls(p) /\ kpMutexFree(p)
  /\ allocateEmptySegmentOK(proc[p], address, size)
  /\ Commit(p, Allocated(proc[p], pageFromVA(address), Private(size)),
            Needed(proc[p], address, size))
  /\ UNCHANGED <<life, segmentsMap, job, history>>

CreateSegment(p, address, size) ==
  AllocatePrivate(p, address, size) /\ UNCHANGED call

\* createSegment and loadSegment answer a refusal with deleteSegmentPrivate.
RefuseSegment(p, address, size) ==
  /\ Calls(p) /\ kpMutexFree(p)
  /\ ~allocateEmptySegmentOK(proc[p], address, size)
  /\ Commit(p, deleteSegmentPrivate(proc[p], address), 0)
  /\ UNCHANGED <<life, call, segmentsMap, job, history>>

LoadSegment(p, address, size) ==
  /\ AllocatePrivate(p, address, size)
  /\ SetCall(p, [op |-> "load", address |-> address])

\* loadSegmentContent: no frame for one of the pages, or all are filled.
LoadContent(p) ==
  /\ call[p].op = "load"
  /\ SetCall(p, Idle)
  /\ UNCHANGED <<life, proc, freeFrames, segmentsMap, job, crashed, history>>

LoadFails(p) ==
  /\ call[p].op = "load" /\ kpMutexFree(p)
  /\ Commit(p, deleteSegmentPrivate(proc[p], call[p].address), 0)
  /\ SetCall(p, Idle)
  /\ UNCHANGED <<life, segmentsMap, job, history>>

DeleteSegment(p, address) ==
  /\ Calls(p) /\ kpMutexFree(p)
  /\ PrivateAt(proc[p], address) # {}
  /\ Commit(p, deleteSegmentPrivate(proc[p], address), 0)
  /\ UNCHANGED <<life, call, segmentsMap, job, history>>

(* Shared segments.                                                        *)

createSharedSegmentOK(name, size) ==
  name \in DOMAIN segmentsMap => segmentsMap[name].size = size

\* The manager adds the owner, both maps are filled; no kpMutex is held.
BeginAttach(p, address, size, name) ==
  LET owners == IF name \in DOMAIN segmentsMap THEN segmentsMap[name].owners ELSE {}
  IN /\ createSharedSegmentOK(name, size)
     /\ segmentsMap' = With(segmentsMap, name, [size |-> size, owners |-> owners \cup {p}])
     /\ proc' = [proc EXCEPT
          ![p].sharedSegmentVirtualAddressMap = Emplace(@, name, address),
          ![p].virtualAddressSharedSegmentMap = Emplace(@, address, name)]
     /\ SetCall(p, [op |-> "attach", address |-> address, size |-> size,
                    name |-> name, dangling |-> FALSE])
     /\ Spoil(IF AttachedTo(proc[p], name) = {} THEN {} ELSE {p})
     /\ UNCHANGED <<freeFrames, crashed>>

CreateSharedSegment(p, address, size, name) ==
  /\ Calls(p)
  /\ BeginAttach(p, address, size, name)
  /\ Misuse(AttachedTo(proc[p], name) # {})
  /\ UNCHANGED <<life, job>>

Attach(p) ==
  LET c == call[p] IN
  /\ c.op = "attach" /\ kpMutexFree(p)
  /\ allocateEmptySegmentOK(proc[p], c.address, c.size)
  /\ Commit(p, Allocated(proc[p], pageFromVA(c.address),
                 [numPages |-> c.size, isShared |-> TRUE,
                  name |-> c.name, dangling |-> c.dangling]),
            Needed(proc[p], c.address, c.size))
  /\ SetCall(p, Idle)
  /\ UNCHANGED <<life, segmentsMap, job, history>>

removeProcess(name, p) ==
  segmentsMap' = [segmentsMap EXCEPT ![name].owners = @ \ {p}]

\* allocateSharedSegment fails and disconnects the name before it drops
\* kpMutex.  While a process is cloned into p, the clone is rolled back.
AttachFails(p) ==
  LET c == call[p]
      pr == proc[p]
  IN /\ c.op = "attach" /\ kpMutexFree(p)
     /\ ~allocateEmptySegmentOK(pr, c.address, c.size)
     /\ \/ /\ c.name \in DOMAIN segmentsMap
           /\ removeProcess(c.name, p)
           /\ Commit(p, Disconnected(pr, c.name), 0)
        \/ /\ c.name \notin DOMAIN segmentsMap
           /\ UNCHANGED <<proc, freeFrames, segmentsMap, crashed>>
     /\ SetCall(p, [op |-> "refused", address |-> c.address, name |-> c.name])
     /\ job' = IF life[p] = "cloning"
               THEN [op |-> "rollback", parent |-> job.parent, process |-> p, isShared |-> TRUE]
               ELSE job
     /\ Spoil(IF SharedAt(pr, c.address) = {} THEN {} ELSE {p})
     /\ UNCHANGED <<life, misuses>>

\* createSharedSegment disconnects the name once more, and what the maps still
\* hold of it is erased.
DisconnectAgain(p) ==
  LET c == call[p] IN
  /\ c.op = "refused"
  /\ \/ /\ c.name \in DOMAIN segmentsMap
        /\ removeProcess(c.name, p)
        /\ SetCall(p, [op |-> "erase", address |-> c.address, name |-> c.name])
        /\ UNCHANGED proc
     \/ /\ c.name \notin DOMAIN segmentsMap
        /\ proc' = [proc EXCEPT ![p] = Erased(@, c.address, c.name)]
        /\ SetCall(p, Idle)
        /\ UNCHANGED segmentsMap
  /\ UNCHANGED <<life, freeFrames, job, crashed, history>>

EraseRefused(p) ==
  LET c == call[p] IN
  /\ c.op = "erase" /\ kpMutexFree(p)
  /\ Commit(p, Erased(Disconnected(proc[p], c.name), c.address, c.name), 0)
  /\ SetCall(p, Idle)
  /\ UNCHANGED <<life, segmentsMap, job, history>>

\* The SharedSegment was deleted after the manager had returned it.
AttachToFreed(p) ==
  /\ call[p].op = "attach" /\ call[p].dangling
  /\ crashed' = TRUE
  /\ UNCHANGED <<life, proc, call, freeFrames, segmentsMap, job, history>>

BeginDisconnect(p, name) ==
  /\ name \in DOMAIN segmentsMap
  /\ removeProcess(name, p)
  /\ SetCall(p, [op |-> "disconnect", name |-> name])
  /\ Spoil(IF AttachedTo(proc[p], name) = {} THEN {p} ELSE {})
  /\ UNCHANGED <<life, freeFrames, job, crashed>>

DisconnectSharedSegment(p, name) ==
  /\ Calls(p)
  /\ BeginDisconnect(p, name)
  /\ Misuse(AttachedTo(proc[p], name) = {})
  /\ UNCHANGED proc

\* The rollback of a clone passes the string inside the entry that is erased
\* first, so the second erase may miss.
Detach(p) ==
  LET c == call[p]
      new == Disconnected(proc[p], c.name)
  IN /\ c.op = "disconnect" /\ kpMutexFree(p)
     /\ \/ Commit(p, new, 0)
        \/ /\ job.op = "rollback" /\ job.process = p
           /\ Commit(p, [new EXCEPT !.sharedSegmentVirtualAddressMap =
                proc[p].sharedSegmentVirtualAddressMap], 0)
     /\ SetCall(p, Idle)
     /\ UNCHANGED <<life, segmentsMap, job, history>>

\* disconnectAllFromSharedSegment takes the OK of the first owner for a
\* failure: with owners left one of them goes and the call returns TRAP.
DeleteSharedSegment(p, name) ==
  LET dangles(q) == AttachedTo(proc[q], name)
      waits(q) == call[q].op \in {"attach", "disconnect"} /\ call[q].name = name
  IN /\ Calls(p) /\ name \in DOMAIN segmentsMap
     /\ \/ \E q \in segmentsMap[name].owners :
             /\ removeProcess(name, q)
             /\ Spoil({q})
             /\ Misuse(TRUE)
             /\ UNCHANGED <<proc, call>>
        \/ /\ segmentsMap[name].owners = {}
           /\ segmentsMap' = Without(segmentsMap, name)
           /\ proc' = [q \in Procs |-> Freed(proc[q], dangles(q))]
           /\ call' = [q \in Procs |->
                IF waits(q) /\ call[q].op = "attach"
                THEN [call[q] EXCEPT !.dangling = TRUE] ELSE call[q]]
           /\ Spoil({q \in Procs : dangles(q) # {} \/ waits(q)})
           /\ UNCHANGED misuses
     /\ UNCHANGED <<life, freeFrames, job, crashed>>

(* Processes.  Creation, cloning and destruction hold ksMutex.             *)

IsNextId(p) == life[p] = "unborn" /\ \A q \in 1 .. p - 1 : life[q] # "unborn"

CreateProcess(p) ==
  /\ IsNextId(p) /\ ksMutexFree
  /\ \/ /\ freeFrames > 0
        /\ freeFrames' = freeFrames - 1
        /\ life' = [life EXCEPT ![p] = "live"]
     \/ /\ freeFrames = 0
        /\ life' = [life EXCEPT ![p] = "hollow"]
        /\ UNCHANGED freeFrames
  /\ UNCHANGED <<proc, call, segmentsMap, job, crashed, history>>

\* Without a frame for the clone's first-level table cloneProcess returns
\* null and nothing has changed.
CloneProcess(parent, child) ==
  /\ life[parent] = "live" /\ IsNextId(child) /\ ksMutexFree
  /\ freeFrames > 0
  /\ freeFrames' = freeFrames - 1
  /\ life' = [life EXCEPT ![child] = "cloning"]
  /\ job' = [op |-> "clone", parent |-> parent, process |-> child,
             todo |-> DOMAIN proc[parent].segments]
  /\ UNCHANGED <<proc, call, segmentsMap, crashed, history>>

rollback(isShared) ==
  [op |-> "rollback", parent |-> job.parent, process |-> job.process, isShared |-> isShared]

\* One turn of cloneAllSegments, on a private segment of the parent ...
CloneOneSegment(s) ==
  LET child == proc[job.process]
      address == virtualAddressFromPage(s)
      size == proc[job.parent].segments[s].numPages
  IN /\ s \in PrivateStarts(proc[job.parent])
     /\ \/ /\ allocateEmptySegmentOK(child, address, size)
           /\ Commit(job.process, Allocated(child, s, Private(size)),
                     Needed(child, address, size))
           /\ job' = [job EXCEPT !.todo = @ \ {s}]
        \/ /\ ~allocateEmptySegmentOK(child, address, size)
           /\ Commit(job.process, deleteSegmentPrivate(child, address), 0)
           /\ job' = rollback(FALSE)
     /\ UNCHANGED <<life, call, segmentsMap, history>>

\* ... and on a shared one, whose name is looked up in the parent's map; the
\* end of the map is dereferenced when the name is not there.  kpMutex does not
\* cover the maps: a parent in the middle of an attach or a disconnect may be
\* changing them under the lookup.
CloneSharedSegment(s) ==
  LET parent == proc[job.parent]
      address == virtualAddressFromPage(s)
      size == parent.segments[s].numPages
      named == address \in DOMAIN parent.virtualAddressSharedSegmentMap
      name == parent.virtualAddressSharedSegmentMap[address]
  IN /\ s \in SharedStarts(parent)
     /\ UNCHANGED <<life, misuses>>
     /\ \/ /\ named
           /\ BeginAttach(job.process, address, size, name)
           /\ job' = [job EXCEPT !.todo = @ \ {s}]
        \/ /\ named
           /\ ~createSharedSegmentOK(name, size)
           /\ job' = rollback(TRUE)
           /\ UNCHANGED <<proc, call, freeFrames, segmentsMap, crashed, spoiled>>
        \/ /\ ~named \/ call[job.parent].op \in SharedCalls
           /\ crashed' = TRUE
           /\ UNCHANGED <<proc, call, freeFrames, segmentsMap, job, spoiled>>

CloneTurn ==
  /\ job.op = "clone" /\ call[job.process] = Idle
  /\ \E s \in job.todo : CloneOneSegment(s) \/ CloneSharedSegment(s)

CloneDone ==
  /\ job.op = "clone" /\ call[job.process] = Idle
  /\ job.todo = {}
  /\ life' = [life EXCEPT ![job.process] = "live"]
  /\ job' = NoJob
  /\ UNCHANGED <<proc, call, freeFrames, segmentsMap, crashed, history>>

\* delete of a Process whose calls have all returned
DestroyProcess(p) ==
  /\ Calls(p) /\ ksMutexFree
  /\ life' = [life EXCEPT ![p] = "destroying"]
  /\ job' = [op |-> "destroy", process |-> p]
  /\ UNCHANGED <<proc, call, freeFrames, segmentsMap, crashed, history>>

\* One turn of the loop of ~KernelProcess, and of the loop that rolls a clone
\* back.  The first asks the segment itself whether it is shared, the second
\* the parent's segment that could not be cloned.  A name that the map does
\* not hold is entered as the empty string; a name the manager does not hold
\* is refused, and the loop turns on.
CleanUpTurn ==
  LET p == job.process
      pr == proc[p]
  IN /\ job.op \in {"destroy", "rollback"} /\ call[p] = Idle
     /\ UNCHANGED misuses
     /\ \E s \in DOMAIN pr.segments :
          LET address == virtualAddressFromPage(s)
              isShared == IF job.op = "destroy" THEN pr.segments[s].isShared
                          ELSE job.isShared
              looked == Emplace(pr.virtualAddressSharedSegmentMap, address, NoName)
          IN \/ /\ ~isShared
                /\ Commit(p, deleteSegmentPrivate(pr, address), 0)
                /\ UNCHANGED <<life, call, segmentsMap, job, spoiled>>
             \/ /\ isShared
                /\ proc' = [proc EXCEPT ![p].virtualAddressSharedSegmentMap = looked]
                /\ \/ BeginDisconnect(p, looked[address])
                   \/ /\ looked[address] \notin DOMAIN segmentsMap
                      /\ UNCHANGED <<life, call, freeFrames, segmentsMap, job,
                                     crashed, history>>

CleanUpDone ==
  LET p == job.process IN
  /\ job.op \in {"destroy", "rollback"} /\ call[p] = Idle
  /\ DOMAIN proc[p].segments = {}
  /\ proc' = [proc EXCEPT ![p] = NewProcess]
  /\ freeFrames' = freeFrames + 1
  /\ life' = [life EXCEPT ![p] = "dead"]
  /\ job' = NoJob
  /\ UNCHANGED <<call, segmentsMap, crashed, history>>

---------------------------------------------------------------------------

Returns(p) ==
  \/ LoadContent(p) \/ LoadFails(p)
  \/ Attach(p) \/ AttachFails(p) \/ AttachToFreed(p)
  \/ DisconnectAgain(p) \/ EraseRefused(p)
  \/ Detach(p)

Job == CloneTurn \/ CloneDone \/ CleanUpTurn \/ CleanUpDone

Next ==
  /\ ~crashed
  /\ UNCHANGED sizeInFrames
  /\ \/ \E p \in Procs :
          \/ CreateProcess(p) \/ DestroyProcess(p)
          \/ Returns(p)
          \/ \E child \in Procs : CloneProcess(p, child)
          \/ \E address \in Addresses :
               \/ DeleteSegment(p, address)
               \/ \E size \in Sizes :
                    \/ CreateSegment(p, address, size)
                    \/ LoadSegment(p, address, size)
                    \/ RefuseSegment(p, address, size)
                    \/ \E name \in Names : CreateSharedSegment(p, address, size, name)
          \/ \E name \in Names :
               DisconnectSharedSegment(p, name) \/ DeleteSharedSegment(p, name)
     \/ Job

Spec == Init /\ [][Next]_vars

\* The thread of a loop or of a call goes on: the mutexes it takes inside are
\* held for one step only.
FairSpec ==
  Spec /\ WF_vars(~crashed /\ Job /\ UNCHANGED sizeInFrames)
       /\ \A p \in Procs : WF_vars(~crashed /\ Returns(p) /\ UNCHANGED sizeInFrames)

---------------------------------------------------------------------------
(* Properties.                                                             *)

\* Every variable has the shape of the member it stands for.
TypeOK ==
  /\ life \in [Procs -> Stages]
  /\ \A p \in Procs : LET pr == proc[p] IN
       /\ \A s \in DOMAIN pr.segments : s \in PageIds /\ pr.segments[s] \in Segment
       /\ pr.allocated \subseteq PageIds
       /\ pr.pmt1 \in [TableIds -> [pmt2Valid : BOOLEAN, numValidPMT2Entries : Nat]]
       /\ DOMAIN pr.sharedSegmentVirtualAddressMap \subseteq Names
       /\ \A n \in DOMAIN pr.sharedSegmentVirtualAddressMap :
            pr.sharedSegmentVirtualAddressMap[n] \in Nat
       /\ \A a \in DOMAIN pr.virtualAddressSharedSegmentMap :
            a \in Nat /\ pr.virtualAddressSharedSegmentMap[a] \in Names \cup {NoName}
       /\ call[p].op \in {"idle", "load"} \cup SharedCalls
  /\ sizeInFrames \in PMTSizes /\ freeFrames \in 0 .. sizeInFrames
  /\ DOMAIN segmentsMap \subseteq Names
  /\ \A n \in DOMAIN segmentsMap :
       segmentsMap[n].size \in Nat \ {0} /\ segmentsMap[n].owners \subseteq Procs
  /\ job.op \in {"none", "clone", "rollback", "destroy"}
  /\ crashed \in BOOLEAN
  /\ spoiled \subseteq Procs

\* A page is allocated exactly when one segment covers it: no creation, clone
\* or shared segment is laid over another, none leaves a page behind.
PagesOwned ==
  \A p \in Procs :
    LET segments == proc[p].segments
        span(s) == SpanOf(s, segments[s].numPages)
    IN /\ proc[p].allocated = UNION {span(s) : s \in DOMAIN segments}
       /\ \A s, t \in DOMAIN segments : s # t => span(s) \cap span(t) = {}

\* A second-level table is valid exactly while one of its pages is allocated,
\* and pmt1 counts them.
TablesCount ==
  \A p \in Procs, t \in TableIds :
    LET used == Cardinality(proc[p].allocated \cap pagesOfTable(t))
    IN proc[p].pmt1[t] = [pmt2Valid |-> used # 0, numValidPMT2Entries |-> used]

\* No frame of the page table memory is lost or given out twice, over failed
\* creations, clones that are rolled back and destroyed processes.
FramesConserved ==
  sizeInFrames = freeFrames
    + Cardinality({p \in Procs : life[p] \in {"live", "cloning", "destroying"}})
    + Cardinality({e \in Procs \X TableIds : proc[e[1]].pmt1[e[2]].pmt2Valid})

\* The bookkeeping of a process, of its tables and of their memory agree.
Accounted == PagesOwned /\ TablesCount /\ FramesConserved

\* A private segment of a live process goes away only in a call that names
\* its own start: attaching, disconnecting and deleting shared segments,
\* cloning it, other processes and a full page table memory leave it alone.
\* (A refused createSegment that names its start does delete it.)
NamedIn(p, s) ==
  \/ LoadFails(p) /\ Starts(call[p].address) = {s}
  \/ \E address \in Addresses :
       /\ Starts(address) = {s}
       /\ \/ DeleteSegment(p, address)
          \/ \E size \in Sizes : RefuseSegment(p, address, size)
PrivateKept ==
  [][\A p \in Procs : \A s \in PrivateStarts(proc[p]) :
       \/ s \in DOMAIN proc'[p].segments /\ proc'[p].segments[s] = proc[p].segments[s]
       \/ life[p] # "live"
       \/ NamedIn(p, s)]_vars

\* The two maps of a process, its segments and the manager tell the same
\* story.  A call in the middle of an attach or a disconnect is ahead with
\* its own name; a clone that is rolled back may keep names.
Sound(p) ==
  LET pr == proc[p]
      byName == pr.sharedSegmentVirtualAddressMap
      byAddress == pr.virtualAddressSharedSegmentMap
      between == IF call[p].op \in SharedCalls THEN {call[p].name} ELSE {}
  IN /\ \A s \in SharedStarts(pr) :
          LET name == pr.segments[s].name
              address == virtualAddressFromPage(s)
          IN /\ address \in DOMAIN byAddress /\ byAddress[address] = name
             /\ name \in DOMAIN byName /\ byName[name] = address
             /\ ~pr.segments[s].dangling
             /\ name \in DOMAIN segmentsMap
             /\ segmentsMap[name].size = pr.segments[s].numPages
             /\ p \in segmentsMap[name].owners \/ name \in between
     /\ \/ job.op = "rollback" /\ job.process = p
        \/ \A name \in DOMAIN byName \ between : AttachedTo(pr, name) # {}

\* The maps of a process come apart only through what spoiled records: it
\* attaches to a name it is attached to already, a createSharedSegment fails
\* at the start of its own shared segment, it disconnects a name it is not
\* attached to, or deleteSharedSegment is called for a name it uses or is about
\* to attach or to give up.  Those four are excused, not shown to be harmless.
SoundUnlessSpoiled ==
  \A p \in Procs : life[p] \in {"live", "cloning", "destroying"} /\ p \notin spoiled => Sound(p)

\* The loop of ~KernelProcess and the rollback of a clone end, unless the maps
\* of the process are spoiled, or the clone failed on a segment of one kind
\* while it already holds a segment of the other: RollbackEnds shows that loop.
MixedRollback ==
  /\ job.op = "rollback"
  /\ \E s \in DOMAIN proc[job.process].segments :
       proc[job.process].segments[s].isShared # job.isShared
JobsEnd ==
  job # NoJob ~> \/ job = NoJob
                 \/ crashed
                 \/ MixedRollback
                 \/ job # NoJob /\ job.process \in spoiled

\* The rollback of a clone whose maps are not spoiled deletes or disconnects
\* every segment the clone holds and ends (kernelprocess.cpp:916-925).  The code
\* asks the parent's segment that failed, not the segment it is to remove: with
\* private and shared segments in the clone the loop turns for ever.
RollbackEnds ==
  job.op = "rollback" ~> job.op # "rollback" \/ crashed \/ job.process \in spoiled
=============================================================================
