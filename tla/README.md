# Verification of the virtual memory simulation

TLA+ models, TLC runs and TLAPS proofs about the program in `src/`: a simulated
operating system kernel with demand paging, a swap partition, copy on write,
shared segments and thrashing control. `PROJECT.json` lists the components, the
runs, the lines each definition models, the hazards, findings and theorems.

## 1. The system

| Component | State | Operations | What makes it correct |
|---|---|---|---|
| **FrameManager** (`framemanager.cpp`) | `vmDescriptors`, `clusterDescriptors`, `clockHand` | `loadFrameInVM`, `flushFrame`, `findFrameToFlush`, `frameDescFromPMT2Desc`, `removeProcessFromFrameOwners` | no frame or cluster lost or used twice; a page always finds its descriptor; no content lost by an eviction |
| **FrameDescriptor, PMT2Descriptor** (`pmt.cpp`, `pmt.h`) | per page: frame, cluster, owners; per owner: an entry with the same facts, rights and bits | setters that walk the owners | entries agree with their descriptor |
| **KernelProcess**, faults (`kernelprocess.cpp` 81-256, 857-888) | `lastAccessData`, `pmt1` and its entries | `access`, `pageFault`, `getPhysicalAddress` | after a successful fault the access succeeds; a store reaches one process's memory only |
| **KernelProcess**, segments (258-855) | `segments`, `segmentAllocatedPages`, second-level tables | create, load, delete, share, disconnect segments | pages belong to one segment; tables counted; failures undo what was done |
| **KernelProcess**, cloning (320-337, 546-617, 893-944) | | `clone` | the child starts with the parent's memory, isolated |
| **SharedSegmentsManager** (`sharedsegment.cpp`) | name -> descriptors and attached processes | create, disconnect, delete | descriptors live as long as somebody is attached |
| **VMAllocator, ClusterAllocator, PMTAllocator** | free list, counter and stack, free list | allocate, free | never the same unit twice |
| **ThrashingManager** (`thrashingmanager.cpp`) | counter, per process `isInThrashing`, `accessHistory` | `periodicJob`, `blockIfThrashing` | working sets fit memory; a blocked process is eventually released |
| **KernelSystem** (`kernelsystem.cpp`) | `processMap`, `nextId` | create, clone, destroy, access | ids are unique |
| **Splitter, UtilityClass, PMT** | none | address arithmetic | splitting and joining are inverse; bounds |
| **Partition** (`part.lib`, external) | clusters | `readCluster`, `writeCluster` | assumed: a map whose reads and writes may fail |
| **System, Process** (`system.cpp`, `process.cpp`) | a pointer | forwarding | |
| **Public test** (`public_test/`) | a global mutex | `doInstruction` | the environment of the model |

How they interact: everything is calls in one address space. A process's
`pageFault` calls the frame manager, which calls both allocators and the
partition and writes into the entries of *all* processes that own a page.
Segments create descriptors and hang their address into the entry's
`diskFrameNum`, which later becomes a cluster number: the same field is a pointer
or a number depending on `diskValid`. Cloning adds owners to descriptors, the
copy-on-write handler moves owners between descriptors. Mutexes: `ksMutex` (system),
`kpMutex` (process), the manager's, `framesMutex`, and one per allocator, all
recursive, and two that are not: a `thrashingMutex` per process and the public test's.
`pageFault` changes entries and descriptors partly without any of them, and the maps
of shared names are never covered by one.

What is hard: (a) page state kept in two places and updated by walking owners;
(b) long sequences of clone, fault, evict, delete; (c) failures of the partition, and a full
one, in the middle of an operation; (d) state observed before an unlock and used
after it; (e) lost wakeups and starvation in thrashing control; (f) rollbacks
that are hardly ever executed; (g) mutexes taken in an order that no comment states. `PROJECT.json` lists each hazard at its line.

## 2. The modules

| Module | Models |
|---|---|
| `FrameManager` | the frame manager, descriptors, entries, free sets of the two allocators, contents of frames and clusters |
| `Paging` (extends it) | processes: access, page fault, copy on write, segments, shared segments, cloning |
| `AddressSpaces` | abstract specification: what a process may rely on |
| `PagingProperties` | the properties of `Paging` and the refinement mapping to `AddressSpaces` |
| `MCPaging` | instances for TLC: symmetry and one constraint |
| `Thrashing` | `periodicJob`, `processThrashing`, `blockIfThrashing`, access histories, processes coming and going |
| `MCThrashing` | its instances |
| `ThrashingProofs` | what a round leaves active fits, and it stops releasing and blocking at the right moment |
| `UnitAllocator` | abstract specification: an allocator of a set of units |
| `Allocators` | `VMAllocator`/`PMTAllocator` (linked list and counter) and `ClusterAllocator` (counter and stack) |
| `MCAllocators` | its instance |
| `AllocatorsProofs` | the lists are sound, both allocators refine `UnitAllocator` |
| `Pages` | fields of an address, alignment and bounds, on words of a given width |
| `Segments` (extends it) | the life of processes, private and shared segments of several pages, second-level tables and their memory, the shared segments manager |
| `MCSegments` | its instance, and the address arithmetic against a reference |
| `SegmentsProofs` | pages, tables and their memory accounted for; private segments stay; shared segments sound |
| `Locks` | all mutexes, the call graph down to each of them, the life of the processes they sit in |
| `MCLocks` | its instance |
| `LocksProofs` | the order of the mutexes, the stages of processes, and what follows from them |
| `PagingProofs` | typing lemmas for every operator and action, `TypeCorrect` |
| `AccountingProofs` | the inductive invariant `Bookkeeping` and its consequences, what of it survives failed reads, the clock |
| `CowProofs` | the inductive invariant `Copying`: copy on write, rights, dirty bits, page faults |
| `MemoryProofs` | `Paging` refines `AddressSpaces` |

### State and code

* A slot `<<p, v>>` is one `PMT2Descriptor`: the entry of page `v` of process `p`;
  `pte[s]` holds its fields. `fd[d]` is the `FrameDescriptor` at heap address `d`;
  its list of owners is the set `fd[d].owners`. A heap address is reused only when
  no variable can lead to it, `vmDescriptors` and `clusterDescriptors` with their
  stale pointers included, so reuse behaves like a fresh allocation.
* `vmFree` and `clusterFree` are the free lists as sets; the model allocates *any*
  free element, which covers the orders the lists give.
* `mem[f]` and `disk[c]` are contents. A free frame holds `Link`, the list link
  the allocator writes into it; a frame that is allocated is zeroed.
* `segment[s]` says which segment holds the page: its rights and whether it is
  private or which shared name it is.
* `op` is the running operation with its locals. `failing` tells whether the
  last step met a failed partition call or a full partition: it is observed by
  properties and read by no action.
* `crashed` is set when the code uses a null descriptor, writes outside
  `clusterDescriptors`, or stores into the allocator's list; what happens after
  that is undefined and not modelled.

### Steps

`Access` is `KernelProcess::access`. When it is refused, `pageFault` follows in steps:
the load (`LoadResident`, or `LoadEvict` followed by `LoadPlace`, with `LoadEvictFails`,
`LoadPlaceFails`, `LoadEvictCrashes`, `LoadNull` as its failures), then,
when the access is still not allowed and the page is copy on write, `CowDetach`
(lines 167-199), the load of the copy, and `CowCopy` (205-210) or
`CowRollback` (212-227). `Retry` is the second access of the test and `Touch`
the load or store. Segments: `CreateSegment`; `LoadSegment`, a load, `Fill`
or `Unload`; `DeleteSegment`; `CreateSharedSegment`, `DeleteSharedSegment`. `CloneProcess` clones
all segments of a process into one that has none. Destroying a process is
the deletion of its segments.

One operation runs at a time, as it does in the public test, where one mutex is
held over access, page fault, second access and the store. `framesMutex` alone would
allow operations of two processes to interleave inside `pageFault`; nothing here
shows that the code is safe without the global mutex (section 6).

An eviction is split from the load that needs it only to keep the definitions small;
nothing can happen between the two. The failures that the code can meet are choices:
`WriteMayFail` and `ReadMayFail` say whether `writeCluster` and `readCluster` may return 0.
A full partition needs no choice: `Clusters` is small.

### The abstract specification of paging

In `AddressSpaces` every mapped page of every process is a variable of its
own. A page starts as zeroes, a store changes exactly the page it was requested for, a
clone copies its parent, and only in a step in which the partition fails or is full may
pages change otherwise (`Lose`). Which pages those are and what they then hold is left open, wider
than what the code loses, so nothing is claimed of contents in such a step.
`ImplementsAddressSpaces` maps `content[s]` to the frame, the cluster, or,
while a copy is being made, the buffer that holds the page. It says
that evictions, loads, copies, rollbacks and deletions are invisible. Shared segments
are mapped to `Unmapped`: several processes store to them, and their stores can be
lost (section 4).

### Thrashing control

`live` is the key set of `processMap`; `isInThrashing[p]` and `accessHistory[p]` are the process's
fields, `counter` is `counterForThrashingProcessing`. `thread[p]` says
where the thread of the process is around an instruction: outside, between the test
of `isInThrashing` and the wait (`checked`), waiting (`asleep`), or past
`blockIfThrashing` (`in`). The test and the wait are two steps, because the test holds
no mutex; `periodicJob`, `access`, creation and destruction are one step each, because
`ksMutex` is held over all of them. A round changes one flag of a process at most
once, so a thread that tests its flag meanwhile sees a value from before or
after the round. The map of processes is visited in any order; what a round picks is
said of each process it comes to by those before it (`Released`, `NewlyBlocked`), which
is what the code's running sum `neededSize` amounts to. A round does not look back: of working
sets 1, 2, 1 in 2 frames it may block the first two, and the first would fit beside the third
(`thrashingmanager.cpp:92-103`). `RoundStopsInTime` says what a single round
does ensure, `WhoFitsRuns` that later rounds make up for it.

The environment is the interface's: a process is destroyed by someone who has seen to it
that its thread is outside. Several accesses of one instruction are one access and
others in later instructions.

### Allocators

`freeList` is the chain from `framesHead`, `clusterStack` is the field of that name.
A request may be for no frame at all, which succeeds. `framesHeld` and `clustersHeld` are what the callers hold; they release nothing else (that
the frame manager does so is what `FrameAccounting` and `ClusterAccounting` say), and so
the alignment and range errors of `freeFrame` do not occur. `framesAsked`, `clustersAsked` and the two
parities record the last call: they make a wrong answer visible to the
abstract specification, which would take a unit handed out twice for a stuttering step.
`allocateFrames(1)` is `allocateFrame`. `UnitAllocator` lets a request take *any* free
units or be refused when too few are left, which is how `FrameManager` uses
`vmFree` and `clusterFree`.

### Processes and segments

`Segments` looks at the same calls as `Paging` from the other side: not at contents,
frames and owners, but at which pages and tables a process has. `proc[p]` holds the
maps of a `KernelProcess`: `segments` by start page, the bitmap `allocated`, `pmt1`
with the count of valid entries of each table, and the two maps between shared names
and addresses. `segmentsMap` is the manager's, with the owners of each name.
`freeFrames` is the counter of the page table allocator, whose list is the subject of
`Allocators`. Ids count up, so process `p` is created after process `p - 1`, and
`life[p]` is its stage; `hollow` is the `Process` without a `KernelProcess` that
`createProcess` returns when there is no frame for its table.

One call is one step as long as one mutex covers it. Where the code lets go, the model
is cut: `BeginAttach` (the manager's answer and the two maps) and `Attach`,
`AttachFails` (`allocateSharedSegment`) or `AttachToFreed`. An attach that fails disconnects
twice: `AttachFails` has the first disconnect, under `kpMutex`; `DisconnectAgain` is the manager's
answer to the second, `EraseRefused` what it does to the process and the two erases.
Then `BeginDisconnect` and `Detach`; `LoadSegment` and `LoadContent` or
`LoadFails`. `call[p]` says where the thread of `p` is. The loops of
`cloneAllSegments`, of its rollback and of `~KernelProcess` run in `job`, one turn per
step: `ksMutex` keeps other processes from coming and going, `kpMutexFree` keeps the
parent's segments as they are, and everything else may happen between the turns.

The program's own slips are in the model as they are in the code: `operator[]` enters
address 0 or the empty name, `emplace` keeps an old address, the rollback asks the
parent's segment, `deleteSharedSegment` stops after one owner. Uses of freed memory (a
descriptor that was deleted, a map changed under a lookup, the end of a map) let the
program die (`crashed`) or go on. Two history variables record the calls after which a
process's maps are known to be damaged (`spoiled`, `misuses`); the code does not read
them, and the properties say that nothing else damages a map. What such a call does to the
maps is excused and not shown to be harmless; pages, tables and private segments are
claimed for those processes too. Loops end where the maps are not damaged, with one exception that needs
no misuse: the rollback of a clone that holds segments of both kinds turns for ever (run
`mixedrollback`).

### Mutexes

In `Locks` a thread is a stack of calls, because every mutex is taken by a locker
object at the head of a function and given back at its return. `Calls(fn)` lists the
functions below `fn` that take a mutex. A function makes any of its calls, in any
order, any number of times or never: more than the code can do, so what is shown holds
for the code. Only what keeps a call from happening at all is kept (`Reached`: `find`
in `processMap`, a process that was made). A call whose mutex is taken waits in
`next`. A call has the process it is a member of (`of`) and the one it creates or
clones into (`child`); processes are numbered in the order of their creation, which is
the order in which a clone locks its parent and itself. `life` follows a process from
its creation over `processMap` to its removal; the user deletes a `Process` when none
of its calls on it is under way, as the public test does after joining the thread.

The wait in `blockIfThrashing` gives its mutex back; it is in `Thrashing`.

## 3. Runs that pass

The runs of paging and of the allocators are safety: there is nothing to wait for but the
operation that runs. `thrashing` assumes weak fairness of `periodicJob`, which the
program calls as long as there are processes (`main.cpp:56`), and of a thread's way from the test
to the wait. Nothing is assumed of accesses, creations, destructions and spurious
wakeups. `segments` assumes weak fairness of the loop that runs under `ksMutex` and of
calls that have begun: each of their steps takes mutexes that others hold for one step
only. No starvation freedom is claimed for mutexes, which the standard does not give;
`locks` is about safety. Deadlock is checked everywhere but in `segments`, where the
bounded number of processes, or a crash, ends a behaviour.

| Run | Instance | Shows |
|---|---|---|
| `private` | 3 processes x 1 page, 1 frame, 2 clusters, writes may fail, READ_WRITE segments | typing, frames and clusters accounted for, copy-on-write isolation, rights, dirty bits, the inductive invariant of copying, the test's assertion, faults resolved, and that private memory is implemented |
| `shared` | 2 processes x 1 page, 1 frame, 2 clusters, one shared name beside private segments, READ_WRITE and loaded EXECUTE ones | agreement and descriptors at attach, disconnect and deletion, the inductive invariant `Bookkeeping`, frames and clusters that hold data, private contents undisturbed |
| `readfail` | 2 processes x 1 page, 2 frames, 2 clusters, loaded segments, reads and writes may fail | accounting after the faulty rollback, while the owners' entries agree with their pages; only sharing a stranded page misleads an owner's entry; the clock's second chance |
| `thrashing` | 3 processes x 2 pages, 2 frames, a round at every second call | what a round leaves active fits, and it stops releasing and blocking at the right moment; no process stays blocked for ever beside room for it; the system does not stay with everybody blocked; the last process is woken |
| `segments` | 2 processes, 4 pages in 2 tables, 2 names, segments of 1 or 3 pages at 2 addresses; page table memory of 1 or 5 frames; one misuse | pages, tables and their memory accounted for; private segments kept; shared segments consistent but for the known misuses; destruction ends, and rollback of a clone with segments of one kind |
| `locks` | 2 threads, 3 processes | no circle of waiting threads; a round of thrashing control is alone; nobody uses a mutex of a process that is gone |
| `allocators` | 4 frames, 3 clusters, requests for 0 to 5 frames | lists sound, and `UnitAllocator` implemented |

The properties of `thrashing`, `allocators`, `segments` and `locks` are commented where
they are defined. Those of paging, in short (each is commented in `PagingProperties`):

* `FrameAccounting`, `ClusterAccounting`: the allocators, the two arrays and the descriptors tell
  the same story.
* `EntriesAgree`: every owner's entry says what the descriptor says.
* `DescriptorFound`: a mapped page has exactly one descriptor and finds it.
* `Bookkeeping`, `Copying`: the two inductive invariants of section 5, checked before
  they were proved.
* `AccountsKept`: what is left of `Bookkeeping` when reads fail (section 5).
* `OnlySharingMisleads`: an owner's entry stops agreeing with its page in two steps only, a clone
  of a page that a failed read stranded and the rollback of a copy of one.
* `PagesHoldData`: frames and clusters in use hold what was stored or zeroes, never a
  link of the free list.
* `CowIsolation`, `RightsKept`: a page shared by clones is writable for none, and
  copy on write neither gives nor takes rights.
* `CleanMeansSaved`: a private page nobody marks dirty is the same on disk.
* `InstructionCompletes`: the test's `assert(success == OK)` and `assert(address)`.
* `FaultResolved`: a fault on an access the segment allows is refused only when the
  partition failed or was full.
* `SecondChance`: a page accessed since the hand passed is evicted only when every page was,
  and then it is not the one the last eviction made room for.
* `ImplementsAddressSpaces`: section 2.

### Bounds and why they are enough

* One frame makes every load of another page an eviction, the page being
  copied included; two frames (`readfail`) let the hand move and choose, and
  `SecondChanceGiven` is for any number. Two clusters for three
  pages (`private`) make a full partition reachable.
* Three processes with one page allow clones of clones, three owners of one page
  and a copy by the second-last and last owner. Two processes are enough for what
  an attach must copy.
* `FDs` bounds the heap: 4 or 5 addresses. `HeapHasRoom` (a CONSTRAINT) stops at
  states without an unused address, where the program would still have memory. In `private`, `NoOrphans`
  stops at the leaked descriptors that run `orphan` shows; they stay in
  the other runs.
* `OwnersLocated`, a CONSTRAINT of `readfail`, stops where an owner's entry disagrees with
  its page. A failed read leaves such an entry behind, but takes its slot off the owners
  (finding `rollback`); the slot is an owner again when the process is cloned or the
  rollback of a copy brings the entry back, and the wrong entry then leads to
  another page's descriptor, or frees a frame that is in use. Beyond that point nothing
  is claimed. The step that leads there is checked by `OnlySharingMisleads`, the state it
  reaches by `AccountsKept`.
* Segments have one page and do not overlap; loops over the pages of a segment
  make one turn. Two values, the zeroes and one other, tell stores apart.
* Thrashing: three processes make a round choose among several to block or to release. A
  working set never exceeds memory (two pages, two frames): one that did could
  never be released, and `SomeoneMayRun` would not hold. A period of 2 instead of 50
  keeps steps between rounds.
* Allocators: enough to be exhausted and refilled in every order.
* Segments: with two pages to a table, a segment of three pages always crosses a
  boundary and shares a table with one of one page, and two processes with two tables each want six frames, so that memory of
  five runs out in the second process and memory of one in the first, which gets no
  table at all. Sizes are at
  least 1: a segment of size 0 is entered over an existing one, or takes a table that
  no page keeps, so that the accounting is lost at once. They stay below the size at
  which `startAddress + segmentSize * PageSize - 1` wraps; up to there `MCSegments`
  checks the bounds test against the intended one, for every address and beyond the last: in the
  run itself a segment is refused for an overlap or for want of memory. `MaxMisuses` allows one call that
  damages maps, and `DamageBound` follows a damaged process while no other lives (the
  parent of its clone apart).
* Locks: any two threads on any of three processes: a parent, its clone and a third,
  in every stage. The theorems of section 5 are for any number of both.
* Accesses are READ, WRITE and EXECUTE, those the public test makes. READ_WRITE
  on a page shared by clones is refused for ever by `shouldHandleCOW` (`kernelprocess.cpp:882`).

## 4. Runs that find a disagreement

| Run | What the code says of itself | What happens |
|---|---|---|
| `shareddirty` | `pmt.cpp:63`: has anyone written to the frame | the bit is in the writer's entry; the writer disconnects, `getDirty` says no, the eviction drops the store |
| `rollback` | `framemanager.cpp:88`: rollback after a failed read | the faulting entry is removed from the owners first and keeps a valid bit and a freed frame |
| `orphan` | `framemanager.cpp:148`, `kernelprocess.cpp:464`: a frame without users is released | the last owner of a page still marked copy on write leaves it, and nobody releases its frame and cluster |
| `wakeup` | `thrashingmanager.cpp:79`: a released process is made active and notified | the notification comes between the test of the flag and the wait, and the active process sleeps on |
| `mixedrollback` | `kernelprocess.cpp:916-924`: after an error, a rollback; a private segment is deleted, from a shared one the clone is detached | the loop asks the parent's segment that failed; a clone that holds a shared segment when a private one fails never gets rid of it, and `cloneProcess` spins under `ksMutex` |

## 5. What is proved

Every theorem holds for all values of the constants that satisfy the named assumptions
of the modules: sets of processes and pages that are finite, at least one frame, values
that are told apart. Where a theorem needs more, the extra hypothesis is in its statement:

* `~ReadMayFail` (paging but for `TypeCorrect`, the two `...WhileLocated` and
  `AccountedUntilShared`): run `rollback`
  shows an entry that disagrees with its page after a failed read. Failed writes and
  a full partition are covered.
* `[]OwnersLocated` (`AccountedWhileLocated` and `PagesAccountedWhileLocated`, which allow
  failed reads): the behaviours in which no wrong entry became an owner's.
* `[][~SharesStranded]_vars` (`AccountedUntilShared`, which allows failed reads): the behaviours
  in which no page that lost its owner to a failed read is cloned or copied on write. It says
  what must not be done, where the hypothesis before says what must not come of it.
* `"READ_WRITE" \notin Accesses` (`FaultsAreResolved` only): section 3, last bullet of the bounds.
* `NoWrap` (segments): the end of a caller's segment, `address + size * PageSize`, does not
  pass the unsigned word, in which `allocateEmptySegment` computes it without a test.
* `SameWidth` (frames of tables only): the two page fields of an address have one width,
  as in `splitter.h`. `getNumOfPMT2ToBeAllocated` steps by the size of one field and
  counts tables by the other.

`MCSegments` satisfies the last two. Of the passing runs of paging, all but `readfail` satisfy
`~ReadMayFail` and have no access READ_WRITE; `readfail` satisfies `OwnersLocated` by its
constraint, and has behaviours with failed reads that share no stranded page and others that do.

### Paging

No property of paging is inductive alone, so there are four layers.

1. `TypeOK` is. `PagingProofs` types each update of an entry or descriptor once and cites it
   per action.
2. `Bookkeeping` (`AccountingProofs`) says where a page is. `Place` writes the frame number
   into the owners of the descriptor it *finds* from the faulting entry, so frames stay
   accounted for only if that descriptor is the entry's own; which needs entries to agree
   with descriptors; which evictions keep only if `vmDescriptors` names the right
   descriptor. Hence:
   * `Places`: frame and cluster accounting, `OwnersLocated` (an owner's entry agrees with the
     descriptor, and until the page has a cluster the entry points to it, or to
     nothing when it was attached to a shared page in memory), `OneDescriptor`
     (a slot has an owner's place in exactly one descriptor if it is mapped, else in none),
     `NoStrayCluster`;
   * `SharedKnown`: a shared name's descriptor has its shared bit and no other name;
   * `OnSegment`: the running operation's page is mapped;
   * `CopyPending`: while a copy waits for its frame, the new descriptor holds nothing,
     and as long as the load can still fail, the backup entry names the original.

   It is proved in two parts. A page is *stranded* when it belongs to a segment and no
   descriptor has it as an owner. `NextLocated`: a step that shares no stranded page keeps
   `AccountsLocated`, whatever reads fail. And with a partition that can be read no page is ever
   stranded (`NoneStranded`), so that every step keeps `Bookkeeping`, which is
   `AccountsLocated` without stranded pages.

   From it: `FramesAccounted`, `ClustersAccounted`, `EntriesAlwaysAgree`, `DescriptorsFound`,
   and `SecondChanceGiven`, which follows the hand of the clock through one eviction.
3. `Copying` (`CowProofs`) says what may be done to a page and what it holds, and is inductive
   beside `Bookkeeping`: `KindsKept` (the pages of private segments, and only they, have private
   descriptors), `SegmentsEntitle` (rights are those of the segment, where the copy-on-write bit
   stands for a right to write that is withheld), `SharersAlike` (of several owners of a
   private page none can write, and all have the same dirty bit), `CleanMeansSaved`, and for the operation that runs
   `StepPrepared` and `BackupUsable` (what each step of a fault finds when it starts, and that
   the backup and the buffer agree with the page as long as the copy can fail). From it: `ClonesIsolated`,
   `RightsAlwaysKept`, `CleanPagesSaved`, `InstructionsComplete`,
   `MappedFramesStayAllocated` and `FaultsAreResolved`.
4. `MemoryInv` (`MemoryProofs`) adds `PagesHoldData`. The refinement
   (`PagingImplementsMemory`) goes by descriptors: what a page holds is in the place its
   descriptor names (`ContentIs`), two pages are never in one place (`Bookkeeping`), and so a
   step changes the content of the pages whose descriptor, frame or cluster it changes.
   Evictions and loads move a page and change no content, because a page that is not written back is
   the same on disk (`CleanMeansSaved`); a store changes one slot because its page has one
   owner (`CowIsolation`); a clone copies. Every action is then a step of
   `AddressSpaces` or a stutter.

`AccountsKept` is what stays of `Bookkeeping` when reads fail: both accounts,
`NoStrayCluster`, `CopyNowhere` (the descriptor of a pending copy holds nothing), and
`OwnersOrStranded` (a slot is the owner of one descriptor at most, and a page of a segment
without a descriptor has an entry that says it is in memory, which is what the failed read
left). `OwnersLocated` is not part of it, since clones and rollbacks can break it. Every step
from a state with both keeps `AccountsKept` (`NextAccounted`), so accounts are right in the first state
without `OwnersLocated` too: `PlaceFails` itself does no harm to them, and the load, the
eviction and the deletion of every page that kept its owners find the right descriptor.
`AccountsLocated` adds `OwnersLocated`, `SharedKnown` and `CopyPending`, and is inductive until a
stranded page is cloned or copied (`SharesStranded`); hence `AccountedUntilShared`: the failed
read of `framemanager.cpp:91` and all that follows it, other processes' loads, evictions
and copies included, mislead nobody before that. Of a copy the theorem excludes the start
(`CowDetach`), which comes before the rollback that `OnlySharingMisleads` names.

`MappedFramesStayAllocated` is about the property that run `rollback` violates: with reads
that succeed it holds, so the failed read is the only way to it.

### Segments

`Bookkeeping` of `SegmentsProofs` is inductive: the maps have their shapes; the allocated
pages of a process are the pages of its segments, each in one; a table is valid while it
has an allocated page and counts them (`Owned`, `Counted`); the loop under `ksMutex` works on a
process that is being built or torn down (`JobFits`); calls under way name what they began
with. One lemma per way to change a process (allocate, delete, disconnect, refuse, rename) says
that `Good` stays; actions cite it. From it `EveryPageHasOneSegment`,
`TablesAreCounted` and `PrivateSegmentsStay`.

`NoFrameIsLost` weighs every step: frames that are free, first-level tables of living
processes and valid second-level tables are a constant sum (`FramesStep`). A new segment
takes what `getNumOfPMT2ToBeAllocated` counts, and `ProbesCount` proves that the probes of that loop
meet each table of the segment exactly once; a deletion gives back the tables
whose count drops to 0, which are those no other page keeps. With the above it gives
`BookkeepingAgrees` and `TypeCorrect`.

`SharedSegmentsSound` rests on `Sharing`: of every process that is not `spoiled`, each shared
segment is linked both ways with its name (`Matched`), the name's entry of the manager has the
process as an owner and the size of the segment (`Registered`), no name and no
address is left over in the two maps (`NamesUsed`, `AddressesUsed`) except what a call under
way has entered or is about to remove (`Attaching`), or what the loop of a rollback
has still to clean up. A process that was not created yet has nothing (`Unborn`). Each step
changes one process; that the others keep what they rely on is a matter
of the manager's entries of their names (`ManagerKeeps`). The theorem says nothing of a
`spoiled` process: one that attached again to a name it had, whose `createSharedSegment` was
refused at the start of its own shared segment, that disconnected a name it did not have, or
that used a name, or was between the manager and its maps with it, when somebody called
`deleteSharedSegment` for it (`sharedsegment.cpp:45`). Between the two disconnects of a failed
attach the call itself carries what is still left of the name (`Leaving`).

### Thrashing control

`RoundsFit` and `RoundsStopInTime` are about every order in which a round may visit the
processes. The state they need is `TypeOK` and that finitely many processes live.
Sums of working sets are numbers of pairs of a process and a page, so they compare by
inclusion (`NeededMonotone`); the lemma `RunningSum` says that one process adds its working set. Of the processes a round releases, the last one was tested beside all others, and one
that was not released did not fit beside fewer. Of those it blocks, the first one it spares
was spared because the rest fitted, and the last one it blocks was blocked because
they did not (`ReleaseFits`, `BlockFits`).

### Allocators

For every number of frames (not 0) and clusters: `SoundAllocators` (`TypeOK`,
`FreeListSound` and `StackSound` are inductive together), with `TypeCorrect` and `StackKept`;
`FramesImplemented` and `ClustersImplemented` (every call is a step of `UnitAllocator`).
The argument rests on two lemmas about lists without repetitions, `TakenOff` and `PutInFront`,
and on `LengthCounts`: such a list is as long as the set of its elements is large, so
`numFrames > freeFrames` means that too few are free.

### Mutexes

For every set of threads and number of processes: `OrderKept`, and from it `TypeCorrect`
(among types, that no function that works on a process runs for pid 0, the clone that was not
made; it does not say that the process is alive), `RoundsAlone` and `NoThreadsWaitInACircle`. No order of the mutexes is written down in the
code; `RankOf` is one it keeps: the test's mutex, `ksMutex`, the `kpMutex` of each process
in the order of creation, the manager's, `framesMutex`, and last those under which
nothing is taken. `Ordered` says that every call that is made or waited for is above
(`Ceil`) all mutexes its thread holds, and that no mutex has two holders. It is
inductive because every edge of the call graph (`Edges`) leads upwards
(`CalleeInOrder`), a clone being younger than its parent. One edge leads down, from
`~KernelProcess` with its `kpMutex` to `ksMutex`; it waits for nobody, because
`~KernelProcess` runs only under `ksMutex` (`UnderKs`). Of threads that wait in a
circle one would wait for the highest rank, but whoever holds that mutex waits for a
higher one (`WaitsForHigher`). `RoundsAlone` follows from `UnderKs` too: two threads
would both hold `ksMutex`.

`NoDeadProcessTouched` needs a second invariant, `Lives`: the calls of a thread from its
entry point down fit the stages of the processes they are about (who is being made is
made by this thread, who is in `processMap` or on his way out is known to it), and no two
threads make or delete the same process. A process leaves the stage in which
others may call it only when no call on it is under way.

## 6. What is only model-checked, and what is not modelled

Only checked: the liveness properties `WhoFitsRuns`, `SomeoneMayRun`, `LastIsWoken` and `JobsEnd`, which
are out of the prover's reach, and the address arithmetic of `MCSegments` for the widths
given there. Of `OnlySharingMisleads` the proved counterpart is `AccountedUntilShared`, which
rules the copy out where it starts and not where it is rolled back. After failed reads
nothing is claimed beyond accounting and the agreement of owners' entries, and nothing after a
stranded page was shared and an owner's entry went wrong.

Not modelled:

* Instructions of two threads that overlap (the hazards at `kernelprocess.cpp` 169 and
  254). The program has no protection there of its own and promises none; its one
  caller holds a mutex over the instruction. A model without that mutex would have to
  give meaning to data races on descriptors and entries.
* Segments of size 0, and sizes at which the bounds test wraps (section 3).
* `Process::clone(pid)` called by a user with an id that is in use: `KernelProcess`
  notices it, throws nothing (`kernelprocess.cpp:38`) and replaces the other process in
  `processMap`. Ids in the models come from `nextId`.
* A use of the null `pProcess` of a `hollow` process, which would crash.
* Logging, and the random generator of the test.

`deleteSharedSegment` with attached processes is modelled as it is coded: one owner
goes and the call fails, while its comment says that all are disconnected
(`sharedsegment.cpp:28`). `spoiled` records it. There is no run of its own for it: it does so
whenever users are left, which one call shows. `Paging` has the call for a name without
users only.

## 7. Plan

Done: all modules, and the proofs of section 5. What is left:

1. `OnlySharingMisleads` as a theorem about behaviours up to the first wrong owner's entry: that
   of a copy of a stranded page only the rollback does harm, for every number of processes.
2. `FrameManager`'s free sets as instances of `UnitAllocator`, so that the proofs about
   the lists and those about paging meet.
