--------------------------- MODULE MemoryProofs ---------------------------
(***************************************************************************)
(* Paging implements private memory (AddressSpaces), whatever the          *)
(* constants are, as long as clusters can be read: every step of Paging is *)
(* a step of AddressSpaces or none.  What a page holds is what its         *)
(* descriptor says where to find, so a step matters by the descriptors,    *)
(* frames and clusters it changes; that the entries follow, and that two   *)
(* pages are never in one place, AccountingProofs shows.                   *)
(***************************************************************************)
EXTENDS CowProofs

\* What the page of descriptor d holds.
PageHolds(d) == IF fd[d].vmValid THEN mem[fd[d].vmFrameNum]
                ELSE IF fd[d].diskValid THEN disk[fd[d].diskFrameNum]
                ELSE Zero

DataIn(d) == /\ fd[d].vmValid => mem[fd[d].vmFrameNum] \in Values
             /\ fd[d].diskValid => disk[fd[d].diskFrameNum] \in Values

\* The page at s is in the buffer of pageFault.
InBuffer(s) == op.phase \in {"cowload", "cowcopy", "rollback"} /\ op.slot = s

StaysWhere(d) == /\ fd'[d].vmValid = fd[d].vmValid
                 /\ fd'[d].vmFrameNum = fd[d].vmFrameNum
                 /\ fd'[d].diskValid = fd[d].diskValid
                 /\ fd'[d].diskFrameNum = fd[d].diskFrameNum

---------------------------------------------------------------------------
(* Contents.                                                               *)

LEMMA ContentIs ==
  Bookkeeping =>
    \A d \in FDs : \A s \in fd[d].owners :
      IsPrivate(s) => Content(s) = IF InBuffer(s) THEN op.buffer ELSE PageHolds(d)
<1> SUFFICES ASSUME Bookkeeping, NEW d \in FDs, NEW s \in fd[d].owners, IsPrivate(s)
             PROVE  Content(s) = IF InBuffer(s) THEN op.buffer ELSE PageHolds(d)
  OBVIOUS
<1>1. Located(pte[s], d)
  BY DEF Bookkeeping, Places, OwnersLocated
<1> QED BY <1>1 DEF Located, AgreesWith, Content, InBuffer, PageHolds

\* The same after a step.
LEMMA ContentIsNext ==
  Bookkeeping' =>
    \A d \in FDs : \A s \in fd'[d].owners :
      IsPrivate(s)' => Content(s)' = IF InBuffer(s)' THEN op'.buffer ELSE PageHolds(d)'
<1> SUFFICES ASSUME Bookkeeping', NEW d \in FDs, NEW s \in fd'[d].owners, IsPrivate(s)'
             PROVE  Content(s)' = IF InBuffer(s)' THEN op'.buffer ELSE PageHolds(d)'
  OBVIOUS
<1>1. Located(pte[s], d)'
  BY DEF Bookkeeping, Places, OwnersLocated
<1> QED BY <1>1 DEF Located, AgreesWith, Content, InBuffer, PageHolds

LEMMA OutsideIsUnmapped == \A s : ~IsPrivate(s) => Content(s) = Unmapped
BY DEF Content

LEMMA OutsideIsUnmappedNext == \A s : ~IsPrivate(s)' => Content(s)' = Unmapped
BY DEF Content

LEMMA InsideIsMapped ==
  ASSUME Bookkeeping, PagesHoldData, NEW s \in Slot, IsPrivate(s)
  PROVE  Content(s) \in Values /\ Content(s) # Unmapped
<1>1. PICK d \in FDs : s \in fd[d].owners
  BY Owner DEF IsPrivate
<1>2. Content(s) = IF InBuffer(s) THEN op.buffer ELSE PageHolds(d)
  BY <1>1, ContentIs
<1>3. PageHolds(d) \in Values
  BY ValuesAssumption DEF PageHolds, PagesHoldData
<1> QED BY <1>2, <1>3, UnmappedAssumption DEF InBuffer, PagesHoldData

\* Steps that leave owners alone.
LEMMA SameContents ==
  ASSUME Bookkeeping, Bookkeeping', KindsKept, UNCHANGED segment,
         \A d \in FDs : fd'[d].owners = fd[d].owners,
         \A d \in FDs : ~fd[d].sharedBit /\ fd[d].owners # {} =>
                          PageHolds(d)' = PageHolds(d),
         \A s \in Slot : InBuffer(s)' <=> InBuffer(s),
         \A s \in Slot : InBuffer(s) => op'.buffer = op.buffer
  PROVE  \A s \in Slot : Content(s)' = Content(s)
<1> SUFFICES ASSUME NEW s \in Slot PROVE Content(s)' = Content(s)
  OBVIOUS
<1>1. IsPrivate(s)' <=> IsPrivate(s)
  BY DEF IsPrivate
<1>2. CASE ~IsPrivate(s)
  BY <1>1, <1>2, OutsideIsUnmapped, OutsideIsUnmappedNext
<1>3. CASE IsPrivate(s)
  <2>1. PICK d \in FDs : s \in fd[d].owners
    BY <1>3, Owner DEF IsPrivate
  <2>2. ~fd[d].sharedBit
    BY <1>3, <2>1 DEF KindsKept, IsPrivate
  <2>3. Content(s) = IF InBuffer(s) THEN op.buffer ELSE PageHolds(d)
    BY <1>3, <2>1, ContentIs
  <2>4. Content(s)' = IF InBuffer(s)' THEN op'.buffer ELSE PageHolds(d)'
    BY <1>1, <1>3, <2>1, ContentIsNext
  <2> QED BY <2>1, <2>2, <2>3, <2>4
<1> QED BY <1>2, <1>3

\* Any step: a page holds what it held if its descriptor's page does.
LEMMA ContentFollows ==
  ASSUME Bookkeeping, Bookkeeping', NEW s \in Slot, IsPrivate(s), IsPrivate(s)',
         ~InBuffer(s), ~InBuffer(s)',
         NEW o \in FDs, s \in fd[o].owners, NEW n \in FDs, s \in fd'[n].owners,
         PageHolds(n)' = PageHolds(o)
  PROVE  Content(s)' = Content(s)
<1>1. Content(s) = PageHolds(o)
  BY ContentIs
<1>2. Content(s)' = PageHolds(n)'
  BY ContentIsNext
<1> QED BY <1>1, <1>2

\* Pages other than d's are not where d's is, nor where nothing is.
LEMMA OthersKeep ==
  ASSUME Bookkeeping, NEW d \in FDs, NEW o \in FDs \ {d}, StaysWhere(o),
         \A f \in Frames : \/ mem'[f] = mem[f]
                           \/ f \in vmFree
                           \/ fd[d].vmValid /\ f = fd[d].vmFrameNum,
         \A c \in Clusters : \/ disk'[c] = disk[c]
                             \/ c \in clusterFree
                             \/ fd[d].diskValid /\ c = fd[d].diskFrameNum
  PROVE  PageHolds(o)' = PageHolds(o) /\ (DataIn(o) => DataIn(o)')
<1>1. fd[o].vmValid => mem'[fd[o].vmFrameNum] = mem[fd[o].vmFrameNum]
  BY Apart, Parts DEF Bookkeeping, Places, FrameAccounting
<1>2. fd[o].diskValid => disk'[fd[o].diskFrameNum] = disk[fd[o].diskFrameNum]
  BY Apart, Parts DEF Bookkeeping, Places, ClusterAccounting
<1> QED BY <1>1, <1>2 DEF PageHolds, DataIn, StaysWhere

LEMMA NothingStored ==
  ASSUME UNCHANGED <<mem, disk>>, NEW o \in FDs, StaysWhere(o)
  PROVE  PageHolds(o)' = PageHolds(o) /\ (DataIn(o) => DataIn(o)')
BY DEF PageHolds, DataIn, StaysWhere

---------------------------------------------------------------------------
(* Steps of AddressSpaces.                                                 *)

LEMMA QuietOrRefused ==
  ASSUME \A s \in Slot : Content(s)' = Content(s),
         Storing' = Storing \/ Storing' = NoSlot, failing' \in BOOLEAN
  PROVE  Memory!ASNext
<1>1. [s \in Slot |-> Content(s)]' = [s \in Slot |-> Content(s)]
  OBVIOUS
<1>2. CASE Storing' = Storing
  BY <1>1, <1>2 DEF Memory!ASNext, Memory!Quiet
<1>3. CASE Storing' # Storing
  BY <1>1, <1>3 DEF Memory!ASNext, Memory!Refuse
<1> QED BY <1>2, <1>3

LEMMA OneChanges ==
  ASSUME NEW s \in Slot, NEW w, Content(s)' = w,
         \A t \in Slot \ {s} : Content(t)' = Content(t)
  PROVE  [t \in Slot |-> Content(t)]' = [[t \in Slot |-> Content(t)] EXCEPT ![s] = w]
OBVIOUS

LEMMA Mapped ==
  ASSUME NEW s \in Slot, Content(s) = Unmapped, Content(s)' = Zero,
         \A t \in Slot \ {s} : Content(t)' = Content(t),
         Storing = NoSlot,
         Storing' = NoSlot \/ \E w \in Values : Storing' = <<s, w>>,
         ~failing', failing' \in BOOLEAN
  PROVE  Memory!ASNext
<1>1. [t \in Slot |-> Content(t)]' = [[t \in Slot |-> Content(t)] EXCEPT ![s] = Zero]
  BY OneChanges
<1>2. Memory!Map(s)
  BY <1>1 DEF Memory!Map
<1> QED BY <1>2 DEF Memory!ASNext, Memory!Slot, Slot

LEMMA Unmaps ==
  ASSUME NEW s \in Slot, Content(s) # Unmapped, Content(s)' = Unmapped,
         \A t \in Slot \ {s} : Content(t)' = Content(t),
         Storing = NoSlot \/ Storing[1] = s, Storing' = NoSlot,
         ~failing', failing' \in BOOLEAN
  PROVE  Memory!ASNext
<1>1. [t \in Slot |-> Content(t)]' = [[t \in Slot |-> Content(t)] EXCEPT ![s] = Unmapped]
  BY OneChanges
<1>2. Memory!Unmap(s)
  BY <1>1 DEF Memory!Unmap
<1> QED BY <1>2 DEF Memory!ASNext, Memory!Slot, Slot

LEMMA Requested ==
  ASSUME NEW s \in Slot, NEW w \in Values, Content(s) # Unmapped,
         \A t \in Slot : Content(t)' = Content(t),
         Storing = NoSlot, Storing' = <<s, w>>,
         ~failing', failing' \in BOOLEAN
  PROVE  Memory!ASNext
<1>1. [t \in Slot |-> Content(t)]' = [t \in Slot |-> Content(t)]
  OBVIOUS
<1>2. Memory!Request(s, w)
  BY <1>1 DEF Memory!Request
<1> QED BY <1>2 DEF Memory!ASNext, Memory!Slot, Slot

LEMMA Stored ==
  ASSUME NEW s \in Slot, NEW w \in Values, Content(s)' = w,
         \A t \in Slot \ {s} : Content(t)' = Content(t),
         Storing = <<s, w>>, Storing' = NoSlot,
         ~failing', failing' \in BOOLEAN
  PROVE  Memory!ASNext
<1>1. [t \in Slot |-> Content(t)]' = [[t \in Slot |-> Content(t)] EXCEPT ![s] = w]
  BY OneChanges
<1>2. Storing # NoSlot
  BY UnmappedAssumption
<1>3. Memory!Store
  BY <1>1, <1>2 DEF Memory!Store
<1> QED BY <1>3 DEF Memory!ASNext

LEMMA Lost ==
  ASSUME NEW w \in Values,
         \A s \in Slot : \/ Content(s)' = Content(s)
                         \/ Content(s) # Unmapped /\ Content(s)' = w,
         Storing' = Storing, failing'
  PROVE  Memory!ASNext
<1>1. Memory!Lose(w)
  BY DEF Memory!Lose, Memory!Slot, Slot
<1> QED BY <1>1 DEF Memory!ASNext

---------------------------------------------------------------------------
(* The operation.                                                          *)

Copies == {"cowload", "cowcopy", "rollback"}
Loads  == {"load", "fill", "unload"}

\* A step to another phase of the same operation.
LEMMA Proceeds ==
  ASSUME UNCHANGED segment, op.phase # "idle", op'.phase # "idle",
         op'.slot = op.slot, op'.type = op.type, op'.value = op.value,
         op'.buffer = op.buffer \/ op.phase \notin Copies,
         op'.phase \in Copies <=> op.phase \in Copies,
         op'.phase \in Loads <=> op.phase \in Loads
  PROVE  /\ \A s \in Slot : InBuffer(s)' <=> InBuffer(s)
         /\ \A s \in Slot : InBuffer(s) => op'.buffer = op.buffer
         /\ Storing' = Storing
         /\ PagesHoldData /\ op'.phase \in Copies => op'.buffer \in Values
<1>1. Storing' = Storing
  BY DEF Storing, IsPrivate, Loads
<1> QED BY <1>1 DEF InBuffer, Copies, PagesHoldData

\* The end of an operation that has nothing in its buffer.
LEMMA Ends ==
  ASSUME op'.phase = "idle", op.phase \notin Copies
  PROVE  /\ \A s \in Slot : InBuffer(s)' <=> InBuffer(s)
         /\ \A s \in Slot : InBuffer(s) => op'.buffer = op.buffer
         /\ Storing' = NoSlot
         /\ op'.phase \notin Copies
BY DEF InBuffer, Storing, Copies

\* loadFrameInVM returns the page's frame.
LEMMA LoadedProceeds ==
  ASSUME Bookkeeping, Loading, NEW e, Loaded(e), UNCHANGED segment
  PROVE  /\ \A s \in Slot : InBuffer(s)' <=> InBuffer(s)
         /\ \A s \in Slot : InBuffer(s) => op'.buffer = op.buffer
         /\ Storing' = Storing \/ Storing' = NoSlot
         /\ PagesHoldData /\ op'.phase \in Copies => op'.buffer \in Values
<1>1. op \in Ops /\ op.phase \in {"fault", "cowload", "load"}
  BY OpType DEF Loading, Bookkeeping
<1>2. CASE AfterLoad(e) = "idle"
  <2>1. op'.phase = "idle" /\ op.phase = "fault"
    BY <1>1, <1>2 DEF Loaded, AfterLoad, IdleOp
  <2> QED BY <2>1, Ends DEF Copies
<1>3. CASE AfterLoad(e) # "idle"
  <2>1. op' = [op EXCEPT !.phase = AfterLoad(e), !.frame = e.vmFrameNum]
    BY <1>3 DEF Loaded
  <2>2. /\ op.phase = "cowload" => AfterLoad(e) = "cowcopy"
        /\ op.phase = "load" => AfterLoad(e) = "fill"
        /\ op.phase = "fault" => AfterLoad(e) \in {"retry", "detach"}
    BY <1>1, <1>3 DEF AfterLoad
  <2>3. /\ op'.slot = op.slot /\ op'.type = op.type /\ op'.value = op.value
        /\ op'.buffer = op.buffer /\ op'.phase = AfterLoad(e)
    BY <1>1, <2>1 DEF Ops
  <2> QED BY <1>1, <1>3, <2>2, <2>3, Proceeds DEF Copies, Loads
<1> QED BY <1>2, <1>3

---------------------------------------------------------------------------
(* Accesses, loads and stores.                                             *)

MemoryInv == Bookkeeping /\ Copying /\ PagesHoldData

LEMMA DataKept ==
  ASSUME PagesHoldData, \A d \in FDs : DataIn(d) => DataIn(d)',
         op'.phase \in Copies => op'.buffer \in Values
  PROVE  PagesHoldData'
BY DEF PagesHoldData, DataIn, Copies

\* No page moves and nothing is stored.
LEMMA NothingHappens ==
  ASSUME MemoryInv, Bookkeeping', UNCHANGED <<fd, mem, disk, segment>>,
         \A s \in Slot : InBuffer(s)' <=> InBuffer(s),
         \A s \in Slot : InBuffer(s) => op'.buffer = op.buffer,
         Storing' = Storing \/ Storing' = NoSlot,
         op'.phase \in Copies => op'.buffer \in Values
  PROVE  PagesHoldData' /\ Memory!ASNext /\ \A s \in Slot : Content(s)' = Content(s)
<1>1. \A d \in FDs : PageHolds(d)' = PageHolds(d) /\ (DataIn(d) => DataIn(d)')
  BY DEF PageHolds, DataIn
<1>2. \A s \in Slot : Content(s)' = Content(s)
  BY <1>1, SameContents DEF MemoryInv, Copying
<1>3. failing' \in BOOLEAN
  BY DEF Bookkeeping, TypeOK, FMTypeOK
<1> QED BY <1>1, <1>2, <1>3, DataKept, QuietOrRefused DEF MemoryInv

LEMMA StutterMemory ==
  ASSUME MemoryInv, Bookkeeping', UNCHANGED <<fmVars, segment, sharedFD, op>>
  PROVE  PagesHoldData' /\ Memory!ASNext
<1>1. UNCHANGED <<fd, mem, disk, segment, op>>
  BY DEF fmVars
<1>2. Storing' = Storing /\ (op'.phase \in Copies => op'.buffer \in Values)
  BY <1>1 DEF Storing, IsPrivate, MemoryInv, PagesHoldData, Copies
<1>3. \A s \in Slot : (InBuffer(s)' <=> InBuffer(s)) /\ op'.buffer = op.buffer
  BY <1>1 DEF InBuffer
<1> QED BY <1>1, <1>2, <1>3, NothingHappens

LEMMA AccessMemory ==
  ASSUME MemoryInv, Bookkeeping', NEW s \in Slot, NEW type \in Accesses,
         NEW w \in Values, Access(s, type, w)
  PROVE  PagesHoldData' /\ Memory!ASNext
<1>1. /\ UNCHANGED <<fd, mem, disk, segment>> /\ ~failing' /\ failing' \in BOOLEAN
      /\ op.phase = "idle" /\ op'.phase \in {"touch", "fault"}
      /\ op'.slot = s /\ op'.type = type /\ op'.value = w
  BY OpType DEF Access, Idle, MemoryInv, Bookkeeping, Ops
<1>2. \A t \in Slot : ~InBuffer(t) /\ ~InBuffer(t)'
  BY <1>1 DEF InBuffer
<1>3. op'.phase \notin Copies
  BY <1>1 DEF Copies
<1>4. Storing = NoSlot
  BY <1>1 DEF Storing
<1>5. CASE IsPrivate(s) /\ IsWrite(type)
  <2>1. \A d \in FDs : PageHolds(d)' = PageHolds(d) /\ (DataIn(d) => DataIn(d)')
    BY <1>1 DEF PageHolds, DataIn
  <2>2. \A t \in Slot : Content(t)' = Content(t)
    BY <1>1, <1>2, <2>1, SameContents DEF MemoryInv, Copying
  <2>3. Storing' = <<s, w>>
    BY <1>1, <1>5 DEF Storing, IsPrivate
  <2>4. Content(s) # Unmapped
    BY <1>5, InsideIsMapped DEF MemoryInv
  <2>5. Memory!ASNext
    BY <1>1, <1>4, <2>2, <2>3, <2>4, Requested
  <2> QED BY <1>3, <2>1, <2>5, DataKept DEF MemoryInv
<1>6. CASE ~(IsPrivate(s) /\ IsWrite(type))
  <2>1. Storing' = NoSlot
    BY <1>1, <1>6 DEF Storing, IsPrivate
  <2> QED BY <1>1, <1>2, <1>3, <2>1, NothingHappens
<1> QED BY <1>5, <1>6

LEMMA RetryMemory ==
  ASSUME MemoryInv, Bookkeeping', Retry
  PROVE  PagesHoldData' /\ Memory!ASNext
<1>1. /\ UNCHANGED <<fd, mem, disk, segment>>
      /\ op.phase = "retry" /\ op'.phase = "touch"
      /\ op'.slot = op.slot /\ op'.type = op.type /\ op'.value = op.value
  BY OpType DEF Retry, In, Goto, MemoryInv, Bookkeeping, Ops
<1>2. op'.phase \notin Copies /\ op.phase \notin Copies
      /\ op'.phase \notin Loads /\ op.phase \notin Loads
  BY <1>1 DEF Copies, Loads
<1> QED BY <1>1, <1>2, Proceeds, NothingHappens

\* A store to the frame of s, whose page has no other owner, changes what s
\* holds and nothing else.
LEMMA StoreChangesOne ==
  ASSUME MemoryInv, Bookkeeping', UNCHANGED <<fd, disk, segment>>,
         NEW s \in Slot, IsPrivate(s), pte[s].vmValid, NEW w \in Values,
         mem' = [mem EXCEPT ![pte[s].vmFrameNum] = w],
         \A d \in FDs : s \in fd[d].owners => fd[d].owners = {s},
         \A t \in Slot : ~InBuffer(t)' /\ (t # s => ~InBuffer(t))
  PROVE  /\ Content(s)' = w
         /\ \A t \in Slot \ {s} : Content(t)' = Content(t)
         /\ \A d \in FDs : DataIn(d) => DataIn(d)'
<1>1. PICK d \in FDs : s \in fd[d].owners /\ Located(pte[s], d)
  BY Owner DEF IsPrivate, MemoryInv
<1>2. /\ fd[d].vmValid /\ fd[d].vmFrameNum = pte[s].vmFrameNum
      /\ fd[d].owners = {s} /\ fd[d].vmFrameNum \in Frames
      /\ mem \in [Frames -> Values \cup {Link}]
  BY <1>1, Parts DEF Located, AgreesWith, MemoryInv, Bookkeeping, TypeOK, FMTypeOK
<1>3. mem'[fd[d].vmFrameNum] = w /\ \A f \in Frames \ {fd[d].vmFrameNum} : mem'[f] = mem[f]
  BY <1>2
<1>4. ASSUME NEW o \in FDs \ {d}
      PROVE  PageHolds(o)' = PageHolds(o) /\ (DataIn(o) => DataIn(o)')
  <2>1. StaysWhere(o)
    BY DEF StaysWhere
  <2> QED BY <1>2, <1>3, <2>1, OthersKeep DEF MemoryInv
<1>5. PageHolds(d)' = w /\ (DataIn(d) => DataIn(d)')
  BY <1>2, <1>3 DEF PageHolds, DataIn
<1>6. Content(s)' = w
  BY <1>1, <1>5, ContentIsNext DEF IsPrivate
<1>7. ASSUME NEW t \in Slot \ {s} PROVE Content(t)' = Content(t)
  <2>1. CASE ~IsPrivate(t)
    BY <2>1, OutsideIsUnmapped, OutsideIsUnmappedNext DEF IsPrivate
  <2>2. CASE IsPrivate(t)
    <3>1. PICK o \in FDs : t \in fd[o].owners
      BY <2>2, Owner DEF IsPrivate, MemoryInv
    <3>2. o # d /\ fd'[o].owners = fd[o].owners
      BY <1>2, <3>1
    <3> QED BY <1>4, <2>2, <3>1, <3>2, ContentFollows DEF MemoryInv, IsPrivate
  <2> QED BY <2>1, <2>2
<1> QED BY <1>4, <1>5, <1>6, <1>7

\* A store to a page of a shared segment changes no private page.
LEMMA StoreUnseen ==
  ASSUME MemoryInv, Bookkeeping', UNCHANGED <<fd, disk, segment>>,
         NEW s \in Slot, segment[s] # NoSegment, ~IsPrivate(s), pte[s].vmValid,
         NEW w \in Values, mem' = [mem EXCEPT ![pte[s].vmFrameNum] = w],
         \A t \in Slot : ~InBuffer(t)' /\ (t # s => ~InBuffer(t))
  PROVE  /\ \A t \in Slot : Content(t)' = Content(t)
         /\ \A d \in FDs : DataIn(d) => DataIn(d)'
<1>1. PICK d \in FDs : s \in fd[d].owners /\ Located(pte[s], d)
  BY Owner DEF MemoryInv
<1>2. /\ fd[d].vmValid /\ fd[d].vmFrameNum = pte[s].vmFrameNum
      /\ fd[d].vmFrameNum \in Frames /\ fd[d].sharedBit
      /\ mem \in [Frames -> Values \cup {Link}]
  BY <1>1, Parts DEF Located, AgreesWith, MemoryInv, Bookkeeping, TypeOK, FMTypeOK,
     Copying, KindsKept, IsPrivate
<1>3. mem'[fd[d].vmFrameNum] = w /\ \A f \in Frames \ {fd[d].vmFrameNum} : mem'[f] = mem[f]
  BY <1>2
<1>4. ASSUME NEW o \in FDs \ {d}
      PROVE  PageHolds(o)' = PageHolds(o) /\ (DataIn(o) => DataIn(o)')
  <2>1. StaysWhere(o)
    BY DEF StaysWhere
  <2> QED BY <1>2, <1>3, <2>1, OthersKeep DEF MemoryInv
<1>5. DataIn(d) => DataIn(d)'
  BY <1>2, <1>3 DEF DataIn
<1>6. ASSUME NEW t \in Slot PROVE Content(t)' = Content(t)
  <2>1. CASE ~IsPrivate(t)
    BY <2>1, OutsideIsUnmapped, OutsideIsUnmappedNext DEF IsPrivate
  <2>2. CASE IsPrivate(t)
    <3>1. PICK o \in FDs : t \in fd[o].owners
      BY <2>2, Owner DEF IsPrivate, MemoryInv
    <3>2. o # d
      BY <1>2, <2>2, <3>1 DEF MemoryInv, Copying, KindsKept, IsPrivate
    <3> QED BY <1>4, <2>2, <3>1, <3>2, ContentFollows DEF MemoryInv, IsPrivate
  <2> QED BY <2>1, <2>2
<1> QED BY <1>4, <1>5, <1>6

LEMMA TouchMemory ==
  ASSUME MemoryInv, Bookkeeping', Touch
  PROVE  PagesHoldData' /\ Memory!ASNext
<1>1. PICK s \in Slot, w \in Values : s = op.slot /\ w = op.value /\ segment[s] # NoSegment
  BY OpType DEF Touch, In, MemoryInv, Bookkeeping, OnSegment, Ops
<1>2. /\ UNCHANGED <<pte, fd, disk, segment>> /\ ~failing' /\ failing' \in BOOLEAN
      /\ pte[s].vmValid
      /\ op.phase = "touch" /\ op'.phase = "idle"
      /\ mem' = IF IsWrite(op.type) THEN [mem EXCEPT ![pte[s].vmFrameNum] = w] ELSE mem
  BY <1>1, FinishType DEF Touch, In
<1>3. op'.phase \notin Copies /\ op.phase \notin Copies
  BY <1>2 DEF Copies
<1>4. /\ \A t \in Slot : ~InBuffer(t) /\ ~InBuffer(t)'
      /\ Storing' = NoSlot
  BY <1>2 DEF InBuffer, Storing
<1>5. CASE ~IsWrite(op.type)
  BY <1>2, <1>3, <1>4, <1>5, NothingHappens
<1>6. CASE IsWrite(op.type) /\ IsPrivate(s)
  <2>1. \A d \in FDs : s \in fd[d].owners => fd[d].owners = {s}
    <3>1. pte[s].write
      BY <1>1, <1>2, <1>6 DEF MemoryInv, Copying, StepPrepared
    <3>2. \A d \in FDs : s \in fd[d].owners => ~fd[d].sharedBit
      BY <1>6 DEF MemoryInv, Copying, KindsKept, IsPrivate
    <3> QED BY <3>1, <3>2, WritersAreAlone DEF MemoryInv
  <2>2. mem' = [mem EXCEPT ![pte[s].vmFrameNum] = w]
    BY <1>2, <1>6
  <2>3. /\ Content(s)' = w
        /\ \A t \in Slot \ {s} : Content(t)' = Content(t)
        /\ \A d \in FDs : DataIn(d) => DataIn(d)'
    BY <1>2, <1>4, <1>6, <2>1, <2>2, StoreChangesOne
  <2>4. Storing = <<s, w>>
    BY <1>1, <1>2, <1>6 DEF Storing
  <2>5. Memory!ASNext
    BY <1>2, <1>4, <2>3, <2>4, Stored
  <2> QED BY <1>3, <2>3, <2>5, DataKept DEF MemoryInv
<1>7. CASE IsWrite(op.type) /\ ~IsPrivate(s)
  <2>1. mem' = [mem EXCEPT ![pte[s].vmFrameNum] = w]
    BY <1>2, <1>7
  <2>2. /\ \A t \in Slot : Content(t)' = Content(t)
        /\ \A d \in FDs : DataIn(d) => DataIn(d)'
    BY <1>1, <1>2, <1>4, <1>7, <2>1, StoreUnseen
  <2> QED BY <1>2, <1>3, <1>4, <2>2, DataKept, QuietOrRefused DEF MemoryInv
<1> QED BY <1>5, <1>6, <1>7

LEMMA FillMemory ==
  ASSUME MemoryInv, Bookkeeping', Fill
  PROVE  PagesHoldData' /\ Memory!ASNext
<1>1. PICK s \in Slot, w \in Values : s = op.slot /\ w = op.value /\ segment[s] # NoSegment
  BY OpType DEF Fill, In, MemoryInv, Bookkeeping, OnSegment, Ops
<1>2. /\ UNCHANGED <<fd, disk, segment>> /\ ~failing' /\ failing' \in BOOLEAN
      /\ pte[s].vmValid /\ IsPrivate(s)
      /\ op.phase = "fill" /\ op'.phase = "idle"
      /\ mem' = [mem EXCEPT ![pte[s].vmFrameNum] = w]
      /\ \A d \in FDs : s \in fd[d].owners => fd[d].owners = {s}
  BY <1>1, FinishType DEF Fill, In, MemoryInv, Copying, StepPrepared, IsPrivate
<1>3. op'.phase \notin Copies
  BY <1>2 DEF Copies
<1>4. /\ \A t \in Slot : ~InBuffer(t) /\ ~InBuffer(t)'
      /\ Storing' = NoSlot /\ Storing = <<s, w>>
  BY <1>1, <1>2 DEF InBuffer, Storing
<1>5. /\ Content(s)' = w
      /\ \A t \in Slot \ {s} : Content(t)' = Content(t)
      /\ \A d \in FDs : DataIn(d) => DataIn(d)'
  BY <1>2, <1>4, StoreChangesOne
<1>6. Memory!ASNext
  BY <1>2, <1>4, <1>5, Stored
<1> QED BY <1>3, <1>5, <1>6, DataKept DEF MemoryInv

---------------------------------------------------------------------------
(* loadFrameInVM.                                                          *)

\* What becomes of the victim's content.
LEMMA Flushed ==
  ASSUME Bookkeeping, Evict
  PROVE  \E victim \in Frames, d \in FDs, passed \in SUBSET Frames,
            c \in Clusters \cup {NoCluster}, clean \in BOOLEAN :
           /\ PageOut(d, victim, passed, c, clean)
           /\ fd[d].vmValid /\ fd[d].vmFrameNum = victim
           /\ \/ /\ c \in clusterFree
                 /\ disk' = [disk EXCEPT ![c] = mem[victim]]
              \/ c = NoCluster /\ disk' = disk /\ failing'
              \/ /\ c = NoCluster /\ disk' = disk
                 /\ fd[d].diskValid /\ ~GetDirty(d)
              \/ /\ c = NoCluster /\ fd[d].diskValid
                 /\ disk' = [disk EXCEPT ![fd[d].diskFrameNum] = mem[victim]]
<1>1. PICK victim \in Frames, passed \in SUBSET Frames :
        LET d == vmDescriptors[victim]
        IN  \/ SaveToNewCluster(d, victim, passed)
            \/ DropUnsaved(d, victim, passed)
            \/ SaveToOwnCluster(d, victim, passed)
  BY DEF Evict
<1> DEFINE d == vmDescriptors[victim]
<1>2. d \in FDs /\ fd[d].vmValid /\ fd[d].vmFrameNum = victim
  BY VictimsHaveDescriptors DEF Evict, Bookkeeping, Places
<1> HIDE DEF d
<1>3. CASE SaveToNewCluster(d, victim, passed)
  <2>1. PICK c \in clusterFree : /\ disk' = Written(c, victim)
                                 /\ PageOut(d, victim, passed, c, FALSE)
    BY <1>3 DEF SaveToNewCluster
  <2>2. c \in Clusters
    BY <2>1 DEF Bookkeeping, TypeOK, FMTypeOK
  <2>3. disk' = [disk EXCEPT ![c] = mem[victim]]
    BY <2>1 DEF Written
  <2> QED BY <1>2, <2>1, <2>2, <2>3
<1>4. CASE DropUnsaved(d, victim, passed)
  <2>1. PageOut(d, victim, passed, NoCluster, FALSE) /\ disk' = disk /\ failing'
    BY <1>4 DEF DropUnsaved
  <2> QED BY <1>2, <2>1
<1>5. CASE SaveToOwnCluster(d, victim, passed)
  <2>1. PICK clean \in BOOLEAN :
          /\ PageOut(d, victim, passed, NoCluster, clean)
          /\ \/ disk' = disk /\ ~GetDirty(d)
             \/ disk' = disk /\ failing'
             \/ disk' = [disk EXCEPT ![fd[d].diskFrameNum] = mem[victim]]
    BY <1>5 DEF SaveToOwnCluster, Written
  <2>2. fd[d].diskValid
    BY <1>5 DEF SaveToOwnCluster
  <2> QED BY <1>2, <2>1, <2>2
<1> QED BY <1>1, <1>3, <1>4, <1>5 DEF d

\* An eviction keeps what pages hold, or the partition failed or is full and
\* one page falls back to what its cluster holds, or to zeroes.
LEMMA EvictHolds ==
  ASSUME MemoryInv, Evict
  PROVE  \E d \in FDs, w \in Values :
           /\ \A o \in FDs \ {d} : PageHolds(o)' = PageHolds(o)
           /\ \/ PageHolds(d)' = PageHolds(d)
              \/ fd[d].sharedBit \/ fd[d].owners = {}
              \/ failing' /\ PageHolds(d)' = w
           /\ \A o \in FDs : DataIn(o)'
<1>1. PICK victim \in Frames, d \in FDs, passed \in SUBSET Frames,
           c \in Clusters \cup {NoCluster}, clean \in BOOLEAN :
        /\ PageOut(d, victim, passed, c, clean)
        /\ fd[d].vmValid /\ fd[d].vmFrameNum = victim
        /\ \/ /\ c \in clusterFree
              /\ disk' = [disk EXCEPT ![c] = mem[victim]]
           \/ c = NoCluster /\ disk' = disk /\ failing'
           \/ /\ c = NoCluster /\ disk' = disk
              /\ fd[d].diskValid /\ ~GetDirty(d)
           \/ /\ c = NoCluster /\ fd[d].diskValid
              /\ disk' = [disk EXCEPT ![fd[d].diskFrameNum] = mem[victim]]
  BY Flushed DEF MemoryInv
<1>2. /\ TypeOK /\ clusterFree \subseteq Clusters /\ NoCluster \notin Clusters
      /\ mem \in [Frames -> Values \cup {Link}]
      /\ disk \in [Clusters -> Values \cup {Link}]
      /\ fd[d].diskValid => fd[d].diskFrameNum \in Clusters
      /\ \A o \in FDs : DataIn(o)
  BY Parts, PointersAssumption
     DEF MemoryInv, Bookkeeping, TypeOK, FMTypeOK, PagesHoldData, DataIn
<1>3. /\ \A o \in FDs \ {d} : fd'[o] = fd[o]
      /\ ~fd'[d].vmValid
      /\ c = NoCluster => /\ fd'[d].diskValid = fd[d].diskValid
                          /\ fd'[d].diskFrameNum = fd[d].diskFrameNum
      /\ c # NoCluster => fd'[d].diskValid /\ fd'[d].diskFrameNum = c
  BY <1>1, <1>2, PageOutWhere
<1>4. mem' = [mem EXCEPT ![victim] = Link]
  BY <1>1 DEF PageOut
<1>5. ASSUME NEW o \in FDs \ {d}
      PROVE  PageHolds(o)' = PageHolds(o) /\ DataIn(o)'
  <2>1. StaysWhere(o)
    BY <1>3 DEF StaysWhere
  <2>2. \A f \in Frames : mem'[f] = mem[f] \/ (fd[d].vmValid /\ f = fd[d].vmFrameNum)
    BY <1>1, <1>2, <1>4
  <2>3. \A k \in Clusters : \/ disk'[k] = disk[k]
                            \/ k \in clusterFree
                            \/ fd[d].diskValid /\ k = fd[d].diskFrameNum
    BY <1>1, <1>2
  <2> QED BY <1>2, <2>1, <2>2, <2>3, OthersKeep DEF MemoryInv
<1>6. PageHolds(d) = mem[victim] /\ mem[victim] \in Values
  BY <1>1, <1>2 DEF PageHolds, DataIn
<1>7. \E w \in Values :
        /\ \/ PageHolds(d)' = PageHolds(d)
           \/ fd[d].sharedBit \/ fd[d].owners = {}
           \/ failing' /\ PageHolds(d)' = w
        /\ DataIn(d)'
  <2>1. CASE c \in clusterFree /\ disk' = [disk EXCEPT ![c] = mem[victim]]
    BY <1>2, <1>3, <1>6, <2>1 DEF PageHolds, DataIn
  <2>2. CASE c = NoCluster /\ disk' = disk /\ failing'
    <3>1. PageHolds(d)' \in Values
      BY <1>2, <1>3, <2>2, ValuesAssumption DEF PageHolds, DataIn
    <3> QED BY <1>2, <1>3, <2>2, <3>1 DEF DataIn
  <2>3. CASE c = NoCluster /\ disk' = disk /\ fd[d].diskValid /\ ~GetDirty(d)
    <3>1. fd[d].sharedBit \/ fd[d].owners = {} \/ mem[victim] = disk[fd[d].diskFrameNum]
      BY <1>1, <2>3 DEF MemoryInv, Copying, CleanMeansSaved, Clean
    <3> QED BY <1>2, <1>3, <1>6, <2>3, <3>1 DEF PageHolds, DataIn
  <2>4. CASE /\ c = NoCluster /\ fd[d].diskValid
             /\ disk' = [disk EXCEPT ![fd[d].diskFrameNum] = mem[victim]]
    BY <1>2, <1>3, <1>6, <2>4 DEF PageHolds, DataIn
  <2> QED BY <1>1, <2>1, <2>2, <2>3, <2>4
<1> QED BY <1>5, <1>7

LEMMA LoadEvictMemory ==
  ASSUME MemoryInv, Bookkeeping', LoadEvict
  PROVE  PagesHoldData' /\ Memory!ASNext
<1>1. PICK d \in FDs, w \in Values :
        /\ \A o \in FDs \ {d} : PageHolds(o)' = PageHolds(o)
        /\ \/ PageHolds(d)' = PageHolds(d)
           \/ fd[d].sharedBit \/ fd[d].owners = {}
           \/ failing' /\ PageHolds(d)' = w
        /\ \A o \in FDs : DataIn(o)'
  BY EvictHolds DEF LoadEvict
<1>2. /\ UNCHANGED <<segment, op>> /\ failing' \in BOOLEAN
      /\ \A o \in FDs : fd'[o].owners = fd[o].owners
  BY EvictAccounts DEF LoadEvict, MemoryInv, Bookkeeping, Places, TypeOK, FMTypeOK
<1>3. /\ \A s \in Slot : InBuffer(s)' <=> InBuffer(s)
      /\ Storing' = Storing /\ op'.buffer = op.buffer
      /\ op'.phase \in Copies => op'.buffer \in Values
  BY <1>2 DEF InBuffer, Storing, IsPrivate, MemoryInv, PagesHoldData, Copies
<1>4. PagesHoldData'
  BY <1>1, <1>3, DataKept DEF MemoryInv
<1>5. CASE PageHolds(d)' = PageHolds(d) \/ fd[d].sharedBit \/ fd[d].owners = {}
  <2>1. \A s \in Slot : Content(s)' = Content(s)
    BY <1>1, <1>2, <1>3, <1>5, SameContents DEF MemoryInv, Copying
  <2> QED BY <1>2, <1>3, <1>4, <2>1, QuietOrRefused
<1>6. CASE failing' /\ PageHolds(d)' = w
  <2>1. ASSUME NEW s \in Slot
        PROVE  Content(s)' = Content(s) \/ (Content(s) # Unmapped /\ Content(s)' = w)
    <3>1. CASE ~IsPrivate(s)
      BY <1>2, <3>1, OutsideIsUnmapped, OutsideIsUnmappedNext DEF IsPrivate
    <3>2. CASE IsPrivate(s)
      <4>1. PICK o \in FDs : s \in fd[o].owners
        BY <3>2, Owner DEF IsPrivate, MemoryInv
      <4>2. Content(s) = IF InBuffer(s) THEN op.buffer ELSE PageHolds(o)
        BY <3>2, <4>1, ContentIs DEF MemoryInv
      <4>3. Content(s)' = IF InBuffer(s)' THEN op'.buffer ELSE PageHolds(o)'
        BY <1>2, <3>2, <4>1, ContentIsNext DEF IsPrivate
      <4>4. Content(s) # Unmapped
        BY <3>2, InsideIsMapped DEF MemoryInv
      <4> QED BY <1>1, <1>3, <1>6, <4>2, <4>3, <4>4
    <3> QED BY <3>1, <3>2
  <2> QED BY <1>3, <1>4, <1>6, <2>1, Lost
<1> QED BY <1>1, <1>5, <1>6

LEMMA LoadEvictFailsMemory ==
  ASSUME MemoryInv, Bookkeeping', LoadEvictFails
  PROVE  PagesHoldData' /\ Memory!ASNext
<1>1. /\ UNCHANGED <<fd, mem, disk, segment>> /\ op \in Ops
      /\ op.phase \in {"fault", "cowload", "load"}
      /\ \/ op.phase = "fault" /\ op'.phase = "idle"
         \/ op.phase = "cowload" /\ Goto("rollback")
         \/ op.phase = "load" /\ Goto("unload")
  BY OpType, FinishType
     DEF LoadEvictFails, EvictFails, Absent, Loading, NotLoaded, MemoryInv, Bookkeeping
<1>2. CASE op.phase = "fault" /\ op'.phase = "idle"
  <2>1. op.phase \notin Copies
    BY <1>2 DEF Copies
  <2> QED BY <1>1, <1>2, <2>1, Ends, NothingHappens
<1>3. CASE \/ op.phase = "cowload" /\ Goto("rollback")
           \/ op.phase = "load" /\ Goto("unload")
  <2>1. /\ op'.slot = op.slot /\ op'.type = op.type /\ op'.value = op.value
        /\ op'.buffer = op.buffer /\ op'.phase # "idle" /\ op.phase # "idle"
        /\ op'.phase \in Copies <=> op.phase \in Copies
        /\ op'.phase \in Loads <=> op.phase \in Loads
    BY <1>1, <1>3 DEF Goto, Ops, Copies, Loads
  <2> QED BY <1>1, <2>1, Proceeds, NothingHappens DEF MemoryInv
<1> QED BY <1>1, <1>2, <1>3

LEMMA LoadResidentMemory ==
  ASSUME MemoryInv, Bookkeeping', LoadResident
  PROVE  PagesHoldData' /\ Memory!ASNext
<1>1. /\ UNCHANGED <<fd, mem, disk, segment>> /\ Loading
      /\ Loaded(pte[op.slot])
  BY DEF LoadResident
<1>2. PICK e : e = pte[op.slot]
  OBVIOUS
<1> QED BY <1>1, <1>2, LoadedProceeds, NothingHappens DEF MemoryInv

\* A page that is placed holds what it held.
LEMMA PlaceHolds ==
  ASSUME MemoryInv, NEW s \in Slot, segment[s] # NoSegment, ~pte[s].vmValid, Place(s)
  PROVE  /\ \A o \in FDs : fd'[o].owners = fd[o].owners
         /\ \A o \in FDs : PageHolds(o)' = PageHolds(o) /\ (DataIn(o) => DataIn(o)')
<1>1. PICK d \in FDs : d = FrameDescOf(pte[s]) /\ s \in fd[d].owners
  BY FoundIsOwned DEF Place, MemoryInv, Bookkeeping
<1>2. PICK f \in vmFree :
        /\ fd' = [fd EXCEPT ![d].vmValid = TRUE, ![d].vmFrameNum = f]
        /\ mem' = [mem EXCEPT ![f] = IF fd[d].diskValid
                                       THEN disk[fd[d].diskFrameNum]
                                       ELSE Zero]
        /\ disk' = disk
  BY <1>1 DEF Place, Fetched
<1>3. /\ f \in Frames /\ fd \in [FDs -> FD] /\ fd[d] \in FD
      /\ mem \in [Frames -> Values \cup {Link}]
      /\ ~fd[d].vmValid
  BY <1>1 DEF MemoryInv, Bookkeeping, TypeOK, FMTypeOK, Places, OwnersLocated,
     Located, AgreesWith
<1>4. /\ \A o \in FDs \ {d} : fd'[o] = fd[o]
      /\ fd'[d].owners = fd[d].owners
      /\ fd'[d].vmValid /\ fd'[d].vmFrameNum = f
      /\ fd'[d].diskValid = fd[d].diskValid
      /\ fd'[d].diskFrameNum = fd[d].diskFrameNum
  BY <1>1, <1>2, <1>3 DEF FD
<1>5. /\ mem'[f] = IF fd[d].diskValid THEN disk[fd[d].diskFrameNum] ELSE Zero
      /\ \A g \in Frames \ {f} : mem'[g] = mem[g]
  BY <1>2, <1>3
<1>6. ASSUME NEW o \in FDs \ {d}
      PROVE  PageHolds(o)' = PageHolds(o) /\ (DataIn(o) => DataIn(o)')
  <2>1. StaysWhere(o)
    BY <1>4 DEF StaysWhere
  <2> QED BY <1>1, <1>2, <1>5, <2>1, OthersKeep DEF MemoryInv
<1>7. PageHolds(d)' = PageHolds(d) /\ (DataIn(d) => DataIn(d)')
  BY <1>1, <1>2, <1>3, <1>4, <1>5, ValuesAssumption DEF PageHolds, DataIn
<1> QED BY <1>1, <1>4, <1>6, <1>7

LEMMA LoadPlaceMemory ==
  ASSUME MemoryInv, Bookkeeping', LoadPlace
  PROVE  PagesHoldData' /\ Memory!ASNext
<1>1. PICK s \in Slot : s = op.slot /\ segment[s] # NoSegment
  BY OpType DEF LoadPlace, Absent, Loading, MemoryInv, Bookkeeping, OnSegment
<1>2. ~pte[s].vmValid /\ Place(s) /\ Loading /\ UNCHANGED segment
  BY <1>1 DEF LoadPlace, Absent
<1>3. PICK e : e = pte'[op.slot] /\ Loaded(e)
  BY DEF LoadPlace
<1>4. /\ \A o \in FDs : fd'[o].owners = fd[o].owners
      /\ \A o \in FDs : PageHolds(o)' = PageHolds(o) /\ (DataIn(o) => DataIn(o)')
  BY <1>1, <1>2, PlaceHolds
<1>5. /\ \A t \in Slot : InBuffer(t)' <=> InBuffer(t)
      /\ \A t \in Slot : InBuffer(t) => op'.buffer = op.buffer
      /\ Storing' = Storing \/ Storing' = NoSlot
      /\ op'.phase \in Copies => op'.buffer \in Values
  BY <1>2, <1>3, LoadedProceeds DEF MemoryInv
<1>6. \A t \in Slot : Content(t)' = Content(t)
  BY <1>2, <1>4, <1>5, SameContents DEF MemoryInv, Copying
<1>7. failing' \in BOOLEAN
  BY DEF Bookkeeping, TypeOK, FMTypeOK
<1> QED BY <1>4, <1>5, <1>6, <1>7, DataKept, QuietOrRefused DEF MemoryInv

LEMMA LoadFrameMemory ==
  ASSUME MemoryInv, Bookkeeping', LoadFrame, ~ReadMayFail
  PROVE  PagesHoldData' /\ Memory!ASNext
<1>1. CASE LoadPlaceFails
  BY <1>1 DEF LoadPlaceFails, PlaceFails
<1>2. CASE LoadEvictCrashes \/ LoadNull
  BY <1>2, StutterMemory DEF LoadEvictCrashes, LoadNull, Crash
<1> QED BY <1>1, <1>2, LoadResidentMemory, LoadEvictMemory, LoadEvictFailsMemory,
           LoadPlaceMemory DEF LoadFrame

---------------------------------------------------------------------------
(* Copy on write.                                                          *)

LEMMA CowDetachMemory ==
  ASSUME MemoryInv, Bookkeeping', CowDetach
  PROVE  PagesHoldData' /\ Memory!ASNext
<1>1. PICK s \in Slot : s = op.slot /\ segment[s] # NoSegment
  BY OpType DEF CowDetach, In, MemoryInv, Bookkeeping, OnSegment
<1>2. PICK d \in FDs : /\ d = FrameDescOf(pte[s]) /\ s \in fd[d].owners
                       /\ Located(pte[s], d)
  BY <1>1, FoundIsOwned DEF CowDetach, MemoryInv, Bookkeeping, Places, OwnersLocated
<1>3. PICK child \in FDs : child = NewFD /\ fd[child] = BlankFD
  BY NewFDFact DEF CowDetach, Unused
<1> DEFINE rest == fd[d].owners \ {s}
<1>4. /\ fd' = [fd EXCEPT ![d].owners = rest,
                          ![child] = [BlankFD EXCEPT !.owners = {s}]]
      /\ UNCHANGED <<mem, disk, segment>>
      /\ op.phase = "detach"
      /\ pte[s].vmValid /\ op.frame = pte[s].vmFrameNum
  BY <1>1, <1>2, <1>3 DEF CowDetach, In, MemoryInv, Copying, StepPrepared
<1>5. /\ op'.phase = "cowload" /\ op'.buffer = mem[op.frame] /\ op'.slot = op.slot
      /\ op'.type = op.type /\ op'.value = op.value
  BY OpType DEF CowDetach, MemoryInv, Bookkeeping, Ops
<1>6. /\ d # child
      /\ \A o \in FDs \ {d, child} : fd'[o] = fd[o]
      /\ fd'[d].owners = rest /\ fd'[child].owners = {s}
      /\ \A o \in FDs : StaysWhere(o)
  <2>1. fd \in [FDs -> FD] /\ fd[d] \in FD /\ d # child
    BY <1>2, <1>3, BlankIsNowhere DEF MemoryInv, Bookkeeping, TypeOK, FMTypeOK
  <2> HIDE DEF rest
  <2> QED BY <1>3, <1>4, <2>1 DEF FD, BlankFD, StaysWhere
<1>7. \A o \in FDs : PageHolds(o)' = PageHolds(o) /\ (DataIn(o) => DataIn(o)')
  BY <1>4, <1>6, NothingStored
<1>8. /\ fd[d].vmValid /\ fd[d].vmFrameNum = op.frame
      /\ PageHolds(d) = mem[op.frame]
      /\ mem[op.frame] \in Values
  BY <1>2, <1>4 DEF Located, AgreesWith, PageHolds, MemoryInv, PagesHoldData
<1>9. \A t \in Slot : Content(t)' = Content(t)
  <2> SUFFICES ASSUME NEW t \in Slot PROVE Content(t)' = Content(t)
    OBVIOUS
  <2>1. CASE ~IsPrivate(t)
    BY <1>4, <2>1, OutsideIsUnmapped, OutsideIsUnmappedNext DEF IsPrivate
  <2>2. CASE IsPrivate(t) /\ t = s
    <3>1. Content(t) = PageHolds(d)
      BY <1>2, <1>4, <2>2, ContentIs DEF MemoryInv, InBuffer
    <3>2. Content(t)' = op'.buffer
      BY <1>1, <1>4, <1>5, <1>6, <2>2, ContentIsNext DEF InBuffer, IsPrivate
    <3> QED BY <1>5, <1>8, <3>1, <3>2
  <2>3. CASE IsPrivate(t) /\ t # s
    <3>1. PICK o \in FDs : t \in fd[o].owners
      BY <2>3, Owner DEF IsPrivate, MemoryInv
    <3>2. o # child
      BY <1>3, <3>1, BlankIsNowhere
    <3>3. t \in fd'[o].owners
      BY <1>6, <2>3, <3>1, <3>2
    <3>4. ~InBuffer(t) /\ ~InBuffer(t)'
      BY <1>1, <1>4, <1>5, <2>3 DEF InBuffer
    <3> QED BY <1>4, <1>7, <2>3, <3>1, <3>3, <3>4, ContentFollows DEF MemoryInv, IsPrivate
  <2> QED BY <2>1, <2>2, <2>3
<1>10. Storing' = Storing
  BY <1>4, <1>5 DEF Storing, IsPrivate
<1>11. failing' \in BOOLEAN
  BY DEF Bookkeeping, TypeOK, FMTypeOK
<1> QED BY <1>5, <1>7, <1>8, <1>9, <1>10, <1>11, DataKept, QuietOrRefused DEF MemoryInv

LEMMA CowCopyMemory ==
  ASSUME MemoryInv, Bookkeeping', CowCopy
  PROVE  PagesHoldData' /\ Memory!ASNext
<1>1. PICK s \in Slot, w \in Values : s = op.slot /\ w = op.buffer /\ segment[s] # NoSegment
  BY OpType DEF CowCopy, In, MemoryInv, Bookkeeping, OnSegment, PagesHoldData
<1>2. /\ UNCHANGED <<fd, disk, segment>>
      /\ op.phase = "cowcopy"
      /\ pte[s].vmValid /\ pte[s].write
      /\ mem' = [mem EXCEPT ![pte[s].vmFrameNum] = w]
  BY <1>1 DEF CowCopy, In, MemoryInv, Copying, StepPrepared
<1>3. /\ op'.phase = "retry" /\ op'.slot = op.slot /\ op'.type = op.type
      /\ op'.value = op.value
  BY OpType DEF CowCopy, MemoryInv, Bookkeeping, Ops
<1>4. \A t \in Slot : ~InBuffer(t)' /\ (t # s => ~InBuffer(t)) /\ InBuffer(s)
  BY <1>1, <1>2, <1>3 DEF InBuffer
<1>5. /\ \A t \in Slot : Content(t)' = Content(t)
      /\ \A d \in FDs : DataIn(d) => DataIn(d)'
  <2>1. CASE IsPrivate(s)
    <3>1. \A d \in FDs : s \in fd[d].owners => ~fd[d].sharedBit
      BY <2>1 DEF MemoryInv, Copying, KindsKept, IsPrivate
    <3>2. \A d \in FDs : s \in fd[d].owners => fd[d].owners = {s}
      BY <1>2, <3>1, WritersAreAlone DEF MemoryInv
    <3>3. /\ Content(s)' = w
          /\ \A t \in Slot \ {s} : Content(t)' = Content(t)
          /\ \A d \in FDs : DataIn(d) => DataIn(d)'
      BY <1>2, <1>4, <2>1, <3>2, StoreChangesOne
    <3>4. Content(s) = w
      BY <1>1, <1>2, <2>1 DEF Content
    <3> QED BY <3>3, <3>4
  <2>2. CASE ~IsPrivate(s)
    BY <1>1, <1>2, <1>4, <2>2, StoreUnseen
  <2> QED BY <2>1, <2>2
<1>6. Storing' = Storing
  BY <1>2, <1>3 DEF Storing, IsPrivate
<1>7. failing' \in BOOLEAN /\ op'.phase \notin Copies
  BY <1>3 DEF Bookkeeping, TypeOK, FMTypeOK, Copies
<1> QED BY <1>5, <1>6, <1>7, DataKept, QuietOrRefused DEF MemoryInv

LEMMA CowRollbackMemory ==
  ASSUME MemoryInv, Bookkeeping', CowRollback
  PROVE  PagesHoldData' /\ Memory!ASNext
<1>1. PICK s \in Slot, d \in FDs, child \in FDs :
        /\ s = op.slot /\ d = op.parent /\ child = op.child /\ d # child
        /\ fd[child].owners = {s}
        /\ Located(op.backup, d) /\ segment[s] # NoSegment
        /\ op.backup.vmValid /\ op.buffer = mem[op.backup.vmFrameNum]
  BY OpType DEF CowRollback, In, MemoryInv, Bookkeeping, CopyPending, CopyNowhere, OnSegment,
     Copying, BackupUsable
<1> DEFINE owners == fd[d].owners \cup {s}
<1>2. /\ fd' = [fd EXCEPT ![child] = BlankFD, ![d].owners = owners]
      /\ UNCHANGED <<mem, disk, segment>>
      /\ op.phase = "rollback" /\ op'.phase = "idle"
  BY <1>1, FinishType DEF CowRollback, In
<1>3. /\ \A o \in FDs \ {d, child} : fd'[o] = fd[o]
      /\ fd'[child] = BlankFD
      /\ fd'[d].owners = owners
      /\ \A o \in FDs \ {child} : StaysWhere(o)
  <2>1. fd \in [FDs -> FD] /\ fd[d] \in FD
    BY DEF MemoryInv, Bookkeeping, TypeOK, FMTypeOK
  <2> HIDE DEF owners
  <2> QED BY <1>1, <1>2, <2>1 DEF FD, StaysWhere
<1>4. \A o \in FDs \ {child} : PageHolds(o)' = PageHolds(o) /\ (DataIn(o) => DataIn(o)')
  BY <1>2, <1>3, NothingStored
<1>5. DataIn(child)'
  BY <1>3, BlankIsNowhere DEF DataIn
<1>6. PageHolds(d) = op.buffer
  BY <1>1 DEF Located, AgreesWith, PageHolds
<1>7. \A t \in Slot : ~InBuffer(t)' /\ (t # s => ~InBuffer(t)) /\ InBuffer(s)
  BY <1>1, <1>2 DEF InBuffer
<1>8. \A t \in Slot : Content(t)' = Content(t)
  <2> SUFFICES ASSUME NEW t \in Slot PROVE Content(t)' = Content(t)
    OBVIOUS
  <2>1. CASE ~IsPrivate(t)
    BY <1>2, <2>1, OutsideIsUnmapped, OutsideIsUnmappedNext DEF IsPrivate
  <2>2. CASE IsPrivate(t) /\ t = s
    <3>1. Content(t) = op.buffer
      BY <1>1, <1>7, <2>2, ContentIs DEF MemoryInv
    <3>2. Content(t)' = PageHolds(d)'
      BY <1>2, <1>3, <1>7, <2>2, ContentIsNext DEF IsPrivate
    <3> QED BY <1>1, <1>4, <1>6, <3>1, <3>2
  <2>3. CASE IsPrivate(t) /\ t # s
    <3>1. PICK o \in FDs : t \in fd[o].owners
      BY <2>3, Owner DEF IsPrivate, MemoryInv
    <3>2. o # child
      BY <1>1, <2>3, <3>1
    <3>3. t \in fd'[o].owners
      BY <1>3, <3>1, <3>2
    <3> QED BY <1>2, <1>4, <1>7, <2>3, <3>1, <3>2, <3>3, ContentFollows
            DEF MemoryInv, IsPrivate
  <2> QED BY <2>1, <2>2, <2>3
<1>9. /\ Storing' = NoSlot /\ failing' \in BOOLEAN
      /\ op'.phase \notin Copies
  BY <1>2 DEF Storing, Bookkeeping, TypeOK, FMTypeOK, Copies
<1> QED BY <1>4, <1>5, <1>8, <1>9, DataKept, QuietOrRefused DEF MemoryInv

LEMMA CopyOnWriteMemory ==
  ASSUME MemoryInv, Bookkeeping', CopyOnWrite
  PROVE  PagesHoldData' /\ Memory!ASNext
<1>1. CASE DetachNull
  BY <1>1, StutterMemory DEF DetachNull, Crash
<1> QED BY <1>1, CowDetachMemory, CowCopyMemory, CowRollbackMemory DEF CopyOnWrite

---------------------------------------------------------------------------
(* Segments.                                                               *)

LEMMA NewSegmentMemory ==
  ASSUME MemoryInv, Bookkeeping', NEW s \in Slot, NEW flags \in Flags,
         CreateSegment(s, flags) \/ \E w \in Images : LoadSegment(s, flags, w)
  PROVE  PagesHoldData' /\ Memory!ASNext
<1>1. PICK d \in FDs : d = NewFD /\ fd[d] = BlankFD
  BY NewFDFact DEF CreateSegment, LoadSegment, AllocateNewSegment, Unused
<1>2. /\ fd' = [fd EXCEPT ![d] = [BlankFD EXCEPT !.owners = {s}]]
      /\ segment' = [segment EXCEPT ![s] = [flags |-> flags, name |-> Private]]
      /\ segment[s] = NoSegment
      /\ UNCHANGED <<mem, disk>> /\ ~failing' /\ failing' \in BOOLEAN
      /\ op.phase = "idle"
  BY <1>1 DEF AllocateNewSegment, CreateSegment, LoadSegment, Idle
<1>3. \/ op'.phase = "idle"
      \/ op'.phase = "load" /\ op'.slot = s /\ \E w \in Images : op'.value = w
  BY <1>2, OpType DEF CreateSegment, LoadSegment, MemoryInv, Bookkeeping, Ops
<1>4. /\ \A o \in FDs \ {d} : fd'[o] = fd[o]
      /\ fd'[d].owners = {s} /\ ~fd'[d].vmValid /\ ~fd'[d].diskValid
      /\ \A o \in FDs : StaysWhere(o)
      /\ \A t \in Slot \ {s} : segment'[t] = segment[t]
      /\ segment'[s] = [flags |-> flags, name |-> Private]
      /\ segment'[s] # NoSegment
  <2>1. fd \in [FDs -> FD] /\ segment \in [Slot -> Segments \cup {NoSegment}]
    BY DEF MemoryInv, Bookkeeping, TypeOK, FMTypeOK, PagingTypeOK
  <2>2. /\ \A o \in FDs \ {d} : fd'[o] = fd[o]
        /\ fd'[d] = [BlankFD EXCEPT !.owners = {s}]
    BY <1>2, <2>1
  <2>3. /\ fd'[d].owners = {s} /\ ~fd'[d].vmValid /\ ~fd'[d].diskValid
        /\ StaysWhere(d)
    BY <1>1, <2>2 DEF BlankFD, StaysWhere
  <2>4. \A o \in FDs \ {d} : StaysWhere(o)
    BY <2>2 DEF StaysWhere
  <2>5. /\ \A t \in Slot \ {s} : segment'[t] = segment[t]
        /\ segment'[s] = [flags |-> flags, name |-> Private]
    BY <1>2, <2>1
  <2> QED BY <2>2, <2>3, <2>4, <2>5, SegmentAssumption
<1>5. \A o \in FDs : PageHolds(o)' = PageHolds(o) /\ (DataIn(o) => DataIn(o)')
  BY <1>2, <1>4, NothingStored
<1>6. \A t \in Slot : ~InBuffer(t) /\ ~InBuffer(t)'
  BY <1>2, <1>3 DEF InBuffer
<1>7. IsPrivate(s)' /\ ~IsPrivate(s)
  BY <1>2, <1>4 DEF IsPrivate
<1>8. Content(s) = Unmapped
  BY <1>7, OutsideIsUnmapped
<1>9. Content(s)' = Zero
  BY <1>4, <1>6, <1>7, ContentIsNext DEF PageHolds
<1>10. ASSUME NEW t \in Slot \ {s} PROVE Content(t)' = Content(t)
  <2>1. CASE ~IsPrivate(t)
    BY <1>4, <2>1, OutsideIsUnmapped, OutsideIsUnmappedNext DEF IsPrivate
  <2>2. CASE IsPrivate(t)
    <3>1. PICK o \in FDs : t \in fd[o].owners
      BY <2>2, Owner DEF IsPrivate, MemoryInv
    <3>2. o # d
      BY <1>1, <3>1, BlankIsNowhere
    <3>3. IsPrivate(t)'
      BY <1>4, <2>2 DEF IsPrivate
    <3> QED BY <1>4, <1>5, <1>6, <2>2, <3>1, <3>2, <3>3, ContentFollows DEF MemoryInv
  <2> QED BY <2>1, <2>2
<1>11. Storing = NoSlot /\ op'.phase \notin Copies
  BY <1>2, <1>3 DEF Storing, Copies
<1>12. Storing' = NoSlot \/ \E w \in Values : Storing' = <<s, w>>
  BY <1>3, ImagesAssumption DEF Storing
<1>13. Memory!ASNext
  BY <1>2, <1>8, <1>9, <1>10, <1>11, <1>12, Mapped
<1> QED BY <1>5, <1>11, <1>13, DataKept DEF MemoryInv

\* Pages other than a released one hold what they held.
LEMMA ReleaseHolds ==
  ASSUME MemoryInv, NEW d \in FDs, ReleaseFD(d)
  PROVE  /\ \A o \in FDs \ {d} : /\ fd'[o] = fd[o]
                                 /\ PageHolds(o)' = PageHolds(o)
         /\ \A o \in FDs : DataIn(o) => DataIn(o)'
<1>1. /\ \A o \in FDs \ {d} : fd'[o] = fd[o]
      /\ fd'[d] = BlankFD
      /\ mem' = IF fd[d].vmValid THEN [mem EXCEPT ![fd[d].vmFrameNum] = Link] ELSE mem
      /\ disk' = IF fd[d].diskValid THEN [disk EXCEPT ![fd[d].diskFrameNum] = Zero]
                 ELSE disk
      /\ mem \in [Frames -> Values \cup {Link}]
      /\ disk \in [Clusters -> Values \cup {Link}]
  BY DEF ReleaseFD, MemoryInv, Bookkeeping, TypeOK, FMTypeOK
<1>2. ASSUME NEW o \in FDs \ {d}
      PROVE  PageHolds(o)' = PageHolds(o) /\ (DataIn(o) => DataIn(o)')
  <2>1. StaysWhere(o)
    BY <1>1 DEF StaysWhere
  <2>2. \A f \in Frames : mem'[f] = mem[f] \/ (fd[d].vmValid /\ f = fd[d].vmFrameNum)
    BY <1>1
  <2>3. \A c \in Clusters : disk'[c] = disk[c] \/ (fd[d].diskValid /\ c = fd[d].diskFrameNum)
    BY <1>1
  <2> QED BY <2>1, <2>2, <2>3, OthersKeep DEF MemoryInv
<1>3. DataIn(d)'
  BY <1>1, BlankIsNowhere DEF DataIn
<1> QED BY <1>1, <1>2, <1>3

LEMMA DeletionMemory ==
  ASSUME MemoryInv, Bookkeeping', Unload \/ \E s \in Slot : DeleteSegment(s)
  PROVE  PagesHoldData' /\ Memory!ASNext
<1>1. PICK s \in Slot :
        /\ segment[s] # NoSegment /\ DeleteSegmentImpl(s)
        /\ \/ op.phase = "idle"
           \/ op.phase = "unload" /\ op.slot = s /\ segment[s].name = Private
  BY OpType DEF Unload, In, DeleteSegment, Idle, MemoryInv, Bookkeeping, OnSegment,
     Copying, StepPrepared
<1>2. PICK d \in FDs : s \in fd[d].owners /\ RemoveOwner(s, d)
  BY <1>1, FoundIsOwned DEF DeleteSegmentImpl, MemoryInv, Bookkeeping
<1>3. /\ \A t \in Slot \ {s} : segment'[t] = segment[t]
      /\ segment'[s] = NoSegment
  BY <1>1 DEF DeleteSegmentImpl, MemoryInv, Bookkeeping, TypeOK, PagingTypeOK
<1>4. ~failing' /\ failing' \in BOOLEAN
  BY <1>2 DEF RemoveOwner, ReleaseFD
<1> DEFINE rest == fd[d].owners \ {s}
<1>5. /\ \A o \in FDs \ {d} : fd'[o] = fd[o] /\ PageHolds(o)' = PageHolds(o)
      /\ rest # {} => fd'[d].owners = rest /\ PageHolds(d)' = PageHolds(d)
      /\ \A o \in FDs : DataIn(o) => DataIn(o)'
  <2>1. CASE rest = {} /\ ReleaseFD(d)
    BY <2>1, ReleaseHolds
  <2>2. CASE fd' = [fd EXCEPT ![d].owners = rest] /\ UNCHANGED <<mem, disk>>
    <3>1. fd \in [FDs -> FD] /\ fd[d] \in FD
      BY DEF MemoryInv, Bookkeeping, TypeOK, FMTypeOK
    <3>2. /\ \A o \in FDs \ {d} : fd'[o] = fd[o]
          /\ fd'[d].owners = rest
          /\ \A o \in FDs : StaysWhere(o)
      <4> HIDE DEF rest
      <4> QED BY <2>2, <3>1 DEF FD, StaysWhere
    <3>3. \A o \in FDs : PageHolds(o)' = PageHolds(o) /\ (DataIn(o) => DataIn(o)')
      BY <2>2, <3>2, NothingStored
    <3> QED BY <3>2, <3>3
  <2> QED BY <1>2, <2>1, <2>2 DEF RemoveOwner
<1>6. op'.phase = "idle"
  BY FinishType DEF Unload, DeleteSegment, Idle
<1>7. \A t \in Slot : ~InBuffer(t) /\ ~InBuffer(t)'
  BY <1>1, <1>6 DEF InBuffer
<1>8. ASSUME NEW t \in Slot \ {s} PROVE Content(t)' = Content(t)
  <2>1. CASE ~IsPrivate(t)
    BY <1>3, <2>1, OutsideIsUnmapped, OutsideIsUnmappedNext DEF IsPrivate
  <2>2. CASE IsPrivate(t)
    <3>1. PICK o \in FDs : t \in fd[o].owners
      BY <2>2, Owner DEF IsPrivate, MemoryInv
    <3>2. t \in fd'[o].owners /\ PageHolds(o)' = PageHolds(o)
      <4>1. CASE o = d
        BY <1>5, <3>1, <4>1
      <4>2. CASE o # d
        BY <1>5, <3>1, <4>2
      <4> QED BY <4>1, <4>2
    <3>3. IsPrivate(t)'
      BY <1>3, <2>2 DEF IsPrivate
    <3> QED BY <1>7, <2>2, <3>1, <3>2, <3>3, ContentFollows DEF MemoryInv
  <2> QED BY <2>1, <2>2
<1>9. Content(s)' = Unmapped
  BY <1>3, OutsideIsUnmappedNext DEF IsPrivate
<1>10. Storing' = NoSlot /\ op'.phase \notin Copies
  BY <1>6 DEF Storing, Copies
<1>11. CASE IsPrivate(s)
  <2>1. Content(s) # Unmapped
    BY <1>11, InsideIsMapped DEF MemoryInv
  <2>2. Storing = NoSlot \/ Storing[1] = s
    BY <1>1 DEF Storing
  <2>3. Memory!ASNext
    BY <1>4, <1>8, <1>9, <1>10, <2>1, <2>2, Unmaps
  <2> QED BY <1>5, <1>10, <2>3, DataKept DEF MemoryInv
<1>12. CASE ~IsPrivate(s)
  <2>1. Content(s) = Unmapped
    BY <1>12, OutsideIsUnmapped
  <2>2. \A t \in Slot : Content(t)' = Content(t)
    BY <1>8, <1>9, <2>1
  <2> QED BY <1>4, <1>5, <1>10, <2>2, DataKept, QuietOrRefused DEF MemoryInv
<1> QED BY <1>11, <1>12

LEMMA CreateSharedSegmentMemory ==
  ASSUME MemoryInv, Bookkeeping', NEW s \in Slot, NEW x \in SharedNames,
         NEW flags \in Flags, CreateSharedSegment(s, x, flags)
  PROVE  PagesHoldData' /\ Memory!ASNext
<1>1. PICK d \in FDs : d = IF sharedFD[x] = NoFD THEN NewFD ELSE sharedFD[x]
  BY NewFDFact
     DEF CreateSharedSegment, Unused, MemoryInv, Bookkeeping, TypeOK, PagingTypeOK
<1>2. /\ segment[s] = NoSegment
      /\ segment' = [segment EXCEPT ![s] = [flags |-> flags, name |-> x]]
      /\ fd' = [fd EXCEPT ![d].owners = @ \cup {s}, ![d].sharedBit = TRUE]
      /\ UNCHANGED <<mem, disk, op>> /\ op.phase = "idle"
  BY <1>1 DEF CreateSharedSegment, Idle
<1>3. /\ \A o \in FDs : StaysWhere(o) /\ fd[o].owners \subseteq fd'[o].owners
      /\ \A t \in Slot \ {s} : segment'[t] = segment[t]
      /\ segment'[s].name = x /\ x # Private
  BY <1>2, SegmentAssumption
     DEF MemoryInv, Bookkeeping, TypeOK, FMTypeOK, PagingTypeOK, FD, StaysWhere
<1>4. \A o \in FDs : PageHolds(o)' = PageHolds(o) /\ (DataIn(o) => DataIn(o)')
  BY <1>2, <1>3, NothingStored
<1>5. \A t \in Slot : ~InBuffer(t) /\ ~InBuffer(t)'
  BY <1>2 DEF InBuffer
<1>6. ASSUME NEW t \in Slot PROVE Content(t)' = Content(t)
  <2>1. IsPrivate(t)' <=> IsPrivate(t)
    BY <1>2, <1>3 DEF IsPrivate
  <2>2. CASE ~IsPrivate(t)
    BY <2>1, <2>2, OutsideIsUnmapped, OutsideIsUnmappedNext
  <2>3. CASE IsPrivate(t)
    <3>1. PICK o \in FDs : t \in fd[o].owners
      BY <2>3, Owner DEF IsPrivate, MemoryInv
    <3>2. t \in fd'[o].owners
      BY <1>3, <3>1
    <3> QED BY <1>4, <1>5, <2>1, <2>3, <3>1, <3>2, ContentFollows DEF MemoryInv
  <2> QED BY <2>2, <2>3
<1>7. /\ Storing' = Storing /\ op'.phase \notin Copies
      /\ failing' \in BOOLEAN
  BY <1>2 DEF Storing, Copies, Bookkeeping, TypeOK, FMTypeOK
<1> QED BY <1>4, <1>6, <1>7, DataKept, QuietOrRefused DEF MemoryInv

LEMMA DeleteSharedSegmentMemory ==
  ASSUME MemoryInv, Bookkeeping', NEW x \in SharedNames, DeleteSharedSegment(x)
  PROVE  PagesHoldData' /\ Memory!ASNext
<1>1. PICK d \in FDs :
        /\ fd[d].owners = {} /\ ReleaseFD(d)
        /\ UNCHANGED <<segment, op>> /\ op.phase = "idle"
  BY DEF DeleteSharedSegment, Idle, MemoryInv, Bookkeeping, TypeOK, PagingTypeOK
<1>2. /\ \A o \in FDs \ {d} : fd'[o] = fd[o] /\ PageHolds(o)' = PageHolds(o)
      /\ \A o \in FDs : DataIn(o) => DataIn(o)'
  BY <1>1, ReleaseHolds
<1>3. fd'[d].owners = {}
  BY <1>1, BlankIsNowhere DEF ReleaseFD, MemoryInv, Bookkeeping, TypeOK, FMTypeOK
<1>4. \A t \in Slot : ~InBuffer(t) /\ ~InBuffer(t)'
  BY <1>1 DEF InBuffer
<1>5. \A t \in Slot : Content(t)' = Content(t)
  BY <1>1, <1>2, <1>3, <1>4, SameContents DEF MemoryInv, Copying
<1>6. /\ Storing' = Storing /\ op'.phase \notin Copies
      /\ failing' \in BOOLEAN
  BY <1>1 DEF Storing, Copies, Bookkeeping, TypeOK, FMTypeOK
<1> QED BY <1>2, <1>5, <1>6, DataKept, QuietOrRefused DEF MemoryInv

---------------------------------------------------------------------------
(* Cloning.                                                                *)

LEMMA CloneProcessMemory ==
  ASSUME MemoryInv, Bookkeeping', NEW p \in Procs, NEW q \in Procs,
         CloneProcess(p, q)
  PROVE  PagesHoldData' /\ Memory!ASNext
<1> DEFINE From(t)     == <<p, t[2]>>
           Inherits(t) == t[1] = q /\ segment[From(t)] # NoSegment
           Shares(t)   == segment[From(t)].name # Private
           Page(t)     == IF Shares(t) THEN sharedFD[segment[From(t)].name]
                          ELSE FrameDescOf(pte[From(t)])
           New(d)      == {t \in Slot : Inherits(t) /\ Page(t) = d}
<1>1. /\ \A t \in Slot : Inherits(t) => Page(t) # NoFD
      /\ segment' = [t \in Slot |-> IF t[1] = q THEN segment[From(t)] ELSE segment[t]]
      /\ fd' = [d \in FDs |-> [fd[d] EXCEPT !.owners = @ \cup New(d)]]
      /\ \A v \in VPages : segment[<<q, v>>] = NoSegment
      /\ UNCHANGED <<mem, disk, op>> /\ op.phase = "idle" /\ ~failing'
      /\ failing' \in BOOLEAN /\ p # q
  BY DEF CloneProcess, Idle
<1>2. \A t \in Slot : /\ From(t) \in Slot
                      /\ t[1] = q => segment[t] = NoSegment
                      /\ segment'[t] = IF t[1] = q THEN segment[From(t)] ELSE segment[t]
  BY <1>1 DEF Slot
<1>3. \A o \in FDs : /\ StaysWhere(o)
                     /\ fd'[o].owners = fd[o].owners \cup New(o)
  <2> HIDE DEF New
  <2>1. \A o \in FDs : fd[o] \in FD
    BY Parts DEF MemoryInv, Bookkeeping
  <2> QED BY <1>1, <2>1 DEF FD, StaysWhere
<1>4. \A o \in FDs : PageHolds(o)' = PageHolds(o) /\ (DataIn(o) => DataIn(o)')
  BY <1>1, <1>3, NothingStored
<1>5. \A t \in Slot : ~InBuffer(t) /\ ~InBuffer(t)'
  BY <1>1 DEF InBuffer
<1>6. ASSUME NEW t \in Slot, t[1] = q
      PROVE  Content(t) = Unmapped /\ Content(t)' = Content(From(t))
  <2>1. Content(t) = Unmapped /\ (IsPrivate(t)' <=> IsPrivate(From(t)))
    BY <1>2, <1>6, OutsideIsUnmapped DEF IsPrivate
  <2>2. CASE ~IsPrivate(From(t))
    BY <2>1, <2>2, OutsideIsUnmapped, OutsideIsUnmappedNext
  <2>3. CASE IsPrivate(From(t))
    <3>1. Inherits(t) /\ ~Shares(t) /\ Page(t) = FrameDescOf(pte[From(t)])
      BY <1>6, <2>3 DEF IsPrivate
    <3>2. PICK d \in FDs : d = Page(t) /\ From(t) \in fd[d].owners
      BY <1>1, <1>2, <3>1, FoundIsOwned DEF MemoryInv, Bookkeeping
    <3>3. t \in fd'[d].owners
      BY <1>3, <3>1, <3>2
    <3>4. Content(From(t)) = PageHolds(d)
      BY <1>2, <1>5, <2>3, <3>2, ContentIs DEF MemoryInv
    <3>5. Content(t)' = PageHolds(d)'
      BY <1>5, <2>1, <2>3, <3>3, ContentIsNext
    <3> QED BY <1>4, <2>1, <3>4, <3>5
  <2> QED BY <2>2, <2>3
<1>7. ASSUME NEW t \in Slot, t[1] # q PROVE Content(t)' = Content(t)
  <2>1. IsPrivate(t)' <=> IsPrivate(t)
    BY <1>2, <1>7 DEF IsPrivate
  <2>2. CASE ~IsPrivate(t)
    BY <2>1, <2>2, OutsideIsUnmapped, OutsideIsUnmappedNext
  <2>3. CASE IsPrivate(t)
    <3>1. PICK o \in FDs : t \in fd[o].owners
      BY <2>3, Owner DEF IsPrivate, MemoryInv
    <3>2. t \in fd'[o].owners
      BY <1>3, <3>1
    <3> QED BY <1>4, <1>5, <2>1, <2>3, <3>1, <3>2, ContentFollows DEF MemoryInv
  <2> QED BY <2>2, <2>3
<1>8. Storing = NoSlot /\ Storing' = Storing /\ op'.phase \notin Copies
  BY <1>1 DEF Storing, Copies
<1>9. Memory!Clone(p, q)
  <2>1. \A v \in VPages : <<q, v>> \in Slot /\ Content(<<q, v>>) = Unmapped
    BY <1>6 DEF Slot
  <2>2. [t \in Slot |-> Content(t)]' =
          [t \in Slot |-> IF t[1] = q THEN [u \in Slot |-> Content(u)][<<p, t[2]>>]
                          ELSE [u \in Slot |-> Content(u)][t]]
    BY <1>2, <1>6, <1>7
  <2> QED BY <1>1, <1>8, <2>1, <2>2 DEF Memory!Clone, Memory!Slot, Slot
<1>10. Memory!ASNext
  BY <1>1, <1>9 DEF Memory!ASNext
<1> QED BY <1>4, <1>8, <1>10, DataKept DEF MemoryInv

---------------------------------------------------------------------------
(* Every step.                                                             *)

LEMMA InitMemory == Init => MemoryInv /\ Memory!ASInit
<1> SUFFICES ASSUME Init PROVE MemoryInv /\ Memory!ASInit
  OBVIOUS
<1>1. PagesHoldData
  BY DEF Init, FMInit, BlankFD, IdleOp, PagesHoldData
<1>2. \A s \in Slot : Content(s) = Unmapped
  BY OutsideIsUnmapped DEF Init, IsPrivate
<1>3. Storing = NoSlot
  BY DEF Init, IdleOp, Storing
<1>4. Memory!ASInit
  BY <1>2, <1>3 DEF Memory!ASInit, Memory!Slot, Slot, Init, FMInit
<1> QED BY <1>1, <1>4, InitBookkeeping, InitCopying DEF MemoryInv

LEMMA NextMemory ==
  ASSUME MemoryInv, [Next]_vars, ~ReadMayFail
  PROVE  MemoryInv' /\ Memory!ASNext
<1> SUFFICES PagesHoldData' /\ Memory!ASNext
  BY NextBookkeeping, NextCopying DEF MemoryInv
<1>0. Bookkeeping'
  BY NextBookkeeping DEF MemoryInv
<1>1. CASE UNCHANGED vars
  BY <1>0, <1>1, StutterMemory DEF vars
<1>2. ASSUME NEW s \in Slot, NEW type \in Accesses, NEW w \in Values,
             Access(s, type, w)
      PROVE  PagesHoldData' /\ Memory!ASNext
  BY <1>0, <1>2, AccessMemory
<1>3. ASSUME NEW s \in Slot, NEW flags \in Flags,
             CreateSegment(s, flags) \/ \E w \in Images : LoadSegment(s, flags, w)
      PROVE  PagesHoldData' /\ Memory!ASNext
  BY <1>0, <1>3, NewSegmentMemory
<1>4. ASSUME NEW s \in Slot, NEW x \in SharedNames, NEW flags \in Flags,
             CreateSharedSegment(s, x, flags)
      PROVE  PagesHoldData' /\ Memory!ASNext
  BY <1>0, <1>4, CreateSharedSegmentMemory
<1>5. ASSUME NEW x \in SharedNames, DeleteSharedSegment(x)
      PROVE  PagesHoldData' /\ Memory!ASNext
  BY <1>0, <1>5, DeleteSharedSegmentMemory
<1>6. CASE Unload \/ \E s \in Slot : DeleteSegment(s)
  BY <1>0, <1>6, DeletionMemory
<1>7. ASSUME NEW p \in Procs, NEW q \in Procs, CloneProcess(p, q)
      PROVE  PagesHoldData' /\ Memory!ASNext
  BY <1>0, <1>7, CloneProcessMemory
<1>8. CASE \/ \E s \in Slot : DeleteNull(s)
           \/ \E p, q \in Procs : CloneNull(p, q)
           \/ TouchFree
  BY <1>0, <1>8, StutterMemory DEF DeleteNull, CloneNull, TouchFree, Crash
<1>9. CASE Retry
  BY <1>0, <1>9, RetryMemory
<1>10. CASE Touch
  BY <1>0, <1>10, TouchMemory
<1>11. CASE LoadFrame
  BY <1>0, <1>11, LoadFrameMemory
<1>12. CASE CopyOnWrite
  BY <1>0, <1>12, CopyOnWriteMemory
<1>13. CASE Fill
  BY <1>0, <1>13, FillMemory
<1>14. CASE Halted
  BY <1>1, <1>14 DEF Halted
<1> QED BY <1>1, <1>2, <1>3, <1>4, <1>5, <1>6, <1>7, <1>8, <1>9, <1>10, <1>11,
           <1>12, <1>13, <1>14
        DEF Next

---------------------------------------------------------------------------
(* The theorems: on a partition whose clusters can be read, whatever       *)
(* operations run, writes fail or the partition is full.                   *)

\* What a page shows was stored to it or is zeroes, never what a free or
\* another page's frame holds (loadFrameInVM, VMAllocator, pageFault).
THEOREM PagesAlwaysHoldData == ASSUME ~ReadMayFail PROVE Spec => []PagesHoldData
<1>1. Init => MemoryInv
  BY InitMemory
<1>2. MemoryInv /\ [Next]_vars => MemoryInv'
  BY NextMemory
<1>3. MemoryInv => PagesHoldData
  BY DEF MemoryInv
<1> QED BY <1>1, <1>2, <1>3, PTL DEF Spec

\* Paging implements AddressSpaces: a page changes only by its own process's
\* stores, and is lost only when the partition failed or is full.
THEOREM PagingImplementsMemory ==
  ASSUME ~ReadMayFail PROVE Spec => ImplementsAddressSpaces
<1>1. Init => MemoryInv /\ Memory!ASInit
  BY InitMemory
<1>2. MemoryInv /\ [Next]_vars => MemoryInv' /\ [Memory!ASNext]_(Memory!asVars)
  BY NextMemory
<1> QED BY <1>1, <1>2, PTL DEF Spec, ImplementsAddressSpaces, Memory!ASSpec

===========================================================================
