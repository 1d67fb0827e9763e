--------------------------- MODULE PagingProofs ---------------------------
(***************************************************************************)
(* Theorems about Paging, for every value of its constants.                *)
(***************************************************************************)
EXTENDS PagingProperties, TLAPS, FiniteSetTheorems

---------------------------------------------------------------------------
(* Type correctness, one lemma per part of the model.                      *)

\* A frame number is one of Frames, and so is the clock hand's next position.
LEMMA FrameNumbers ==
  /\ 0 \in Frames
  /\ \A f \in Frames : NextHand(f) \in Frames
<1>1. 0 \in Frames
  BY FramesAssumption DEF Frames
<1>2. ASSUME NEW f \in Frames PROVE NextHand(f) \in Frames
  <2>1. f + 1 \in Nat /\ NumFrames \in Nat \ {0}
    BY <1>2, FramesAssumption DEF Frames
  <2>2. (f + 1) % NumFrames \in 0 .. (NumFrames - 1)
    BY <2>1, SMT
  <2> QED BY <2>2 DEF NextHand, Frames
<1> QED BY <1>1, <1>2

\* The constants from which operations start anew have their types.
LEMMA Blanks == BlankPTE \in PTE /\ BlankFD \in FD /\ IdleOp \in Ops
<1>1. BlankPTE \in PTE
  BY FrameNumbers DEF BlankPTE, PTE
<1>2. BlankFD \in FD
  BY FrameNumbers DEF BlankFD, FD
<1>3. IdleOp \in Ops
  BY <1>1, FrameNumbers, ValuesAssumption DEF IdleOp, Ops, Phases, AccessTypes
<1> QED BY <1>1, <1>2, <1>3

\* frameDescFromPMT2Desc returns a descriptor's address or null.
LEMMA FrameDescOfType ==
  ASSUME FMTypeOK, NEW e \in PTE
  PROVE  FrameDescOf(e) \in FDs \cup {NoFD}
BY DEF FMTypeOK, FrameDescOf, PTE

LEMMA InitType == Init => TypeOK
<1> SUFFICES ASSUME Init PROVE TypeOK
  OBVIOUS
<1>1. FMTypeOK
  BY Blanks, FrameNumbers, ValuesAssumption DEF Init, FMInit, FMTypeOK
<1>2. PagingTypeOK
  BY Blanks DEF Init, PagingTypeOK, IdleOp
<1> QED BY <1>1, <1>2 DEF TypeOK

\* Reading and writing a right.
LEMMA RightsType ==
  ASSUME NEW e \in PTE
  PROVE  SetCopyOnWrite(e) \in PTE /\ ResetCopyOnWrite(e) \in PTE
BY DEF SetCopyOnWrite, ResetCopyOnWrite, PTE

\* The entries that access and loadFrameInVM write.
LEMMA EntriesType ==
  ASSUME NEW e \in PTE
  PROVE  /\ \A type : Accessed(e, type) \in PTE
         /\ \A f \in Frames, fresh \in BOOLEAN : Arrived(e, f, fresh) \in PTE
         /\ NoReference(e) \in PTE
BY DEF Accessed, IsWrite, Arrived, NoReference, PTE

LEMMA FreshType ==
  ASSUME NEW flags, NEW d \in FDs
  PROVE  FreshPTE(flags, d) \in PTE
<1> DEFINE r == CanBeRead(flags)
           w == CanBeWritten(flags)
           x == CanBeExecuted(flags)
<1>1. r \in BOOLEAN /\ w \in BOOLEAN /\ x \in BOOLEAN
  BY DEF CanBeRead, CanBeWritten, CanBeExecuted
<1> HIDE DEF r, w, x
<1>2. [BlankPTE EXCEPT !.read = r, !.write = w, !.execute = x,
                       !.diskFrameNum = d] \in PTE
  BY <1>1, Blanks DEF PTE
<1> QED BY <1>2 DEF FreshPTE, r, w, x

\* The clock's sweep leaves a page table.
LEMMA SweptType ==
  ASSUME FMTypeOK, NEW passed
  PROVE  SweptPTE(passed) \in [Slot -> PTE]
BY EntriesType DEF FMTypeOK, SweptPTE

\* Taking the victim out of memory keeps the types, whatever is kept of it.
LEMMA PageOutType ==
  ASSUME FMTypeOK, NEW d, NEW victim \in Frames, NEW passed,
         NEW c \in Clusters \cup {NoCluster}, NEW clean \in BOOLEAN,
         PageOut(d, victim, passed, c, clean)
  PROVE  /\ pte' \in [Slot -> PTE] /\ fd' \in [FDs -> FD]
         /\ vmFree' \in SUBSET Frames
         /\ vmDescriptors' \in [Frames -> FDs \cup {NoFD}]
         /\ mem' \in [Frames -> Values \cup {Link}]
         /\ clockHand' \in Frames
<1> DEFINE swept == SweptPTE(passed)
           Out(e) == [e EXCEPT
             !.vmValid = FALSE, !.vmFrameNum = 0,
             !.diskValid = @ \/ c # NoCluster,
             !.diskFrameNum = IF c # NoCluster THEN c ELSE @,
             !.dirty = @ /\ ~clean]
           leaving == [fd[d] EXCEPT
             !.vmValid = FALSE, !.vmFrameNum = 0,
             !.diskValid = @ \/ c # NoCluster,
             !.diskFrameNum = IF c # NoCluster THEN c ELSE @]
<1>1. ASSUME NEW e \in PTE PROVE Out(e) \in PTE
  <2> DEFINE saved == e.diskValid \/ c # NoCluster
             place == IF c # NoCluster THEN c ELSE e.diskFrameNum
             kept  == e.dirty /\ ~clean
  <2>1. /\ saved \in BOOLEAN /\ kept \in BOOLEAN
        /\ place \in Clusters \cup FDs \cup {NoCluster}
    BY DEF PTE
  <2> HIDE DEF saved, place, kept
  <2>2. [e EXCEPT !.vmValid = FALSE, !.vmFrameNum = 0, !.diskValid = saved,
                  !.diskFrameNum = place, !.dirty = kept] \in PTE
    BY <2>1, FrameNumbers DEF PTE
  <2> QED BY <2>2 DEF saved, place, kept
<1>2. pte' \in [Slot -> PTE]
  <2>1. pte' = [s \in Slot |-> IF s \in fd[d].owners THEN Out(swept[s]) ELSE swept[s]]
    BY DEF PageOut
  <2>2. swept \in [Slot -> PTE]
    BY SweptType
  <2> HIDE DEF Out, swept
  <2> QED BY <1>1, <2>1, <2>2
<1>3. fd' \in [FDs -> FD]
  <2>1. ASSUME d \in FDs PROVE leaving \in FD
    <3> DEFINE saved == fd[d].diskValid \/ c # NoCluster
               place == IF c # NoCluster THEN c ELSE fd[d].diskFrameNum
    <3>1. /\ saved \in BOOLEAN /\ place \in Clusters \cup {NoCluster}
          /\ saved => place \in Clusters
      BY <2>1 DEF FMTypeOK, FD
    <3>2. fd[d] \in FD
      BY <2>1 DEF FMTypeOK
    <3> HIDE DEF saved, place
    <3>3. [fd[d] EXCEPT !.vmValid = FALSE, !.vmFrameNum = 0,
                        !.diskValid = saved, !.diskFrameNum = place] \in FD
      BY <3>1, <3>2, FrameNumbers DEF FD
    <3> QED BY <3>3 DEF saved, place
  <2>2. fd' = [fd EXCEPT ![d] = leaving]
    BY DEF PageOut
  <2> HIDE DEF leaving
  <2> QED BY <2>1, <2>2 DEF FMTypeOK
<1> QED BY <1>2, <1>3, FrameNumbers DEF PageOut, FMTypeOK

\* Every outcome of an eviction keeps the types.
LEMMA EvictType == FMTypeOK /\ Evict => FMTypeOK'
<1> SUFFICES ASSUME FMTypeOK, Evict PROVE FMTypeOK'
  OBVIOUS
<1>1. PICK victim \in Frames, passed \in SUBSET Frames :
        LET d == vmDescriptors[victim]
        IN  \/ SaveToNewCluster(d, victim, passed)
            \/ DropUnsaved(d, victim, passed)
            \/ SaveToOwnCluster(d, victim, passed)
  BY DEF Evict
<1> DEFINE d == vmDescriptors[victim]
<1>0. d \in FDs \cup {NoFD}
  BY DEF FMTypeOK
<1> HIDE DEF d
<1>2. \A c : Written(c, victim) \in [Clusters -> Values \cup {Link}]
             /\ Filed(c, d) \in [Clusters -> FDs \cup {NoFD}]
  BY <1>0 DEF FMTypeOK, Written, Filed
<1>3. CASE SaveToNewCluster(d, victim, passed)
  <2>1. PICK c \in clusterFree : /\ clusterFree' = clusterFree \ {c}
                                 /\ disk' = Written(c, victim)
                                 /\ clusterDescriptors' = Filed(c, d)
                                 /\ PageOut(d, victim, passed, c, FALSE)
    BY <1>3 DEF SaveToNewCluster
  <2>2. c \in Clusters
    BY DEF FMTypeOK
  <2>3. failing' \in BOOLEAN
    BY <1>3 DEF SaveToNewCluster
  <2>4. clusterFree' \in SUBSET Clusters
    BY <2>1 DEF FMTypeOK
  <2> QED BY <2>1, <2>2, <2>3, <2>4, <1>2, PageOutType DEF FMTypeOK
<1>4. CASE DropUnsaved(d, victim, passed)
  BY <1>4, PageOutType DEF DropUnsaved, FMTypeOK
<1>5. CASE SaveToOwnCluster(d, victim, passed)
  <2>1. /\ \E clean \in BOOLEAN : PageOut(d, victim, passed, NoCluster, clean)
        /\ failing' \in BOOLEAN
        /\ disk' = disk \/ disk' = Written(fd[d].diskFrameNum, victim)
    BY <1>5 DEF SaveToOwnCluster
  <2>2. disk' \in [Clusters -> Values \cup {Link}]
    BY <2>1, <1>2 DEF FMTypeOK
  <2>3. /\ clusterDescriptors' \in [Clusters -> FDs \cup {NoFD}]
        /\ clusterFree' \in SUBSET Clusters
    BY <1>5, <1>2 DEF SaveToOwnCluster, FMTypeOK
  <2>4. PICK clean \in BOOLEAN : PageOut(d, victim, passed, NoCluster, clean)
    BY <2>1
  <2>5. failing' \in BOOLEAN
    BY <2>1
  <2>6. /\ pte' \in [Slot -> PTE] /\ fd' \in [FDs -> FD]
        /\ vmFree' \in SUBSET Frames
        /\ vmDescriptors' \in [Frames -> FDs \cup {NoFD}]
        /\ mem' \in [Frames -> Values \cup {Link}]
        /\ clockHand' \in Frames
    BY <2>4, PageOutType
  <2> QED BY <2>2, <2>3, <2>5, <2>6 DEF FMTypeOK
<1> QED BY <1>1, <1>3, <1>4, <1>5 DEF d

LEMMA EvictFailsType == FMTypeOK /\ EvictFails => FMTypeOK'
BY FrameNumbers, SweptType DEF EvictFails, FMTypeOK

LEMMA PlaceType ==
  ASSUME FMTypeOK, NEW s \in Slot, Place(s)
  PROVE  FMTypeOK'
<1> DEFINE d == FrameDescOf(pte[s])
<1>1. d \in FDs
  BY FrameDescOfType DEF Place, FMTypeOK
<1> HIDE DEF d
<1>2. PICK f \in vmFree :
        /\ vmFree' = vmFree \ {f}
        /\ vmDescriptors' = [vmDescriptors EXCEPT ![f] = d]
        /\ fd' = [fd EXCEPT ![d].vmValid = TRUE, ![d].vmFrameNum = f]
        /\ pte' = [t \in Slot |->
             IF t \in fd[d].owners
               THEN Arrived(pte[t], f, ~fd[d].diskValid) ELSE pte[t]]
        /\ mem' = [mem EXCEPT ![f] = IF fd[d].diskValid
                                       THEN disk[fd[d].diskFrameNum]
                                       ELSE Zero]
  BY DEF Place, Fetched, d
<1>3. f \in Frames /\ fd[d] \in FD /\ fd[d].diskValid \in BOOLEAN
  BY <1>1 DEF FMTypeOK, FD
<1>4. fd' \in [FDs -> FD]
  <2>1. [fd[d] EXCEPT !.vmValid = TRUE, !.vmFrameNum = f] \in FD
    BY <1>3 DEF FD
  <2> QED BY <1>2, <2>1 DEF FMTypeOK
<1>5. pte' \in [Slot -> PTE]
  BY <1>2, <1>3, EntriesType DEF FMTypeOK
<1>6. mem' \in [Frames -> Values \cup {Link}]
  <2>1. fd[d].diskValid => disk[fd[d].diskFrameNum] \in Values \cup {Link}
    BY <1>3 DEF FMTypeOK, FD
  <2> QED BY <1>2, <2>1, ValuesAssumption DEF FMTypeOK
<1> QED BY <1>1, <1>2, <1>3, <1>4, <1>5, <1>6 DEF Place, FMTypeOK

LEMMA PlaceFailsType ==
  ASSUME FMTypeOK, NEW s \in Slot, PlaceFails(s)
  PROVE  FMTypeOK'
<1> DEFINE d == FrameDescOf(pte[s])
<1>1. d \in FDs
  BY FrameDescOfType DEF PlaceFails, FMTypeOK
<1>2. PICK f \in vmFree :
        /\ vmDescriptors' = [vmDescriptors EXCEPT ![f] = NoFD]
        /\ pte' = [t \in Slot |-> RolledBack(t, s, d, f)]
  BY DEF PlaceFails
<1>3. f \in Frames
  BY DEF FMTypeOK
<1>4. pte' \in [Slot -> PTE]
  <2>1. SUFFICES ASSUME NEW t \in Slot
                 PROVE  RolledBack(t, s, d, f) \in PTE
    BY <1>2
  <2>2. pte[t] \in PTE /\ 0 \in Frames
    BY FramesAssumption DEF FMTypeOK, Frames
  <2>3. [pte[t] EXCEPT !.vmValid = TRUE, !.vmFrameNum = f] \in PTE
    BY <1>3, <2>2 DEF PTE
  <2>4. [pte[t] EXCEPT !.vmValid = FALSE, !.vmFrameNum = 0] \in PTE
    BY <2>2 DEF PTE
  <2> QED BY <2>2, <2>3, <2>4 DEF RolledBack
<1>5. fd' \in [FDs -> FD]
  <2>1. fd' = [fd EXCEPT ![d].owners = @ \ {s}, ![d].vmValid = FALSE,
                         ![d].vmFrameNum = 0]
    BY DEF PlaceFails
  <2>2. PICK new : new = [fd[d] EXCEPT !.owners = @ \ {s}, !.vmValid = FALSE,
                                       !.vmFrameNum = 0]
    OBVIOUS
  <2>3. fd' = [fd EXCEPT ![d] = new]
    BY <1>1, <2>1, <2>2 DEF FMTypeOK
  <2>4. 0 \in Frames
    BY FramesAssumption DEF Frames
  <2> HIDE DEF d
  <2>5. new \in FD
    <3>1. fd[d] \in FD
      BY <1>1 DEF FMTypeOK
    <3> QED BY <2>2, <2>4, <3>1 DEF FD
  <2> QED BY <1>1, <2>3, <2>5 DEF FMTypeOK
<1>6. clusterDescriptors' \in [Clusters -> FDs \cup {NoFD}]
  BY <1>1 DEF PlaceFails, Filed, FMTypeOK
<1> QED BY <1>2, <1>4, <1>5, <1>6 DEF PlaceFails, FMTypeOK

LEMMA ReleaseType ==
  ASSUME FMTypeOK, NEW d \in FDs, ReleaseFD(d)
  PROVE  /\ fd' \in [FDs -> FD] /\ vmFree' \in SUBSET Frames
         /\ mem' \in [Frames -> Values \cup {Link}]
         /\ clusterFree' \in SUBSET Clusters
         /\ disk' \in [Clusters -> Values \cup {Link}]
         /\ UNCHANGED <<vmDescriptors, clusterDescriptors, clockHand>>
         /\ failing' = FALSE
<1>1. fd[d] \in FD
  BY DEF FMTypeOK
<1>2. fd[d].vmFrameNum \in Frames /\ (fd[d].diskValid => fd[d].diskFrameNum \in Clusters)
  BY <1>1 DEF FD
<1> QED BY <1>2, Blanks, ValuesAssumption
        DEF ReleaseFD, FreedFrame, FreedCluster, FMTypeOK

LEMMA RemoveOwnerType ==
  ASSUME FMTypeOK, NEW s \in Slot, NEW d \in FDs, RemoveOwner(s, d)
  PROVE  FMTypeOK'
<1>1. pte' \in [Slot -> PTE]
  BY Blanks DEF RemoveOwner, FMTypeOK
<1>2. CASE ReleaseFD(d)
  BY <1>1, <1>2, ReleaseType DEF FMTypeOK
<1>3. CASE ~ReleaseFD(d)
  <2>1. [fd[d] EXCEPT !.owners = @ \ {s}] \in FD
    BY DEF FMTypeOK, FD
  <2>2. /\ fd' = [fd EXCEPT ![d].owners = fd[d].owners \ {s}]
        /\ failing' = FALSE
        /\ UNCHANGED <<vmFree, vmDescriptors, clusterFree,
                       clusterDescriptors, clockHand, mem, disk>>
    BY <1>3 DEF RemoveOwner
  <2> QED BY <1>1, <2>1, <2>2 DEF FMTypeOK
<1> QED BY <1>2, <1>3

---------------------------------------------------------------------------
(* Type correctness of the operations.                                     *)

\* An operation that is running works on a slot.
LEMMA OpType ==
  ASSUME TypeOK
  PROVE  /\ op \in Ops
         /\ op.phase # "idle" => op.slot \in Slot /\ pte[op.slot] \in PTE
         /\ op.frame \in Frames
BY DEF TypeOK, FMTypeOK, PagingTypeOK, Ops

\* Finish and Goto leave a well-formed operation.
LEMMA FinishType == Finish => op' \in Ops /\ op'.phase = "idle"
BY Blanks DEF Finish, IdleOp

LEMMA GotoType ==
  ASSUME TypeOK, op.phase # "idle", NEW to \in Phases, Goto(to)
  PROVE  op' \in Ops /\ op'.slot \in Slot
BY OpType DEF Goto, Ops

LEMMA CrashType == TypeOK /\ Crash => TypeOK'
BY DEF Crash, fmVars, TypeOK, FMTypeOK, PagingTypeOK

LEMMA AccessType ==
  ASSUME TypeOK, NEW s \in Slot, NEW type \in Accesses, NEW w \in Values,
         Access(s, type, w)
  PROVE  TypeOK'
<1>1. pte' \in [Slot -> PTE]
  BY EntriesType DEF Access, TypeOK, FMTypeOK
<1>2. op' \in Ops /\ op'.slot \in Slot
  BY OpType, AccessAssumption DEF Access, Ops, Phases
<1> QED BY <1>1, <1>2 DEF Access, TypeOK, FMTypeOK, PagingTypeOK

LEMMA RetryType == TypeOK /\ Retry => TypeOK'
<1> SUFFICES ASSUME TypeOK, Retry PROVE TypeOK'
  OBVIOUS
<1>0. op.phase # "idle"
  BY DEF Retry, In
<1>1. pte' \in [Slot -> PTE]
  BY <1>0, OpType, EntriesType DEF Retry, TypeOK, FMTypeOK
<1>2. op' \in Ops /\ op'.slot \in Slot
  BY <1>0, GotoType DEF Retry, Phases
<1> QED BY <1>1, <1>2 DEF Retry, TypeOK, FMTypeOK, PagingTypeOK

LEMMA TouchType == TypeOK /\ Touch => TypeOK'
<1> SUFFICES ASSUME TypeOK, Touch PROVE TypeOK'
  OBVIOUS
<1>1. mem' \in [Frames -> Values \cup {Link}]
  BY OpType DEF Touch, TypeOK, FMTypeOK, Ops
<1>2. op' \in Ops /\ op'.phase = "idle"
  BY FinishType DEF Touch
<1> QED BY <1>1, <1>2 DEF Touch, TypeOK, FMTypeOK, PagingTypeOK

\* What follows a load.
LEMMA LoadedType ==
  ASSUME TypeOK, Loading, NEW e \in PTE, Loaded(e)
  PROVE  op' \in Ops /\ (op'.phase # "idle" => op'.slot \in Slot)
<1>1. op.phase # "idle"
  BY DEF Loading
<1>2. CASE AfterLoad(e) = "idle"
  BY <1>2, Blanks DEF Loaded, IdleOp
<1>3. CASE AfterLoad(e) # "idle"
  <2>1. AfterLoad(e) \in Phases /\ e.vmFrameNum \in Frames
    BY DEF Loading, AfterLoad, Phases, PTE
  <2>2. op' = [op EXCEPT !.phase = AfterLoad(e), !.frame = e.vmFrameNum]
    BY <1>3 DEF Loaded
  <2> QED BY <1>1, <2>1, <2>2, OpType DEF Ops
<1> QED BY <1>2, <1>3

LEMMA NotLoadedType ==
  ASSUME TypeOK, Loading, NotLoaded
  PROVE  op' \in Ops /\ (op'.phase # "idle" => op'.slot \in Slot)
BY FinishType, GotoType DEF Loading, NotLoaded, Phases

LEMMA LoadFrameType == TypeOK /\ LoadFrame => TypeOK'
<1> SUFFICES ASSUME TypeOK, LoadFrame PROVE TypeOK'
  OBVIOUS
<1>1. CASE LoadResident
  <2>1. pte[op.slot] \in PTE
    BY <1>1, OpType DEF LoadResident, Loading
  <2>2. op' \in Ops /\ (op'.phase # "idle" => op'.slot \in Slot)
    BY <1>1, <2>1, LoadedType DEF LoadResident
  <2> QED BY <1>1, <2>2 DEF LoadResident, TypeOK, FMTypeOK, PagingTypeOK
<1>2. CASE LoadEvict
  BY <1>2, EvictType DEF LoadEvict, TypeOK, PagingTypeOK
<1>3. CASE LoadEvictFails
  <2>1. op' \in Ops /\ (op'.phase # "idle" => op'.slot \in Slot)
    BY <1>3, NotLoadedType DEF LoadEvictFails, Absent
  <2> QED BY <1>3, <2>1, EvictFailsType DEF LoadEvictFails, TypeOK, PagingTypeOK
<1>4. CASE LoadPlace
  <2>1. op.slot \in Slot
    BY <1>4, OpType DEF LoadPlace, Absent, Loading
  <2>2. FMTypeOK'
    BY <1>4, <2>1, PlaceType DEF LoadPlace, TypeOK
  <2>3. pte'[op.slot] \in PTE
    BY <2>1, <2>2 DEF FMTypeOK
  <2>4. op' \in Ops /\ (op'.phase # "idle" => op'.slot \in Slot)
    BY <1>4, <2>3, LoadedType DEF LoadPlace, Absent
  <2> QED BY <1>4, <2>2, <2>4 DEF LoadPlace, TypeOK, PagingTypeOK
<1>5. CASE LoadPlaceFails
  <2>1. op.slot \in Slot
    BY <1>5, OpType DEF LoadPlaceFails, Absent, Loading
  <2>2. FMTypeOK'
    BY <1>5, <2>1, PlaceFailsType DEF LoadPlaceFails, TypeOK
  <2>3. op' \in Ops /\ (op'.phase # "idle" => op'.slot \in Slot)
    BY <1>5, NotLoadedType DEF LoadPlaceFails, Absent
  <2> QED BY <1>5, <2>2, <2>3 DEF LoadPlaceFails, TypeOK, PagingTypeOK
<1>6. CASE LoadEvictCrashes \/ LoadNull
  BY <1>6, CrashType DEF LoadEvictCrashes, LoadNull
<1> QED BY <1>1, <1>2, <1>3, <1>4, <1>5, <1>6 DEF LoadFrame

\* The heap address that `new' returns.
LEMMA NewFDFact == HeapHasRoom => NewFD \in FDs /\ Unused(NewFD)
BY DEF HeapHasRoom, NewFD

LEMMA CopyOnWriteType == TypeOK /\ CopyOnWrite => TypeOK'
<1> SUFFICES ASSUME TypeOK, CopyOnWrite PROVE TypeOK'
  OBVIOUS
<1>1. CASE CowDetach
  <2> DEFINE s == op.slot
             parent == FrameDescOf(pte[s])
             rest == fd[parent].owners \ {s}
             child == NewFD
             detached == [ResetCopyOnWrite(pte[s]) EXCEPT
                            !.vmValid = FALSE, !.vmFrameNum = 0,
                            !.diskValid = FALSE, !.diskFrameNum = child]
  <2>1. s \in Slot /\ pte[s] \in PTE /\ op.phase # "idle"
    BY <1>1, OpType DEF CowDetach, In
  <2>2. parent \in FDs /\ child \in FDs
    BY <1>1, <2>1, FrameDescOfType, NewFDFact DEF CowDetach, TypeOK
  <2>3. pte' \in [Slot -> PTE]
    <3>1. ResetCopyOnWrite(pte[s]) \in PTE
      BY <2>1, RightsType
    <3>2. detached \in PTE
      BY <2>2, <3>1, FrameNumbers DEF PTE
    <3>3. pte' = [t \in Slot |->
             IF t = s THEN detached
             ELSE IF SoleOwner(rest, t) THEN ResetCopyOnWrite(pte[t])
             ELSE pte[t]]
      BY <1>1 DEF CowDetach
    <3> HIDE DEF detached, rest, s
    <3> QED BY <3>2, <3>3, RightsType DEF TypeOK, FMTypeOK
  <2>4. fd' \in [FDs -> FD]
    <3>1. [fd[parent] EXCEPT !.owners = rest] \in FD
      BY <2>2 DEF TypeOK, FMTypeOK, FD
    <3>2. [BlankFD EXCEPT !.owners = {s}] \in FD
      BY <2>1, Blanks DEF FD
    <3>3. fd' = [fd EXCEPT ![parent].owners = rest,
                           ![child] = [BlankFD EXCEPT !.owners = {s}]]
      BY <1>1 DEF CowDetach
    <3> HIDE DEF parent, child, rest, s
    <3> QED BY <2>2, <3>1, <3>2, <3>3 DEF TypeOK, FMTypeOK
  <2>5. op' \in Ops /\ op'.slot \in Slot
    <3>1. mem[op.frame] \in Values \cup {Link}
      BY OpType DEF TypeOK, FMTypeOK
    <3> DEFINE shared == Cardinality(fd[parent].owners) > 1
               read == mem[op.frame]
    <3>2. op' = [op EXCEPT
                   !.phase = "cowload", !.buffer = read, !.parent = parent,
                   !.child = child, !.backup = pte[s], !.wasShared = shared]
      BY <1>1 DEF CowDetach
    <3>3. shared \in BOOLEAN
      OBVIOUS
    <3> HIDE DEF parent, child, shared, read
    <3>4. op' \in Ops
      BY <2>1, <2>2, <3>1, <3>2, <3>3, OpType DEF Ops, Phases, read
    <3>5. op'.slot = s
      BY <3>2, OpType DEF Ops
    <3> QED BY <2>1, <3>4, <3>5
  <2> QED BY <1>1, <2>3, <2>4, <2>5 DEF CowDetach, TypeOK, FMTypeOK, PagingTypeOK
<1>2. CASE DetachNull
  BY <1>2, CrashType DEF DetachNull
<1>3. CASE CowCopy
  <2>1. mem' \in [Frames -> Values \cup {Link}]
    BY <1>3, OpType DEF CowCopy, TypeOK, FMTypeOK, Ops
  <2>2. op' \in Ops /\ op'.slot \in Slot
    BY <1>3, OpType, Blanks, ValuesAssumption DEF CowCopy, In, Ops, Phases
  <2> QED BY <1>3, <2>1, <2>2 DEF CowCopy, TypeOK, FMTypeOK, PagingTypeOK
<1>4. CASE CowRollback
  <2> DEFINE s == op.slot
             d == op.parent
             owners == fd[d].owners \cup {s}
             restored == [pte EXCEPT ![s] = op.backup]
  <2>1. s \in Slot
    BY <1>4, OpType DEF CowRollback, In
  <2>2. pte' \in [Slot -> PTE]
    <3>1. restored \in [Slot -> PTE]
      BY OpType DEF TypeOK, FMTypeOK, Ops
    <3>2. pte' = [t \in Slot |->
             IF op.wasShared /\ t \in owners
               THEN SetCopyOnWrite(restored[t]) ELSE restored[t]]
      BY <1>4 DEF CowRollback
    <3> HIDE DEF restored, owners
    <3> QED BY <3>1, <3>2, RightsType
  <2>3. fd' \in [FDs -> FD]
    <3>1. fd' = [[fd EXCEPT ![op.child] = BlankFD] EXCEPT ![d].owners = owners]
      BY <1>4 DEF CowRollback
    <3>2. [fd EXCEPT ![op.child] = BlankFD] \in [FDs -> FD]
      BY Blanks DEF TypeOK, FMTypeOK
    <3>3. d \in FDs => owners \in SUBSET Slot
      BY <2>1 DEF TypeOK, FMTypeOK, FD
    <3> DEFINE g == [fd EXCEPT ![op.child] = BlankFD]
    <3>4. d \in FDs => [g[d] EXCEPT !.owners = owners] \in FD
      <4> HIDE DEF owners, g, d
      <4>1. d \in FDs => g[d] \in FD
        BY <3>2 DEF g
      <4> QED BY <3>3, <4>1 DEF FD
    <3>5. fd' = [g EXCEPT ![d].owners = owners]
      BY <3>1
    <3> HIDE DEF owners, g, d
    <3> QED BY <3>2, <3>4, <3>5 DEF g
  <2>4. op' \in Ops /\ op'.phase = "idle"
    BY <1>4, FinishType DEF CowRollback
  <2> QED BY <1>4, <2>2, <2>3, <2>4 DEF CowRollback, TypeOK, FMTypeOK, PagingTypeOK
<1> QED BY <1>1, <1>2, <1>3, <1>4 DEF CopyOnWrite

LEMMA AllocateNewSegmentType ==
  ASSUME TypeOK, NEW s \in Slot, NEW flags \in Flags, AllocateNewSegment(s, flags)
  PROVE  /\ FMTypeOK'
         /\ segment' \in [Slot -> Segments \cup {NoSegment}]
         /\ sharedFD' \in [SharedNames -> FDs \cup {NoFD}]
         /\ crashed' \in BOOLEAN
<1> DEFINE d == NewFD
<1>1. d \in FDs
  BY NewFDFact DEF AllocateNewSegment
<1>2. FreshPTE(flags, d) \in PTE /\ [BlankFD EXCEPT !.owners = {s}] \in FD
  BY <1>1, FreshType, Blanks DEF FD
<1>3. /\ pte' = [pte EXCEPT ![s] = FreshPTE(flags, d)]
      /\ fd' = [fd EXCEPT ![d] = [BlankFD EXCEPT !.owners = {s}]]
      /\ segment' = [segment EXCEPT ![s] = [flags |-> flags, name |-> Private]]
      /\ failing' = FALSE
      /\ UNCHANGED <<vmFree, vmDescriptors, clusterFree, clusterDescriptors,
                     clockHand, mem, disk, sharedFD, crashed>>
  BY DEF AllocateNewSegment
<1>4. [flags |-> flags, name |-> Private] \in Segments
  BY DEF Segments
<1> HIDE DEF d
<1>5. /\ pte' \in [Slot -> PTE] /\ fd' \in [FDs -> FD]
      /\ segment' \in [Slot -> Segments \cup {NoSegment}]
  BY <1>1, <1>2, <1>3, <1>4 DEF TypeOK, FMTypeOK, PagingTypeOK
<1> QED BY <1>3, <1>5 DEF TypeOK, FMTypeOK, PagingTypeOK

LEMMA CreateSegmentType ==
  ASSUME TypeOK, NEW s \in Slot, NEW flags \in Flags, CreateSegment(s, flags)
  PROVE  TypeOK'
BY AllocateNewSegmentType DEF CreateSegment, TypeOK, PagingTypeOK

LEMMA LoadSegmentType ==
  ASSUME TypeOK, NEW s \in Slot, NEW flags \in Flags, NEW w \in Images,
         LoadSegment(s, flags, w)
  PROVE  TypeOK'
<1>1. op' \in Ops /\ op'.slot \in Slot
  BY OpType, ImagesAssumption DEF LoadSegment, Ops, Phases
<1> QED BY <1>1, AllocateNewSegmentType DEF LoadSegment, TypeOK, PagingTypeOK

LEMMA FillType == TypeOK /\ Fill => TypeOK'
<1> SUFFICES ASSUME TypeOK, Fill PROVE TypeOK'
  OBVIOUS
<1>1. op.slot \in Slot /\ pte[op.slot] \in PTE
  BY OpType DEF Fill, In
<1>2. pte' \in [Slot -> PTE]
  <2>1. [pte[op.slot] EXCEPT !.dirty = TRUE] \in PTE
    BY <1>1 DEF PTE
  <2> QED BY <1>1, <2>1 DEF Fill, TypeOK, FMTypeOK
<1>3. mem' \in [Frames -> Values \cup {Link}]
  BY OpType DEF Fill, TypeOK, FMTypeOK, Ops
<1>4. op' \in Ops /\ op'.phase = "idle"
  BY FinishType DEF Fill
<1> QED BY <1>2, <1>3, <1>4 DEF Fill, TypeOK, FMTypeOK, PagingTypeOK

LEMMA DeleteSegmentImplType ==
  ASSUME TypeOK, NEW s \in Slot, DeleteSegmentImpl(s)
  PROVE  /\ FMTypeOK'
         /\ segment' \in [Slot -> Segments \cup {NoSegment}]
         /\ sharedFD' \in [SharedNames -> FDs \cup {NoFD}]
         /\ crashed' \in BOOLEAN
<1>1. FrameDescOf(pte[s]) \in FDs
  BY FrameDescOfType DEF DeleteSegmentImpl, TypeOK, FMTypeOK
<1>2. FMTypeOK'
  BY <1>1, RemoveOwnerType DEF DeleteSegmentImpl, TypeOK
<1> QED BY <1>2 DEF DeleteSegmentImpl, TypeOK, PagingTypeOK

LEMMA DeleteSegmentType ==
  ASSUME TypeOK, NEW s \in Slot, DeleteSegment(s)
  PROVE  TypeOK'
BY DeleteSegmentImplType DEF DeleteSegment, TypeOK, PagingTypeOK

LEMMA UnloadType == TypeOK /\ Unload => TypeOK'
<1> SUFFICES ASSUME TypeOK, Unload PROVE TypeOK'
  OBVIOUS
<1>1. op.slot \in Slot
  BY OpType DEF Unload, In
<1>2. op' \in Ops /\ op'.phase = "idle"
  BY FinishType DEF Unload
<1> QED BY <1>1, <1>2, DeleteSegmentImplType DEF Unload, TypeOK, PagingTypeOK

\* The entry of a page that is attached, or inherited by a clone.
LEMMA AttachedType ==
  ASSUME FMTypeOK, NEW flags, NEW d \in FDs
  PROVE  /\ AttachedPTE(flags, d) \in PTE
         /\ \A e \in PTE : ClonedPTE(flags, e, d) \in PTE
<1>1. fd[d] \in FD /\ FreshPTE(flags, d) \in PTE
  BY FreshType DEF FMTypeOK
<1> DEFINE dirty == GetDirty(d)
           referenced == GetReferenceBit(d)
<1>2. dirty \in BOOLEAN /\ referenced \in BOOLEAN
  BY DEF GetDirty, GetReferenceBit
<1>3. AttachedPTE(flags, d) =
        [FreshPTE(flags, d) EXCEPT
           !.vmValid = fd[d].vmValid, !.vmFrameNum = fd[d].vmFrameNum,
           !.diskValid = fd[d].diskValid,
           !.diskFrameNum = IF fd[d].vmValid \/ fd[d].diskValid
                              THEN fd[d].diskFrameNum ELSE d,
           !.dirty = dirty, !.referenceBit = referenced]
  BY DEF AttachedPTE
<1>4. ASSUME NEW e \in PTE PROVE ClonedPTE(flags, e, d) \in PTE
  <2>1. ClonedPTE(flags, e, d) =
          [FreshPTE(flags, d) EXCEPT
             !.vmValid = fd[d].vmValid, !.vmFrameNum = e.vmFrameNum,
             !.diskValid = fd[d].diskValid, !.diskFrameNum = e.diskFrameNum,
             !.dirty = dirty, !.referenceBit = referenced,
             !.copyOnWrite = e.copyOnWrite]
    BY DEF ClonedPTE
  <2> HIDE DEF dirty, referenced
  <2> QED BY <1>1, <1>2, <2>1 DEF PTE, FD
<1> HIDE DEF dirty, referenced
<1>5. AttachedPTE(flags, d) \in PTE
  <2> DEFINE where == IF fd[d].vmValid \/ fd[d].diskValid
                        THEN fd[d].diskFrameNum ELSE d
  <2>1. where \in Clusters \cup FDs \cup {NoCluster}
    BY <1>1 DEF FD
  <2> HIDE DEF where
  <2> QED BY <1>1, <1>2, <1>3, <2>1 DEF PTE, FD, where
<1> QED BY <1>4, <1>5

LEMMA CreateSharedSegmentType ==
  ASSUME TypeOK, NEW s \in Slot, NEW x \in SharedNames, NEW flags \in Flags,
         CreateSharedSegment(s, x, flags)
  PROVE  TypeOK'
<1> DEFINE d == IF sharedFD[x] = NoFD THEN NewFD ELSE sharedFD[x]
<1>1. d \in FDs
  BY NewFDFact DEF CreateSharedSegment, TypeOK, PagingTypeOK
<1>2. /\ pte' = [pte EXCEPT ![s] = AttachedPTE(flags, d)]
      /\ fd' = [fd EXCEPT ![d].owners = @ \cup {s}, ![d].sharedBit = TRUE]
      /\ sharedFD' = [sharedFD EXCEPT ![x] = d]
      /\ segment' = [segment EXCEPT ![s] = [flags |-> flags, name |-> x]]
      /\ failing' = FALSE
      /\ UNCHANGED <<vmFree, vmDescriptors, clusterFree, clusterDescriptors,
                     clockHand, mem, disk, op, crashed>>
  BY DEF CreateSharedSegment
<1> HIDE DEF d
<1>3. pte' \in [Slot -> PTE]
  BY <1>1, <1>2, AttachedType DEF TypeOK, FMTypeOK
<1>4. fd' \in [FDs -> FD]
  <2>1. fd[d] \in FD
    BY <1>1 DEF TypeOK, FMTypeOK
  <2>2. fd[d].owners \cup {s} \in SUBSET Slot
    BY <2>1 DEF FD
  <2> DEFINE owners == fd[d].owners \cup {s}
  <2> HIDE DEF owners
  <2>3. [fd[d] EXCEPT !.owners = owners, !.sharedBit = TRUE] \in FD
    BY <2>1, <2>2 DEF FD, owners
  <2> QED BY <1>1, <1>2, <2>3 DEF TypeOK, FMTypeOK, owners
<1>5. [flags |-> flags, name |-> x] \in Segments
  BY DEF Segments
<1>6. /\ sharedFD' \in [SharedNames -> FDs \cup {NoFD}]
      /\ segment' \in [Slot -> Segments \cup {NoSegment}]
  BY <1>1, <1>2, <1>5 DEF TypeOK, PagingTypeOK
<1> QED BY <1>2, <1>3, <1>4, <1>6 DEF TypeOK, FMTypeOK, PagingTypeOK

LEMMA DeleteSharedSegmentType ==
  ASSUME TypeOK, NEW x \in SharedNames, DeleteSharedSegment(x)
  PROVE  TypeOK'
<1>1. sharedFD[x] \in FDs
  BY DEF DeleteSharedSegment, TypeOK, PagingTypeOK
<1> QED BY <1>1, ReleaseType DEF DeleteSharedSegment, TypeOK, FMTypeOK, PagingTypeOK

LEMMA CloneProcessType ==
  ASSUME TypeOK, NEW p \in Procs, NEW q \in Procs, CloneProcess(p, q)
  PROVE  TypeOK'
<1> DEFINE From(t)     == <<p, t[2]>>
           Inherits(t) == t[1] = q /\ segment[From(t)] # NoSegment
           Shares(t)   == segment[From(t)].name # Private
           Page(t)     == IF Shares(t) THEN sharedFD[segment[From(t)].name]
                          ELSE FrameDescOf(pte[From(t)])
           Entry(t)    == IF Shares(t)
                            THEN AttachedPTE(segment[From(t)].flags, Page(t))
                            ELSE ClonedPTE(segment[From(t)].flags,
                                           pte[From(t)], Page(t))
           New(d)      == {t \in Slot : Inherits(t) /\ Page(t) = d}
           Marked(t)   == \E d \in FDs :
                            /\ ~fd[d].sharedBit
                            /\ New(d) # {}
                            /\ t \in fd[d].owners \cup New(d)
                            /\ Cardinality(fd[d].owners \cup New(d)) > 1
           Copied(t)   == IF Inherits(t) THEN Entry(t) ELSE pte[t]
<1>1. \A t \in Slot : From(t) \in Slot
  BY DEF Slot
<1>2. ASSUME NEW t \in Slot, Inherits(t) PROVE Page(t) \in FDs
  <2>1. Page(t) # NoFD
    BY <1>2 DEF CloneProcess
  <2>2. segment[From(t)] \in Segments
    BY <1>1, <1>2 DEF TypeOK, PagingTypeOK
  <2>3. CASE Shares(t)
    BY <2>1, <2>2, <2>3 DEF TypeOK, PagingTypeOK, Segments
  <2>4. CASE ~Shares(t)
    <3>1. pte[From(t)] \in PTE
      BY <1>1 DEF TypeOK, FMTypeOK
    <3> QED BY <2>1, <2>4, <3>1, FrameDescOfType DEF TypeOK
  <2> QED BY <2>3, <2>4
<1>3. ASSUME NEW t \in Slot PROVE Copied(t) \in PTE
  <2>1. pte[t] \in PTE /\ pte[From(t)] \in PTE
    BY <1>1 DEF TypeOK, FMTypeOK
  <2>2. CASE Inherits(t)
    <3>1. Page(t) \in FDs
      BY <1>2, <2>2
    <3> HIDE DEF Page, From, Shares
    <3>2. Entry(t) \in PTE
      BY <2>1, <3>1, AttachedType DEF TypeOK
    <3> QED BY <2>2, <3>2
  <2> QED BY <2>1, <2>2
<1>4. pte' = [t \in Slot |-> IF Marked(t) THEN SetCopyOnWrite(Copied(t))
                             ELSE Copied(t)]
  BY DEF CloneProcess
<1>5. fd' = [d \in FDs |-> [fd[d] EXCEPT !.owners = @ \cup New(d)]]
  BY DEF CloneProcess
<1>6. segment' \in [Slot -> Segments \cup {NoSegment}]
  BY <1>1 DEF CloneProcess, TypeOK, PagingTypeOK
<1> HIDE DEF Marked, Copied
<1>7. pte' \in [Slot -> PTE]
  BY <1>3, <1>4, RightsType
<1>8. fd' \in [FDs -> FD]
  <2>1. ASSUME NEW d \in FDs
        PROVE [fd[d] EXCEPT !.owners = @ \cup New(d)] \in FD
    <3>1. New(d) \in SUBSET Slot /\ fd[d] \in FD
      BY DEF TypeOK, FMTypeOK
    <3> HIDE DEF New
    <3> QED BY <3>1 DEF FD
  <2> HIDE DEF New
  <2> QED BY <1>5, <2>1
<1> QED BY <1>6, <1>7, <1>8 DEF CloneProcess, TypeOK, FMTypeOK, PagingTypeOK

\* Every step of the program keeps every variable in its type.
LEMMA NextType == TypeOK /\ [Next]_vars => TypeOK'
<1> SUFFICES ASSUME TypeOK, [Next]_vars PROVE TypeOK'
  OBVIOUS
<1>1. CASE UNCHANGED vars
  BY <1>1 DEF vars, fmVars, TypeOK, FMTypeOK, PagingTypeOK
<1>2. ASSUME NEW s \in Slot,
             \/ \E type \in Accesses, w \in Values : Access(s, type, w)
             \/ \E flags \in Flags : CreateSegment(s, flags)
             \/ \E flags \in Flags, w \in Images : LoadSegment(s, flags, w)
             \/ \E flags \in Flags, x \in SharedNames :
                  CreateSharedSegment(s, x, flags)
             \/ DeleteSegment(s) \/ DeleteNull(s)
      PROVE TypeOK'
  BY <1>2, AccessType, CreateSegmentType, LoadSegmentType,
     CreateSharedSegmentType, DeleteSegmentType, CrashType DEF DeleteNull
<1>3. ASSUME NEW x \in SharedNames, DeleteSharedSegment(x) PROVE TypeOK'
  BY <1>3, DeleteSharedSegmentType
<1>4. ASSUME NEW p \in Procs, NEW q \in Procs,
             CloneProcess(p, q) \/ CloneNull(p, q)
      PROVE TypeOK'
  BY <1>4, CloneProcessType, CrashType DEF CloneNull
<1>5. CASE Retry \/ Touch \/ TouchFree
  BY <1>5, RetryType, TouchType, CrashType DEF TouchFree
<1>6. CASE LoadFrame \/ CopyOnWrite
  BY <1>6, LoadFrameType, CopyOnWriteType
<1>7. CASE Fill \/ Unload
  BY <1>7, FillType, UnloadType
<1>8. CASE Halted
  BY <1>1, <1>8 DEF Halted
<1> QED BY <1>1, <1>2, <1>3, <1>4, <1>5, <1>6, <1>7, <1>8 DEF Next

\* In every reachable state every variable has its type: in particular the
\* clock hand stays inside vmDescriptors, a descriptor that is on disk names a
\* cluster, and an operation that is running works on a slot
\* (framemanager.cpp, kernelprocess.cpp).
THEOREM TypeCorrect == Spec => []TypeOK
<1>1. Init => TypeOK
  BY InitType
<1>2. TypeOK /\ [Next]_vars => TypeOK'
  BY NextType
<1> QED BY <1>1, <1>2, PTL DEF Spec

===========================================================================
