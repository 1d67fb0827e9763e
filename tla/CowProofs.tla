----------------------------- MODULE CowProofs -----------------------------
(***************************************************************************)
(* Copy on write keeps processes apart, gives and takes no right, loses no *)
(* store and completes what it was called for, whatever the constants are, *)
(* as long as clusters can be read.  Copying is inductive relative to      *)
(* Bookkeeping: where a page is, AccountingProofs shows; what may be done  *)
(* to it and what it holds is the matter here.                             *)
(***************************************************************************)
EXTENDS AccountingProofs

SameRights(e, o) ==
  /\ e.read = o.read /\ e.write = o.write
  /\ e.execute = o.execute /\ e.copyOnWrite = o.copyOnWrite

---------------------------------------------------------------------------
(* Entries and owners.                                                     *)

\* Only the two operations on the copy-on-write bit change rights.
LEMMA BitsKeepRights ==
  ASSUME NEW e \in PTE
  PROVE  /\ \A type : /\ SameRights(Accessed(e, type), e)
                      /\ Accessed(e, type).dirty = (e.dirty \/ IsWrite(type))
         /\ SameRights(NoReference(e), e) /\ NoReference(e).dirty = e.dirty
         /\ \A f, fresh : /\ SameRights(Arrived(e, f, fresh), e)
                          /\ Arrived(e, f, fresh).dirty = (e.dirty \/ fresh)
BY DEF SameRights, Accessed, NoReference, Arrived, PTE

\* Marking a page and unmarking it keep what its segment entitles to.
LEMMA MarksKeepRights ==
  ASSUME NEW e \in PTE
  PROVE  /\ SetCopyOnWrite(e).dirty = e.dirty
         /\ ~SetCopyOnWrite(e).write
         /\ ResetCopyOnWrite(e).dirty = e.dirty
         /\ ~ResetCopyOnWrite(e).copyOnWrite
         /\ e.copyOnWrite => ResetCopyOnWrite(e).write
         /\ \A flags : Entitled(e, flags) => /\ Entitled(SetCopyOnWrite(e), flags)
                                             /\ Entitled(ResetCopyOnWrite(e), flags)
BY DEF SetCopyOnWrite, ResetCopyOnWrite, Entitled, PTE

LEMMA EntryParts ==
  ASSUME NEW e \in PTE
  PROVE  /\ e.read \in BOOLEAN /\ e.write \in BOOLEAN
         /\ e.execute \in BOOLEAN /\ e.copyOnWrite \in BOOLEAN
         /\ e.dirty \in BOOLEAN /\ e.vmValid \in BOOLEAN /\ e.diskValid \in BOOLEAN
BY DEF PTE

LEMMA SweptRights ==
  ASSUME TypeOK, NEW passed, NEW s \in Slot
  PROVE  /\ SameRights(SweptPTE(passed)[s], pte[s])
         /\ SweptPTE(passed)[s].dirty = pte[s].dirty
<1>1. pte[s] \in PTE
  BY Parts
<1> QED BY <1>1, BitsKeepRights DEF SweptPTE, SameRights

\* There are more than one owner exactly when there are two.
LEMMA TwoOwners ==
  ASSUME NEW S \in SUBSET Slot
  PROVE  Cardinality(S) > 1 <=> \E s, t \in S : s # t
<1>1. IsFiniteSet(Slot)
  BY FinitenessAssumption, FS_Product DEF Slot
<1>2. IsFiniteSet(S) /\ Cardinality(S) \in Nat
  BY <1>1, FS_Subset, FS_CardinalityType
<1>3. Cardinality(S) = 0 <=> S = {}
  BY <1>2, FS_EmptySet
<1>4. Cardinality(S) = 1 <=> \E s : S = {s}
  BY <1>2, FS_Singleton
<1>5. Cardinality(S) > 1 <=> Cardinality(S) # 0 /\ Cardinality(S) # 1
  BY <1>2
<1>6. ~(\E s, t \in S : s # t) <=> S = {} \/ \E s : S = {s}
  OBVIOUS
<1> QED BY <1>3, <1>4, <1>5, <1>6

\* The page of a segment has a descriptor, and one only.
LEMMA Owner ==
  ASSUME Bookkeeping, NEW s \in Slot, segment[s] # NoSegment
  PROVE  \E d \in FDs : /\ s \in fd[d].owners
                        /\ Located(pte[s], d)
                        /\ \A o \in FDs : s \in fd[o].owners => o = d
BY DEF Bookkeeping, Places, OneDescriptor, OwnersLocated

\* Owners are pages of segments.
LEMMA OwnersHaveSegments ==
  ASSUME Bookkeeping, NEW d \in FDs, NEW s \in fd[d].owners
  PROVE  s \in Slot /\ segment[s] # NoSegment /\ pte[s] \in PTE
BY Parts DEF Bookkeeping, Places, OneDescriptor

\* Two pages are not in one frame, nor in one cluster.
LEMMA Apart ==
  ASSUME Bookkeeping, NEW d \in FDs, NEW o \in FDs \ {d}
  PROVE  /\ fd[d].vmValid /\ fd[o].vmValid => fd[d].vmFrameNum # fd[o].vmFrameNum
         /\ fd[d].diskValid /\ fd[o].diskValid =>
              fd[d].diskFrameNum # fd[o].diskFrameNum
BY DEF Bookkeeping, Places, FrameAccounting, ClusterAccounting

---------------------------------------------------------------------------
(* Steps that change neither owners nor rights.                            *)

LEMMA RightsStay ==
  ASSUME KindsKept, SegmentsEntitle, SharersAlike, Bookkeeping,
         UNCHANGED segment,
         \A d \in FDs : /\ fd'[d].owners = fd[d].owners
                        /\ fd'[d].sharedBit = fd[d].sharedBit,
         \A s \in Slot : SameRights(pte'[s], pte[s]),
         \A d \in FDs : ~fd[d].sharedBit =>
           \A s, t \in fd[d].owners : s # t => pte'[s].dirty = pte'[t].dirty
  PROVE  KindsKept' /\ SegmentsEntitle' /\ SharersAlike'
<1>1. KindsKept'
  BY DEF KindsKept
<1>2. SegmentsEntitle'
  BY DEF SegmentsEntitle, Entitled, SameRights
<1>3. SharersAlike'
  <2>1. \A d \in FDs : \A s \in fd[d].owners : SameRights(pte'[s], pte[s])
    BY OwnersHaveSegments
  <2> QED BY <2>1 DEF SharersAlike, SameRights
<1> QED BY <1>1, <1>2, <1>3

\* Setting dirty bits loses nothing.
LEMMA CleanStays ==
  ASSUME CleanMeansSaved, Bookkeeping, UNCHANGED <<fd, mem, disk>>,
         \A s \in Slot : pte[s].dirty => pte'[s].dirty
  PROVE  CleanMeansSaved'
<1>1. ASSUME NEW d \in FDs PROVE GetDirty(d) => GetDirty(d)'
  BY OwnersHaveSegments DEF GetDirty
<1> QED BY <1>1 DEF CleanMeansSaved, Clean

\* A store to a page's frame loses nothing when the page becomes dirty, or is
\* on no cluster.
LEMMA StoreIsTracked ==
  ASSUME CleanMeansSaved, Bookkeeping, UNCHANGED <<fd, disk>>,
         NEW s \in Slot, segment[s] # NoSegment, pte[s].vmValid,
         NEW w, mem' = [mem EXCEPT ![pte[s].vmFrameNum] = w],
         \A t \in Slot : pte[t].dirty => pte'[t].dirty,
         pte'[s].dirty \/ ~pte[s].diskValid
  PROVE  CleanMeansSaved'
<1>1. PICK d \in FDs : s \in fd[d].owners /\ Located(pte[s], d)
  BY Owner
<1>2. fd[d].vmValid /\ fd[d].vmFrameNum = pte[s].vmFrameNum
      /\ fd[d].diskValid = pte[s].diskValid
  BY <1>1 DEF Located, AgreesWith
<1> SUFFICES ASSUME NEW o \in FDs, ~fd[o].sharedBit, fd[o].owners # {},
                    fd[o].vmValid, fd[o].diskValid, ~GetDirty(o)'
             PROVE  mem'[fd[o].vmFrameNum] = disk[fd[o].diskFrameNum]
  BY DEF CleanMeansSaved, Clean
<1>3. o # d
  BY <1>1, <1>2 DEF GetDirty
<1>4. fd[o].vmFrameNum # pte[s].vmFrameNum
  BY <1>2, <1>3, Apart
<1>5. ~GetDirty(o)
  BY OwnersHaveSegments DEF GetDirty
<1>6. mem[fd[o].vmFrameNum] = disk[fd[o].diskFrameNum]
  BY <1>5 DEF CleanMeansSaved, Clean
<1>7. fd[o].vmFrameNum \in Frames /\ mem \in [Frames -> Values \cup {Link}]
  BY Parts DEF Bookkeeping, TypeOK, FMTypeOK
<1> QED BY <1>4, <1>6, <1>7

\* An operation that has ended needs nothing.
LEMMA IdlePrepared ==
  op'.phase = "idle" => StepPrepared' /\ BackupUsable'
BY DEF StepPrepared, BackupUsable

---------------------------------------------------------------------------
(* Accesses, loads and stores.                                             *)

\* A granted store is to a page with one owner, or to a shared segment's.
LEMMA WritersAreAlone ==
  ASSUME Copying, NEW d \in FDs, ~fd[d].sharedBit,
         NEW s \in fd[d].owners, pte[s].write
  PROVE  fd[d].owners = {s}
BY DEF Copying, SharersAlike

\* An access that is granted sets the bits of one entry.
LEMMA AccessedStays ==
  ASSUME Bookkeeping, Copying, NEW s \in Slot, NEW type \in AccessTypes,
         Granted(s, type), pte' = [pte EXCEPT ![s] = Accessed(@, type)],
         UNCHANGED <<fd, mem, disk, segment>>
  PROVE  /\ KindsKept' /\ SegmentsEntitle' /\ SharersAlike' /\ CleanMeansSaved'
         /\ pte'[s].vmValid
         /\ IsWrite(type) => pte'[s].write /\ pte'[s].dirty
<1>1. /\ \A t \in Slot : pte[t] \in PTE
      /\ pte'[s] = Accessed(pte[s], type)
      /\ \A t \in Slot \ {s} : pte'[t] = pte[t]
  BY Parts DEF Bookkeeping, TypeOK, FMTypeOK
<1>2. /\ SameRights(pte'[s], pte[s])
      /\ pte'[s].dirty = (pte[s].dirty \/ IsWrite(type))
      /\ pte'[s].vmValid
  BY <1>1, BitsKeepRights, BitsKeepPlace DEF Granted, SameWhere
<1>3. IsWrite(type) => pte[s].write
  BY DEF Granted, IsAccessAllowed, IsWrite
<1>4. \A t \in Slot : SameRights(pte'[t], pte[t])
  BY <1>1, <1>2 DEF SameRights
<1>5. ASSUME NEW d \in FDs, ~fd[d].sharedBit, NEW t \in fd[d].owners,
             NEW u \in fd[d].owners, t # u
      PROVE  pte'[t].dirty = pte'[u].dirty
  <2>1. pte[t].dirty = pte[u].dirty
    BY <1>5 DEF Copying, SharersAlike
  <2>2. t \in Slot /\ u \in Slot
    BY OwnersHaveSegments
  <2>3. s \in {t, u} => ~IsWrite(type)
    BY <1>3, <1>5, WritersAreAlone
  <2>4. pte[s].dirty \in BOOLEAN
    BY <1>1, EntryParts
  <2> QED BY <1>1, <1>2, <2>1, <2>2, <2>3, <2>4
<1>6. KindsKept' /\ SegmentsEntitle' /\ SharersAlike'
  BY <1>4, <1>5, RightsStay DEF Copying
<1>7. CleanMeansSaved'
  BY <1>1, <1>2, CleanStays DEF Copying
<1> QED BY <1>2, <1>3, <1>6, <1>7 DEF SameRights

LEMMA AccessCopying ==
  ASSUME Bookkeeping, Copying, NEW s \in Slot, NEW type \in Accesses,
         NEW w \in Values, Access(s, type, w)
  PROVE  Copying'
<1>1. /\ UNCHANGED <<fd, mem, disk, segment>>
      /\ op'.slot = s /\ op'.type = type
      /\ op'.phase = IF Granted(s, type) THEN "touch" ELSE "fault"
  BY OpType DEF Access, Bookkeeping, Ops
<1>2. BackupUsable'
  BY <1>1 DEF BackupUsable
<1>3. CASE Granted(s, type)
  <2>1. pte' = [pte EXCEPT ![s] = Accessed(@, type)] /\ type \in AccessTypes
    BY <1>3, AccessAssumption DEF Access
  <2>2. /\ KindsKept' /\ SegmentsEntitle' /\ SharersAlike' /\ CleanMeansSaved'
        /\ pte'[s].vmValid
        /\ IsWrite(type) => pte'[s].write /\ pte'[s].dirty
    BY <1>1, <1>3, <2>1, AccessedStays
  <2>3. StepPrepared'
    BY <1>1, <1>3, <2>2 DEF StepPrepared
  <2> QED BY <1>2, <2>2, <2>3 DEF Copying
<1>4. CASE ~Granted(s, type)
  <2>1. pte' = pte
    BY <1>4 DEF Access
  <2>2. KindsKept' /\ SegmentsEntitle' /\ SharersAlike' /\ CleanMeansSaved'
    BY <1>1, <2>1 DEF Copying, KindsKept, SegmentsEntitle, SharersAlike,
       CleanMeansSaved, Clean, GetDirty
  <2>3. StepPrepared'
    BY <1>1, <1>4 DEF StepPrepared
  <2> QED BY <1>2, <2>2, <2>3 DEF Copying
<1> QED BY <1>3, <1>4

LEMMA RetryCopying ==
  ASSUME Bookkeeping, Copying, Retry
  PROVE  Copying'
<1>1. /\ op.slot \in Slot /\ op.type \in AccessTypes
      /\ op'.phase = "touch" /\ op'.slot = op.slot /\ op'.type = op.type
  BY OpType DEF Retry, In, Goto, Bookkeeping, Ops
<1>2. PICK s \in Slot, type \in AccessTypes : s = op.slot /\ type = op.type
  BY <1>1
<1>3. /\ Granted(s, type) /\ pte' = [pte EXCEPT ![s] = Accessed(@, type)]
      /\ UNCHANGED <<fd, mem, disk, segment>>
  BY <1>2 DEF Retry
<1>4. /\ KindsKept' /\ SegmentsEntitle' /\ SharersAlike' /\ CleanMeansSaved'
      /\ pte'[s].vmValid
      /\ IsWrite(type) => pte'[s].write /\ pte'[s].dirty
  BY <1>3, AccessedStays
<1>5. StepPrepared' /\ BackupUsable'
  BY <1>1, <1>2, <1>4 DEF StepPrepared, BackupUsable
<1> QED BY <1>4, <1>5 DEF Copying

LEMMA TouchCopying ==
  ASSUME Bookkeeping, Copying, Touch
  PROVE  Copying'
<1>1. PICK s \in Slot : s = op.slot /\ segment[s] # NoSegment
  BY OpType DEF Touch, In, Bookkeeping, OnSegment
<1>2. /\ UNCHANGED <<pte, fd, disk, segment>>
      /\ pte[s].vmValid
      /\ \/ mem' = mem
         \/ /\ IsWrite(op.type)
            /\ mem' = [mem EXCEPT ![pte[s].vmFrameNum] = op.value]
  BY <1>1 DEF Touch
<1>3. KindsKept' /\ SegmentsEntitle' /\ SharersAlike'
  BY <1>2 DEF Copying, KindsKept, SegmentsEntitle, SharersAlike
<1>4. CleanMeansSaved'
  <2>1. CASE mem' = mem
    BY <1>2, <2>1, CleanStays DEF Copying
  <2>2. CASE /\ IsWrite(op.type)
             /\ mem' = [mem EXCEPT ![pte[s].vmFrameNum] = op.value]
    <3>1. pte'[s].dirty
      BY <1>1, <1>2, <2>2 DEF Touch, In, Copying, StepPrepared
    <3>2. PICK w : w = op.value
      OBVIOUS
    <3>3. mem' = [mem EXCEPT ![pte[s].vmFrameNum] = w]
      BY <2>2, <3>2
    <3> QED BY <1>1, <1>2, <3>1, <3>3, StoreIsTracked DEF Copying
  <2> QED BY <1>2, <2>1, <2>2
<1>5. op'.phase = "idle"
  BY FinishType DEF Touch
<1> QED BY <1>3, <1>4, <1>5, IdlePrepared DEF Copying

\* loadSegment fills its page; it has no other owner yet.
LEMMA FillCopying ==
  ASSUME Bookkeeping, Copying, Fill
  PROVE  Copying'
<1>1. PICK s \in Slot : s = op.slot /\ segment[s] # NoSegment
  BY OpType DEF Fill, In, Bookkeeping, OnSegment
<1>2. /\ UNCHANGED <<fd, disk, segment>>
      /\ pte[s].vmValid /\ pte[s] \in PTE
      /\ mem' = [mem EXCEPT ![pte[s].vmFrameNum] = op.value]
      /\ pte' = [pte EXCEPT ![s].dirty = TRUE]
      /\ \A d \in FDs : s \in fd[d].owners => fd[d].owners = {s}
  BY <1>1, Parts DEF Fill, In, Copying, StepPrepared, Bookkeeping
<1>3. /\ SameRights(pte'[s], pte[s]) /\ pte'[s].dirty
      /\ \A t \in Slot \ {s} : pte'[t] = pte[t]
  BY <1>2 DEF SameRights, PTE, Bookkeeping, TypeOK, FMTypeOK
<1>4. ASSUME NEW d \in FDs, ~fd[d].sharedBit, NEW t \in fd[d].owners,
             NEW u \in fd[d].owners, t # u
      PROVE  pte'[t].dirty = pte'[u].dirty
  <2>1. pte[t].dirty = pte[u].dirty
    BY <1>4 DEF Copying, SharersAlike
  <2>2. t \in Slot \ {s} /\ u \in Slot \ {s}
    BY <1>2, <1>4, OwnersHaveSegments
  <2> QED BY <1>3, <2>1, <2>2
<1>5. KindsKept' /\ SegmentsEntitle' /\ SharersAlike'
  BY <1>2, <1>3, <1>4, RightsStay DEF Copying, SameRights
<1>6. CleanMeansSaved'
  <2>1. PICK w : mem' = [mem EXCEPT ![pte[s].vmFrameNum] = w]
    BY <1>2
  <2>2. \A t \in Slot : pte[t].dirty => pte'[t].dirty
    BY <1>3
  <2>3. CleanMeansSaved /\ UNCHANGED <<fd, disk>> /\ pte[s].vmValid
    BY <1>2 DEF Copying
  <2> QED BY <1>1, <1>3, <2>1, <2>2, <2>3, StoreIsTracked
<1>7. op'.phase = "idle"
  BY FinishType DEF Fill
<1> QED BY <1>5, <1>6, <1>7, IdlePrepared DEF Copying

\* The copy gets its content; it is on no cluster yet.
LEMMA CowCopyCopying ==
  ASSUME Bookkeeping, Copying, CowCopy
  PROVE  Copying'
<1>1. PICK s \in Slot : s = op.slot /\ segment[s] # NoSegment
  BY OpType DEF CowCopy, In, Bookkeeping, OnSegment
<1>2. /\ UNCHANGED <<pte, fd, disk, segment>>
      /\ pte[s].vmValid /\ ~pte[s].diskValid
      /\ pte[s].write /\ op.type = "WRITE"
      /\ mem' = [mem EXCEPT ![pte[s].vmFrameNum] = op.buffer]
  BY <1>1 DEF CowCopy, In, Copying, StepPrepared
<1>3. KindsKept' /\ SegmentsEntitle' /\ SharersAlike'
  BY <1>2 DEF Copying, KindsKept, SegmentsEntitle, SharersAlike
<1>4. CleanMeansSaved'
  <2>1. PICK w : mem' = [mem EXCEPT ![pte[s].vmFrameNum] = w]
    BY <1>2
  <2> QED BY <1>1, <1>2, <2>1, StoreIsTracked DEF Copying
<1>5. op'.phase = "retry" /\ op'.slot = s /\ op'.type = "WRITE"
  <2>1. op' = [op EXCEPT
                 !.phase = "retry", !.buffer = Zero, !.parent = NoFD,
                 !.child = NoFD, !.backup = BlankPTE, !.wasShared = FALSE]
    BY DEF CowCopy
  <2> QED BY <1>1, <1>2, <2>1, OpType DEF Bookkeeping, Ops
<1>6. StepPrepared' /\ BackupUsable'
  BY <1>2, <1>5 DEF StepPrepared, BackupUsable, Granted, IsAccessAllowed
<1> QED BY <1>3, <1>4, <1>6 DEF Copying

---------------------------------------------------------------------------
(* Evictions.                                                              *)

\* What PageOut does to the bits.
LEMMA PageOutBits ==
  ASSUME TypeOK, NEW d \in FDs, NEW victim \in Frames, NEW passed,
         NEW c \in Clusters \cup {NoCluster}, NEW clean \in BOOLEAN,
         PageOut(d, victim, passed, c, clean)
  PROVE  /\ \A s \in Slot : SameRights(pte'[s], pte[s])
         /\ \A s \in fd[d].owners : pte'[s].dirty = (pte[s].dirty /\ ~clean)
         /\ \A s \in Slot \ fd[d].owners : pte'[s].dirty = pte[s].dirty
<1> DEFINE swept == SweptPTE(passed)
           Out(e) == [e EXCEPT
             !.vmValid = FALSE, !.vmFrameNum = 0,
             !.diskValid = @ \/ c # NoCluster,
             !.diskFrameNum = IF c # NoCluster THEN c ELSE @,
             !.dirty = @ /\ ~clean]
<1>1. ASSUME NEW e \in PTE
      PROVE  SameRights(Out(e), e) /\ Out(e).dirty = (e.dirty /\ ~clean)
  BY DEF SameRights, PTE
<1>2. pte' = [s \in Slot |-> IF s \in fd[d].owners THEN Out(swept[s]) ELSE swept[s]]
  BY DEF PageOut
<1>3. \A s \in Slot : /\ swept[s] \in PTE /\ SameRights(swept[s], pte[s])
                      /\ swept[s].dirty = pte[s].dirty
  BY SweptWhere, SweptRights DEF TypeOK
<1>4. fd[d].owners \subseteq Slot
  BY Parts
<1> HIDE DEF Out, swept
<1> QED BY <1>1, <1>2, <1>3, <1>4 DEF SameRights

\* The outcomes of an eviction: what is written where.
LEMMA Saved ==
  ASSUME Bookkeeping, Evict
  PROVE  \E victim \in Frames, d \in FDs, passed \in SUBSET Frames,
            c \in Clusters \cup {NoCluster}, clean \in BOOLEAN :
           /\ PageOut(d, victim, passed, c, clean)
           /\ fd[d].vmValid /\ fd[d].vmFrameNum = victim
           /\ \/ disk' = disk
              \/ \E k \in Clusters :
                   /\ k \in clusterFree \/ (fd[d].diskValid /\ k = fd[d].diskFrameNum)
                   /\ disk' = [disk EXCEPT ![k] = mem[victim]]
<1>1. PICK victim \in Frames, passed \in SUBSET Frames :
        LET d == vmDescriptors[victim]
        IN  \/ SaveToNewCluster(d, victim, passed)
            \/ DropUnsaved(d, victim, passed)
            \/ SaveToOwnCluster(d, victim, passed)
  BY DEF Evict
<1> DEFINE d == vmDescriptors[victim]
<1>2. d \in FDs /\ fd[d].vmValid /\ fd[d].vmFrameNum = victim
  BY VictimsHaveDescriptors DEF Evict, Bookkeeping, Places
<1> HIDE DEF d
<1>3. clusterFree \subseteq Clusters /\ (fd[d].diskValid => fd[d].diskFrameNum \in Clusters)
  BY <1>2, Parts DEF Bookkeeping, TypeOK, FMTypeOK
<1>4. CASE SaveToNewCluster(d, victim, passed)
  <2>1. PICK c \in clusterFree : /\ disk' = Written(c, victim)
                                 /\ PageOut(d, victim, passed, c, FALSE)
    BY <1>4 DEF SaveToNewCluster
  <2>2. disk' = [disk EXCEPT ![c] = mem[victim]] /\ c \in Clusters
    BY <1>3, <2>1 DEF Written
  <2> QED BY <1>2, <2>1, <2>2
<1>5. CASE DropUnsaved(d, victim, passed)
  BY <1>2, <1>5 DEF DropUnsaved
<1>6. CASE SaveToOwnCluster(d, victim, passed)
  <2>1. PICK clean \in BOOLEAN : PageOut(d, victim, passed, NoCluster, clean)
    BY <1>6 DEF SaveToOwnCluster
  <2>2. \/ disk' = disk
        \/ disk' = [disk EXCEPT ![fd[d].diskFrameNum] = mem[victim]]
    BY <1>6 DEF SaveToOwnCluster, Written
  <2>3. fd[d].diskValid
    BY <1>6 DEF SaveToOwnCluster
  <2> QED BY <1>2, <1>3, <2>1, <2>2, <2>3
<1> QED BY <1>1, <1>4, <1>5, <1>6 DEF d

LEMMA LoadEvictCopying ==
  ASSUME Bookkeeping, Copying, LoadEvict
  PROVE  Copying'
<1>1. PICK victim \in Frames, d \in FDs, passed \in SUBSET Frames,
           c \in Clusters \cup {NoCluster}, clean \in BOOLEAN :
        /\ PageOut(d, victim, passed, c, clean)
        /\ fd[d].vmValid /\ fd[d].vmFrameNum = victim
        /\ \/ disk' = disk
           \/ \E k \in Clusters :
                /\ k \in clusterFree \/ (fd[d].diskValid /\ k = fd[d].diskFrameNum)
                /\ disk' = [disk EXCEPT ![k] = mem[victim]]
  BY Saved DEF LoadEvict
<1>2. /\ TypeOK /\ UNCHANGED <<segment, op>>
      /\ op.phase \in {"fault", "cowload", "load"} /\ op.slot \in Slot
  BY OpType DEF LoadEvict, Absent, Loading, Bookkeeping
<1>3. /\ \A s \in Slot : SameRights(pte'[s], pte[s])
      /\ \A s \in fd[d].owners : pte'[s].dirty = (pte[s].dirty /\ ~clean)
      /\ \A s \in Slot \ fd[d].owners : pte'[s].dirty = pte[s].dirty
  BY <1>1, <1>2, PageOutBits
<1>4. /\ \A o \in FDs \ {d} : fd'[o] = fd[o]
      /\ fd'[d].owners = fd[d].owners /\ fd'[d].sharedBit = fd[d].sharedBit
      /\ ~fd'[d].vmValid
  BY <1>1, <1>2, PageOutWhere
<1>5. ASSUME NEW o \in FDs \ {d}, NEW s \in fd[o].owners
      PROVE  s \in Slot \ fd[d].owners
  BY OwnersHaveSegments DEF Bookkeeping, Places, OneDescriptor
<1>6. KindsKept' /\ SegmentsEntitle' /\ SharersAlike'
  <2>1. ASSUME NEW o \in FDs, ~fd[o].sharedBit, NEW t \in fd[o].owners,
               NEW u \in fd[o].owners, t # u
        PROVE  pte'[t].dirty = pte'[u].dirty
    <3>1. pte[t].dirty = pte[u].dirty
      BY <2>1 DEF Copying, SharersAlike
    <3>2. CASE o = d
      BY <1>3, <3>1, <3>2
    <3>3. CASE o # d
      BY <1>3, <1>5, <3>1, <3>3
    <3> QED BY <3>2, <3>3
  <2> QED BY <1>2, <1>3, <1>4, <2>1, RightsStay DEF Copying
<1>7. CleanMeansSaved'
  <2> SUFFICES ASSUME NEW o \in FDs, ~fd'[o].sharedBit, fd'[o].owners # {},
                      fd'[o].vmValid, fd'[o].diskValid, ~GetDirty(o)'
               PROVE  mem'[fd'[o].vmFrameNum] = disk'[fd'[o].diskFrameNum]
    BY DEF CleanMeansSaved, Clean
  <2>1. o # d /\ fd'[o] = fd[o]
    BY <1>4
  <2>2. ~GetDirty(o)
    BY <1>3, <1>5, <2>1 DEF GetDirty
  <2>3. mem[fd[o].vmFrameNum] = disk[fd[o].diskFrameNum]
    BY <2>1, <2>2 DEF Copying, CleanMeansSaved, Clean
  <2>4. fd[o].vmFrameNum # victim
    BY <1>1, <2>1, Apart
  <2>5. mem'[fd[o].vmFrameNum] = mem[fd[o].vmFrameNum]
    <3>1. mem' = [mem EXCEPT ![victim] = Link]
      BY <1>1 DEF PageOut
    <3>2. fd[o].vmFrameNum \in Frames /\ mem \in [Frames -> Values \cup {Link}]
      BY <1>2, Parts DEF TypeOK, FMTypeOK
    <3> QED BY <2>4, <3>1, <3>2
  <2>6. disk'[fd[o].diskFrameNum] = disk[fd[o].diskFrameNum]
    <3>1. fd[o].diskFrameNum \in Clusters \ clusterFree
      BY <2>1 DEF Bookkeeping, Places, ClusterAccounting
    <3>2. fd[d].diskValid => fd[o].diskFrameNum # fd[d].diskFrameNum
      BY <2>1, Apart
    <3>3. disk \in [Clusters -> Values \cup {Link}]
      BY <1>2 DEF TypeOK, FMTypeOK
    <3> QED BY <1>1, <3>1, <3>2, <3>3
  <2> QED BY <2>1, <2>3, <2>5, <2>6
<1>8. StepPrepared'
  BY <1>2, <1>3, <1>4 DEF Copying, StepPrepared, SameRights
<1>9. BackupUsable'
  <2>1. vmFree' # {}
    BY <1>1 DEF PageOut
  <2>2. op.phase = "cowload" => op.parent \in FDs
    BY DEF Bookkeeping, CopyPending, CopyNowhere
  <2> QED BY <1>2, <1>4, <2>1, <2>2 DEF Copying, BackupUsable
<1> QED BY <1>6, <1>7, <1>8, <1>9 DEF Copying

\* The write to a new cluster failed: only reference bits have changed.
LEMMA LoadEvictFailsCopying ==
  ASSUME Bookkeeping, Copying, LoadEvictFails
  PROVE  Copying'
<1>1. /\ UNCHANGED <<fd, vmFree, mem, disk, segment>> /\ vmFree = {}
      /\ op \in Ops /\ op.phase \in {"fault", "cowload", "load"}
      /\ op.slot \in Slot
  BY OpType DEF LoadEvictFails, EvictFails, Absent, Loading, Bookkeeping
<1>2. \A s \in Slot : /\ SameRights(pte'[s], pte[s])
                      /\ pte'[s].dirty = pte[s].dirty
  <2>1. PICK passed \in SUBSET Frames : pte' = SweptPTE(passed)
    BY DEF LoadEvictFails, EvictFails
  <2> QED BY <2>1, SweptRights DEF Bookkeeping
<1>3. KindsKept' /\ SegmentsEntitle' /\ SharersAlike'
  <2>1. \A o \in FDs : ~fd[o].sharedBit =>
          \A t, u \in fd[o].owners : t # u => pte'[t].dirty = pte'[u].dirty
    BY <1>2, OwnersHaveSegments DEF Copying, SharersAlike
  <2> QED BY <1>1, <1>2, <2>1, RightsStay DEF Copying
<1>4. CleanMeansSaved'
  BY <1>1, <1>2, CleanStays DEF Copying
<1>5. \/ op'.phase = "idle"
      \/ op.phase = "load" /\ op' = [op EXCEPT !.phase = "unload"]
      \/ op.phase = "cowload" /\ op' = [op EXCEPT !.phase = "rollback"]
  BY DEF LoadEvictFails, NotLoaded, Finish, Goto, IdleOp
<1>6. CASE op'.phase = "idle"
  BY <1>3, <1>4, <1>6, IdlePrepared DEF Copying
<1>7. CASE op.phase = "load" /\ op' = [op EXCEPT !.phase = "unload"]
  <2>1. op'.phase = "unload" /\ op'.slot = op.slot
    BY <1>1, <1>7 DEF Ops
  <2>2. StepPrepared' /\ BackupUsable'
    BY <1>1, <1>7, <2>1 DEF Copying, StepPrepared, BackupUsable
  <2> QED BY <1>3, <1>4, <2>2 DEF Copying
<1>8. CASE op.phase = "cowload" /\ op' = [op EXCEPT !.phase = "rollback"]
  <2>1. /\ op'.phase = "rollback" /\ op'.slot = op.slot /\ op'.type = op.type
        /\ op'.parent = op.parent /\ op'.backup = op.backup
        /\ op'.buffer = op.buffer /\ op'.wasShared = op.wasShared
        /\ op.parent \in FDs
    BY <1>1, <1>8 DEF Ops, Bookkeeping, CopyPending, CopyNowhere
  <2>2. StepPrepared'
    BY <1>1, <1>2, <1>8, <2>1 DEF Copying, StepPrepared, SameRights
  <2>3. \A t \in fd[op.parent].owners : pte'[t].dirty = pte[t].dirty
    BY <1>2, <2>1, OwnersHaveSegments
  <2>4. BackupUsable'
    BY <1>1, <1>8, <2>1, <2>3 DEF Copying, BackupUsable
  <2> QED BY <1>3, <1>4, <2>2, <2>4 DEF Copying
<1> QED BY <1>5, <1>6, <1>7, <1>8

---------------------------------------------------------------------------
(* Loading a page.                                                         *)

\* What the entry is after the load prepares what pageFault does next.
LEMMA LoadedIsPrepared ==
  ASSUME Bookkeeping, Copying, Loading, UNCHANGED segment,
         \A d \in FDs : fd'[d].owners = fd[d].owners,
         NEW e \in PTE, e = pte'[op.slot], Loaded(e), e.vmValid,
         SameRights(e, pte[op.slot]), e.diskValid = pte[op.slot].diskValid
  PROVE  StepPrepared' /\ BackupUsable'
<1>1. op \in Ops /\ op.slot \in Slot /\ op.phase \in {"fault", "cowload", "load"}
  BY OpType DEF Loading, Bookkeeping
<1>2. CASE AfterLoad(e) = "idle"
  BY <1>2, IdlePrepared DEF Loaded, IdleOp
<1>3. CASE AfterLoad(e) # "idle"
  <2>1. op' = [op EXCEPT !.phase = AfterLoad(e), !.frame = e.vmFrameNum]
    BY <1>3 DEF Loaded
  <2>2. /\ op'.phase = AfterLoad(e) /\ op'.frame = e.vmFrameNum
        /\ op'.slot = op.slot /\ op'.type = op.type
    BY <1>1, <2>1 DEF Ops
  <2>3. CASE op.phase = "cowload"
    <3>1. op'.phase = "cowcopy"
      BY <2>2, <2>3 DEF AfterLoad
    <3>2. ~pte[op.slot].diskValid
      <4>1. PICK d \in FDs : d = op.child /\ fd[d].owners = {op.slot} /\ ~fd[d].diskValid
        BY <2>3 DEF Bookkeeping, CopyPending, CopyNowhere
      <4>2. Located(pte[op.slot], d)
        BY <4>1 DEF Bookkeeping, Places, OwnersLocated
      <4> QED BY <4>1, <4>2 DEF Located, AgreesWith
    <3>3. pte[op.slot].write /\ op.type = "WRITE"
      BY <2>3 DEF Copying, StepPrepared
    <3> QED BY <2>2, <3>1, <3>2, <3>3 DEF StepPrepared, BackupUsable, SameRights
  <2>4. CASE op.phase = "load"
    <3>1. op'.phase = "fill"
      BY <2>2, <2>4 DEF AfterLoad
    <3>2. /\ segment[op.slot].name = Private
          /\ \A d \in FDs : op.slot \in fd[d].owners => fd[d].owners = {op.slot}
      BY <2>4 DEF Copying, StepPrepared
    <3> QED BY <2>2, <3>1, <3>2 DEF StepPrepared, BackupUsable
  <2>5. CASE op.phase = "fault"
    <3>1. \/ op'.phase = "retry" /\ IsAccessAllowed(e, op.type)
          \/ op'.phase = "detach" /\ ShouldHandleCOW(e, op.type)
      BY <1>3, <2>2, <2>5 DEF AfterLoad
    <3> QED BY <2>2, <3>1 DEF StepPrepared, BackupUsable, Granted
  <2> QED BY <1>1, <2>3, <2>4, <2>5
<1> QED BY <1>2, <1>3

LEMMA LoadResidentCopying ==
  ASSUME Bookkeeping, Copying, LoadResident
  PROVE  Copying'
<1>1. /\ UNCHANGED <<pte, fd, mem, disk, segment>>
      /\ Loading /\ Loaded(pte[op.slot]) /\ pte[op.slot].vmValid
  BY DEF LoadResident
<1>2. PICK e \in PTE : e = pte[op.slot]
  BY <1>1, OpType DEF Loading, Bookkeeping
<1>3. StepPrepared' /\ BackupUsable'
  BY <1>1, <1>2, LoadedIsPrepared DEF SameRights
<1> QED BY <1>1, <1>3 DEF Copying, KindsKept, SegmentsEntitle, SharersAlike,
           CleanMeansSaved, Clean, GetDirty

\* The page comes to a frame nobody uses, with what its cluster holds.
LEMMA LoadPlaceCopying ==
  ASSUME Bookkeeping, Copying, LoadPlace
  PROVE  Copying'
<1>1. PICK s \in Slot : s = op.slot
  BY OpType DEF LoadPlace, Absent, Loading, Bookkeeping
<1>2. /\ segment[s] # NoSegment /\ ~pte[s].vmValid /\ Place(s) /\ UNCHANGED segment
      /\ TypeOK /\ Places
  BY <1>1 DEF LoadPlace, Absent, Loading, Bookkeeping, OnSegment
<1> DEFINE d == FrameDescOf(pte[s])
<1>3. d \in FDs /\ s \in fd[d].owners
  BY <1>2, FoundIsOwned DEF Place
<1> HIDE DEF d
<1>4. PICK f \in vmFree :
        /\ fd' = [fd EXCEPT ![d].vmValid = TRUE, ![d].vmFrameNum = f]
        /\ pte' = [t \in Slot |->
             IF t \in fd[d].owners
               THEN Arrived(pte[t], f, ~fd[d].diskValid) ELSE pte[t]]
        /\ mem' = [mem EXCEPT ![f] = IF fd[d].diskValid
                                       THEN disk[fd[d].diskFrameNum]
                                       ELSE Zero]
        /\ disk' = disk
  BY <1>2 DEF Place, Fetched, d
<1>5. /\ f \in Frames /\ fd \in [FDs -> FD]
      /\ mem \in [Frames -> Values \cup {Link}]
      /\ \A t \in Slot : pte[t] \in PTE
  BY <1>2, Parts DEF TypeOK, FMTypeOK
<1>6. /\ \A o \in FDs \ {d} : fd'[o] = fd[o]
      /\ fd'[d].vmFrameNum = f
      /\ fd'[d].owners = fd[d].owners /\ fd'[d].sharedBit = fd[d].sharedBit
      /\ fd'[d].diskValid = fd[d].diskValid
      /\ fd'[d].diskFrameNum = fd[d].diskFrameNum
  <2>1. fd[d] \in FD
    BY <1>3, <1>5
  <2> QED BY <1>3, <1>4, <1>5, <2>1 DEF FD
<1>7. \A t \in Slot :
        /\ SameRights(pte'[t], pte[t])
        /\ t \in fd[d].owners => pte'[t].dirty = (pte[t].dirty \/ ~fd[d].diskValid)
        /\ t \notin fd[d].owners => pte'[t].dirty = pte[t].dirty
  <2> SUFFICES ASSUME NEW t \in Slot
      PROVE /\ SameRights(pte'[t], pte[t])
            /\ t \in fd[d].owners => pte'[t].dirty = (pte[t].dirty \/ ~fd[d].diskValid)
            /\ t \notin fd[d].owners => pte'[t].dirty = pte[t].dirty
    OBVIOUS
  <2>1. CASE t \in fd[d].owners
    <3>1. pte'[t] = Arrived(pte[t], f, ~fd[d].diskValid)
      BY <1>4, <2>1
    <3> DEFINE fresh == ~fd[d].diskValid
    <3>2. pte'[t] = Arrived(pte[t], f, fresh) /\ pte[t] \in PTE
      BY <1>5, <3>1
    <3> HIDE DEF fresh
    <3>3. SameRights(pte'[t], pte[t]) /\ pte'[t].dirty = (pte[t].dirty \/ fresh)
      BY <3>2, BitsKeepRights
    <3> QED BY <2>1, <3>3 DEF fresh
  <2>2. CASE t \notin fd[d].owners
    BY <1>4, <2>2 DEF SameRights
  <2> QED BY <2>1, <2>2
<1>8. ASSUME NEW o \in FDs \ {d}, NEW t \in fd[o].owners
      PROVE  t \in Slot \ fd[d].owners
  BY <1>3, OwnersHaveSegments DEF Bookkeeping, Places, OneDescriptor
<1>9. KindsKept' /\ SegmentsEntitle' /\ SharersAlike'
  <2>1. ASSUME NEW o \in FDs, ~fd[o].sharedBit, NEW t \in fd[o].owners,
               NEW u \in fd[o].owners, t # u
        PROVE  pte'[t].dirty = pte'[u].dirty
    <3>1. pte[t].dirty = pte[u].dirty /\ t \in Slot /\ u \in Slot
      BY <2>1, OwnersHaveSegments DEF Copying, SharersAlike
    <3>2. CASE o = d
      BY <1>7, <3>1, <3>2
    <3>3. CASE o # d
      BY <1>7, <1>8, <3>1, <3>3
    <3> QED BY <3>2, <3>3
  <2> QED BY <1>2, <1>6, <1>7, <2>1, RightsStay DEF Copying
<1>10. CleanMeansSaved'
  <2> SUFFICES ASSUME NEW o \in FDs, ~fd'[o].sharedBit, fd'[o].owners # {},
                      fd'[o].vmValid, fd'[o].diskValid, ~GetDirty(o)'
               PROVE  mem'[fd'[o].vmFrameNum] = disk[fd'[o].diskFrameNum]
    BY <1>4 DEF CleanMeansSaved, Clean
  <2>1. CASE o = d
    BY <1>4, <1>5, <1>6, <2>1
  <2>2. CASE o # d
    <3>1. fd'[o] = fd[o] /\ ~GetDirty(o)
      BY <1>6, <1>7, <1>8, <2>2 DEF GetDirty
    <3>2. mem[fd[o].vmFrameNum] = disk[fd[o].diskFrameNum]
      BY <3>1 DEF Copying, CleanMeansSaved, Clean
    <3>3. fd[o].vmFrameNum \in Frames \ vmFree
      BY <1>2, <3>1, Parts DEF Places, FrameAccounting
    <3> QED BY <1>4, <1>5, <3>1, <3>2, <3>3
  <2> QED BY <2>1, <2>2
<1>11. StepPrepared' /\ BackupUsable'
  <2>1. pte'[s] = Arrived(pte[s], f, ~fd[d].diskValid)
    BY <1>3, <1>4
  <2>2. pte'[s].vmValid /\ pte'[s].diskValid = pte[s].diskValid /\ pte'[s] \in PTE
    <3>1. fd[d].diskValid \in BOOLEAN
      BY <1>2, <1>3, Parts
    <3>2. pte[s] \in PTE /\ pte'[s] \in PTE
      BY <1>5, <2>1, <3>1, EntriesType
    <3>3. pte'[s].vmValid /\ pte'[s].diskValid = pte[s].diskValid
      BY <2>1, <3>2 DEF Arrived, PTE
    <3> QED BY <3>2, <3>3
  <2>3. Loading /\ Loaded(pte'[s])
    BY <1>1 DEF LoadPlace, Absent
  <2>4. \A o \in FDs : fd'[o].owners = fd[o].owners
    BY <1>6
  <2> QED BY <1>1, <1>2, <1>7, <2>2, <2>3, <2>4, LoadedIsPrepared
<1> QED BY <1>9, <1>10, <1>11 DEF Copying

\* Steps that change nothing but that the program ends.
LEMMA StutterCopying ==
  ASSUME Copying, UNCHANGED <<fmVars, segment, sharedFD, op>>
  PROVE  Copying'
<1>1. UNCHANGED <<pte, fd, vmFree, mem, disk, segment, op>>
  BY DEF fmVars
<1> QED BY <1>1 DEF Copying, KindsKept, SegmentsEntitle, SharersAlike,
           CleanMeansSaved, Clean, GetDirty, StepPrepared, Granted, BackupUsable

LEMMA LoadFrameCopying ==
  ASSUME Bookkeeping, Copying, LoadFrame, ~ReadMayFail
  PROVE  Copying'
<1>1. CASE LoadPlaceFails
  BY <1>1 DEF LoadPlaceFails, PlaceFails
<1>2. CASE LoadEvictCrashes \/ LoadNull
  BY <1>2, StutterCopying DEF LoadEvictCrashes, LoadNull, Crash
<1> QED BY <1>1, <1>2, LoadResidentCopying, LoadEvictCopying,
           LoadEvictFailsCopying, LoadPlaceCopying DEF LoadFrame

---------------------------------------------------------------------------
(* Copies.                                                                 *)

\* The page that is copied is private, and a backup of its entry can restore it.
LEMMA CowDetachCopying ==
  ASSUME Bookkeeping, Copying, CowDetach
  PROVE  Copying'
<1>1. PICK s \in Slot : s = op.slot /\ segment[s] # NoSegment
  BY OpType DEF CowDetach, In, Bookkeeping, OnSegment
<1>2. /\ TypeOK /\ Places /\ pte[s] \in PTE
      /\ pte[s].vmValid /\ op.frame = pte[s].vmFrameNum
      /\ ~pte[s].write /\ pte[s].copyOnWrite /\ op.type = "WRITE"
  BY <1>1, Parts DEF CowDetach, In, Copying, StepPrepared, ShouldHandleCOW,
     Bookkeeping
<1>3. PICK d \in FDs : d = FrameDescOf(pte[s]) /\ s \in fd[d].owners
  BY <1>1, <1>2, FoundIsOwned DEF CowDetach
<1>4. PICK child \in FDs : child = NewFD /\ fd[child] = BlankFD
  BY NewFDFact DEF CowDetach, Unused
<1>5. d # child /\ ~fd[d].sharedBit
  BY <1>2, <1>3, <1>4, BlankIsNowhere DEF Copying, SharersAlike
<1> DEFINE rest == fd[d].owners \ {s}
           detached == [ResetCopyOnWrite(pte[s]) EXCEPT
                          !.vmValid = FALSE, !.vmFrameNum = 0,
                          !.diskValid = FALSE, !.diskFrameNum = child]
<1>6. /\ fd' = [fd EXCEPT ![d].owners = rest,
                          ![child] = [BlankFD EXCEPT !.owners = {s}]]
      /\ pte' = [t \in Slot |->
           IF t = s THEN detached
           ELSE IF SoleOwner(rest, t) THEN ResetCopyOnWrite(pte[t])
           ELSE pte[t]]
      /\ UNCHANGED <<vmFree, mem, disk, segment>>
  BY <1>1, <1>3, <1>4 DEF CowDetach
<1>7. /\ \A o \in FDs \ {d, child} : fd'[o] = fd[o]
      /\ fd'[d].owners = rest
      /\ fd'[d].vmValid = fd[d].vmValid
      /\ fd'[d].vmFrameNum = fd[d].vmFrameNum
      /\ fd'[d].diskValid = fd[d].diskValid
      /\ fd'[d].diskFrameNum = fd[d].diskFrameNum
      /\ fd'[d].sharedBit = fd[d].sharedBit
      /\ fd'[child].owners = {s} /\ ~fd'[child].vmValid
      /\ ~fd'[child].sharedBit
  <2>1. fd \in [FDs -> FD] /\ fd[d] \in FD
    BY <1>2 DEF TypeOK, FMTypeOK
  <2> HIDE DEF rest
  <2> QED BY <1>5, <1>6, <2>1 DEF FD, BlankFD
<1>8. SameRights(detached, ResetCopyOnWrite(pte[s]))
  BY <1>2, RightsType DEF SameRights, PTE
<1>9. /\ pte'[s] = detached
      /\ \A t \in Slot \ {s} : pte'[t] = IF rest = {t} THEN ResetCopyOnWrite(pte[t])
                                         ELSE pte[t]
  <2> HIDE DEF detached, rest
  <2> QED BY <1>6 DEF SoleOwner
<1>10. \A t \in Slot \ {s} : pte'[t].dirty = pte[t].dirty
  BY <1>2, <1>9, Parts, MarksKeepRights
<1>11. \A flags, t : t \in Slot /\ Entitled(pte[t], flags) => Entitled(pte'[t], flags)
  <2> SUFFICES ASSUME NEW flags, NEW t \in Slot, Entitled(pte[t], flags)
               PROVE  Entitled(pte'[t], flags)
    OBVIOUS
  <2>1. Entitled(ResetCopyOnWrite(pte[t]), flags)
    BY <1>2, Parts, MarksKeepRights
  <2> HIDE DEF detached, rest
  <2> QED BY <1>8, <1>9, <2>1 DEF Entitled, SameRights
<1> HIDE DEF detached
<1>12. \A o \in FDs : \A t \in fd'[o].owners :
         /\ t \in Slot /\ segment[t] # NoSegment
         /\ o # child => t \in fd[o].owners /\ t # s
         /\ o = child => t = s
         /\ fd'[o].sharedBit <=> o # child /\ fd[o].sharedBit
  BY <1>1, <1>3, <1>5, <1>7, OwnersHaveSegments DEF Bookkeeping, Places, OneDescriptor
<1>13. KindsKept'
  <2>1. segment[s].name = Private
    BY <1>3, <1>5 DEF Copying, KindsKept
  <2> QED BY <1>6, <1>12, <2>1 DEF Copying, KindsKept
<1>14. SegmentsEntitle'
  BY <1>6, <1>11 DEF Copying, SegmentsEntitle
<1>15. SharersAlike'
  <2> SUFFICES ASSUME NEW o \in FDs, NEW t \in fd'[o].owners
      PROVE  IF fd'[o].sharedBit THEN ~pte'[t].copyOnWrite
             ELSE \A u \in fd'[o].owners :
                    t # u => ~pte'[t].write /\ pte'[t].dirty = pte'[u].dirty
    BY DEF SharersAlike
  <2>1. CASE o = child
    BY <1>12, <2>1
  <2>2. CASE o # child /\ fd[o].sharedBit
    <3>1. t \in fd[o].owners /\ t \in Slot \ {s} /\ ~pte[t].copyOnWrite
      BY <1>12, <2>2 DEF Copying, SharersAlike
    <3>2. pte'[t] = pte[t] \/ pte'[t] = ResetCopyOnWrite(pte[t])
      BY <1>9, <3>1
    <3> QED BY <1>12, <2>2, <3>1, <3>2, Parts, <1>2, MarksKeepRights
  <2>3. CASE o # child /\ ~fd[o].sharedBit
    <3> SUFFICES ASSUME NEW u \in fd'[o].owners, t # u
                 PROVE  ~pte'[t].write /\ pte'[t].dirty = pte'[u].dirty
      BY <1>12, <2>3
    <3>1. /\ t \in fd[o].owners /\ t \in Slot \ {s}
          /\ u \in fd[o].owners /\ u \in Slot \ {s}
      BY <1>12, <2>3
    <3>2. ~pte[t].write /\ pte[t].dirty = pte[u].dirty
      BY <2>3, <3>1 DEF Copying, SharersAlike
    <3>3. rest # {t}
      BY <1>3, <1>7, <3>1 DEF Bookkeeping, Places, OneDescriptor
    <3> QED BY <1>9, <1>10, <3>1, <3>2, <3>3
  <2> QED BY <2>1, <2>2, <2>3
<1>16. CleanMeansSaved'
  <2> SUFFICES ASSUME NEW o \in FDs, ~fd'[o].sharedBit, fd'[o].owners # {},
                      fd'[o].vmValid, fd'[o].diskValid, ~GetDirty(o)'
               PROVE  mem[fd'[o].vmFrameNum] = disk[fd'[o].diskFrameNum]
    BY <1>6 DEF CleanMeansSaved, Clean
  <2>1. o # child
    BY <1>7
  <2>2. PICK t \in fd'[o].owners : t \in fd[o].owners /\ t \in Slot \ {s}
    BY <1>12, <2>1
  <2>3. ~pte[t].dirty
    BY <1>10, <2>2 DEF GetDirty
  <2>4. ~fd[o].sharedBit
    BY <1>12, <2>1, <2>2
  <2>5. ~GetDirty(o)
    BY <2>2, <2>3, <2>4 DEF Copying, SharersAlike, GetDirty
  <2>6. /\ fd'[o].vmValid = fd[o].vmValid /\ fd'[o].vmFrameNum = fd[o].vmFrameNum
        /\ fd'[o].diskValid = fd[o].diskValid
        /\ fd'[o].diskFrameNum = fd[o].diskFrameNum
    BY <1>7, <2>1
  <2> QED BY <2>2, <2>4, <2>5, <2>6 DEF Copying, CleanMeansSaved, Clean
<1>17. /\ op'.phase = "cowload" /\ op'.slot = s /\ op'.type = "WRITE"
       /\ op'.buffer = mem[pte[s].vmFrameNum] /\ op'.parent = d
       /\ op'.backup = pte[s] /\ op'.wasShared = (Cardinality(fd[d].owners) > 1)
  <2> DEFINE shared == Cardinality(fd[d].owners) > 1
             read == mem[op.frame]
  <2>1. op' = [op EXCEPT
                 !.phase = "cowload", !.buffer = read, !.parent = d,
                 !.child = child, !.backup = pte[s], !.wasShared = shared]
    BY <1>1, <1>3, <1>4 DEF CowDetach
  <2>2. op \in Ops
    BY <1>2, OpType
  <2>3. /\ op'.phase = "cowload" /\ op'.slot = s /\ op'.type = op.type
        /\ op'.buffer = read /\ op'.parent = d
        /\ op'.backup = pte[s] /\ op'.wasShared = shared
    <3> HIDE DEF shared, read
    <3> QED BY <1>1, <2>1, <2>2 DEF Ops
  <2> QED BY <1>2, <2>3
<1>18. StepPrepared'
  <2>1. ResetCopyOnWrite(pte[s]).write
    BY <1>2, MarksKeepRights
  <2>2. pte'[s].write
    BY <1>8, <1>9, <2>1 DEF SameRights
  <2> QED BY <1>17, <2>2 DEF StepPrepared
<1>19. BackupUsable'
  <2>1. ~fd'[d].sharedBit /\ fd'[d].owners = rest
    BY <1>5, <1>7
  <2>2. Entitled(pte[s], segment[s].flags)
    BY <1>1 DEF Copying, SegmentsEntitle
  <2>3. ~(Cardinality(fd[d].owners) > 1) => rest = {}
    <3>1. fd[d].owners \in SUBSET Slot
      BY <1>2, Parts
    <3> QED BY <1>3, <3>1, TwoOwners
  <2>4. \A t \in rest : pte'[t].dirty = pte[s].dirty
    <3>1. \A t \in rest : pte[t].dirty = pte[s].dirty /\ t \in Slot \ {s}
      BY <1>3, <1>5, OwnersHaveSegments DEF Copying, SharersAlike
    <3> QED BY <1>10, <3>1
  <2>5. pte[s].diskValid /\ ~pte[s].dirty =>
          mem[pte[s].vmFrameNum] = disk[pte[s].diskFrameNum]
    <3> SUFFICES ASSUME pte[s].diskValid, ~pte[s].dirty
                 PROVE  mem[pte[s].vmFrameNum] = disk[pte[s].diskFrameNum]
      OBVIOUS
    <3>1. ~GetDirty(d)
      BY <1>3, <1>5 DEF Copying, SharersAlike, GetDirty
    <3>2. AgreesWith(pte[s], d)
      BY <1>2, <1>3 DEF Places, OwnersLocated, Located
    <3> QED BY <1>2, <1>3, <1>5, <3>1, <3>2
            DEF Copying, CleanMeansSaved, Clean, AgreesWith
  <2> HIDE DEF rest
  <2> QED BY <1>2, <1>6, <1>17, <2>1, <2>2, <2>3, <2>4, <2>5 DEF BackupUsable
<1> QED BY <1>13, <1>14, <1>15, <1>16, <1>18, <1>19 DEF Copying

\* Without a frame for the copy the page is shared as it was before.
LEMMA CowRollbackCopying ==
  ASSUME Bookkeeping, Copying, CowRollback
  PROVE  Copying'
<1>1. PICK s \in Slot, d \in FDs, child \in FDs :
        /\ s = op.slot /\ d = op.parent /\ child = op.child /\ d # child
        /\ fd[child].owners = {s}
        /\ Located(op.backup, d) /\ segment[s] # NoSegment
  BY OpType DEF CowRollback, In, Bookkeeping, CopyPending, CopyNowhere, OnSegment
<1>2. PICK b \in PTE :
        /\ b = op.backup /\ Located(b, d)
        /\ ~fd[d].sharedBit /\ Entitled(b, segment[s].flags) /\ ~b.write
        /\ ~op.wasShared => fd[d].owners = {}
        /\ b.vmValid /\ op.buffer = mem[b.vmFrameNum]
        /\ \A t \in fd[d].owners : pte[t].dirty = b.dirty
        /\ b.diskValid /\ ~b.dirty => op.buffer = disk[b.diskFrameNum]
  BY <1>1, OpType DEF CowRollback, In, Copying, BackupUsable, Bookkeeping, Ops
<1> DEFINE owners == fd[d].owners \cup {s}
           restored == [pte EXCEPT ![s] = b]
<1>3. /\ fd' = [fd EXCEPT ![child] = BlankFD, ![d].owners = owners]
      /\ pte' = [t \in Slot |-> IF op.wasShared /\ t \in owners
                                  THEN SetCopyOnWrite(restored[t]) ELSE restored[t]]
      /\ UNCHANGED <<mem, disk, segment>>
  BY <1>1, <1>2 DEF CowRollback
<1>4. TypeOK /\ Places /\ \A t \in Slot : pte[t] \in PTE
  BY Parts DEF Bookkeeping
<1>5. /\ \A o \in FDs \ {d, child} : fd'[o] = fd[o]
      /\ fd'[child] = BlankFD
      /\ fd'[d].owners = owners
      /\ fd'[d].vmValid = fd[d].vmValid
      /\ fd'[d].vmFrameNum = fd[d].vmFrameNum
      /\ fd'[d].diskValid = fd[d].diskValid
      /\ fd'[d].diskFrameNum = fd[d].diskFrameNum
      /\ fd'[d].sharedBit = fd[d].sharedBit
  <2>1. fd \in [FDs -> FD] /\ fd[d] \in FD
    BY <1>4 DEF TypeOK, FMTypeOK
  <2> HIDE DEF owners
  <2> QED BY <1>1, <1>3, <2>1 DEF FD
<1>6. \A o \in FDs : \A t \in fd'[o].owners :
        /\ t \in Slot /\ segment[t] # NoSegment
        /\ o # child
        /\ o # d => t # s /\ t \in fd[o].owners /\ fd'[o] = fd[o]
        /\ o = d => t = s \/ t \in fd[d].owners
        /\ t # s => t \in fd[o].owners
        /\ t = s => o = d
  BY <1>1, <1>5, BlankIsNowhere, OwnersHaveSegments
     DEF Bookkeeping, Places, OneDescriptor
<1>7. /\ \A t \in Slot : restored[t] \in PTE
      /\ restored[s] = b
      /\ \A t \in Slot \ {s} : restored[t] = pte[t]
  BY <1>2, <1>4 DEF TypeOK, FMTypeOK
<1> HIDE DEF restored
<1>8. \A t \in Slot : /\ pte'[t].dirty = restored[t].dirty
                      /\ t \notin owners => pte'[t] = restored[t]
                      /\ t \in owners /\ op.wasShared => ~pte'[t].write
                      /\ \A flags : Entitled(restored[t], flags) => Entitled(pte'[t], flags)
  <2> HIDE DEF owners
  <2> QED BY <1>3, <1>7, MarksKeepRights
<1>9. KindsKept'
  <2>1. segment[s].name = Private
    <3>1. ~fd[child].sharedBit
      BY <1>1 DEF CowRollback, In, Bookkeeping, CopyPending, CopyNowhere
    <3> QED BY <1>1, <3>1 DEF Copying, KindsKept
  <2> SUFFICES ASSUME NEW o \in FDs, NEW t \in fd'[o].owners
      PROVE  fd'[o].sharedBit <=> segment[t].name # Private
    BY <1>3 DEF KindsKept
  <2>2. CASE o # d
    BY <1>6, <2>2 DEF Copying, KindsKept
  <2>3. CASE o = d
    BY <1>2, <1>5, <1>6, <2>1, <2>3 DEF Copying, KindsKept
  <2> QED BY <2>2, <2>3
<1>10. SegmentsEntitle'
  <2>1. \A t \in Slot : segment[t] # NoSegment => Entitled(restored[t], segment[t].flags)
    BY <1>2, <1>7 DEF Copying, SegmentsEntitle
  <2> QED BY <1>3, <1>8, <2>1 DEF SegmentsEntitle
<1>11. SharersAlike'
  <2> SUFFICES ASSUME NEW o \in FDs, NEW t \in fd'[o].owners
      PROVE  IF fd'[o].sharedBit THEN ~pte'[t].copyOnWrite
             ELSE \A u \in fd'[o].owners :
                    t # u => ~pte'[t].write /\ pte'[t].dirty = pte'[u].dirty
    BY DEF SharersAlike
  <2>1. CASE o = d
    <3>1. \A u \in fd'[d].owners : restored[u].dirty = b.dirty /\ u \in Slot
      BY <1>2, <1>6, <1>7
    <3>2. \A u \in fd'[d].owners : t # u => op.wasShared
      BY <1>2, <1>5, <2>1
    <3> QED BY <1>2, <1>5, <1>8, <2>1, <3>1, <3>2
  <2>2. CASE o # d
    <3>1. \A u \in fd[o].owners : u \in Slot /\ u # s /\ u \notin owners
      BY <1>1, <1>6, <2>2, OwnersHaveSegments DEF Bookkeeping, Places, OneDescriptor
    <3>2. \A u \in fd[o].owners : pte'[u] = pte[u]
      BY <1>7, <1>8, <3>1
    <3>3. t \in fd[o].owners /\ fd'[o] = fd[o]
      BY <1>6, <2>2
    <3> QED BY <3>2, <3>3 DEF Copying, SharersAlike
  <2> QED BY <2>1, <2>2
<1>12. CleanMeansSaved'
  <2> SUFFICES ASSUME NEW o \in FDs, ~fd'[o].sharedBit, fd'[o].owners # {},
                      fd'[o].vmValid, fd'[o].diskValid, ~GetDirty(o)'
               PROVE  mem[fd'[o].vmFrameNum] = disk[fd'[o].diskFrameNum]
    BY <1>3 DEF CleanMeansSaved, Clean
  <2>1. CASE o = d
    <3>1. ~b.dirty
      BY <1>5, <1>7, <1>8, <2>1 DEF GetDirty
    <3> QED BY <1>2, <1>5, <2>1, <3>1 DEF Located, AgreesWith
  <2>2. CASE o # d
    <3>1. PICK t \in fd'[o].owners : t \in fd[o].owners /\ fd'[o] = fd[o]
      BY <1>6, <2>2
    <3>2. \A u \in fd[o].owners : u \in Slot /\ u # s
      BY <1>1, <1>6, <2>2, <3>1
    <3>3. ~GetDirty(o)
      BY <1>7, <1>8, <3>1, <3>2 DEF GetDirty
    <3> QED BY <3>1, <3>3 DEF Copying, CleanMeansSaved, Clean
  <2> QED BY <2>1, <2>2
<1>13. op'.phase = "idle"
  BY FinishType DEF CowRollback
<1> QED BY <1>9, <1>10, <1>11, <1>12, <1>13, IdlePrepared DEF Copying

LEMMA CopyOnWriteCopying ==
  ASSUME Bookkeeping, Copying, CopyOnWrite
  PROVE  Copying'
<1>1. CASE DetachNull
  BY <1>1, StutterCopying DEF DetachNull, Crash
<1> QED BY <1>1, CowDetachCopying, CowCopyCopying, CowRollbackCopying DEF CopyOnWrite

---------------------------------------------------------------------------
(* Segments.                                                               *)

\* A page of a new segment has the rights of the segment.
LEMMA FreshRights ==
  ASSUME NEW flags, NEW d
  PROVE  /\ Entitled(FreshPTE(flags, d), flags)
         /\ ~FreshPTE(flags, d).copyOnWrite /\ ~FreshPTE(flags, d).vmValid
         /\ SameRights(AttachedPTE(flags, d), FreshPTE(flags, d))
<1> DEFINE r == CanBeRead(flags)
           w == CanBeWritten(flags)
           x == CanBeExecuted(flags)
<1>1. r \in BOOLEAN /\ w \in BOOLEAN /\ x \in BOOLEAN
  BY DEF CanBeRead, CanBeWritten, CanBeExecuted
<1>2. FreshPTE(flags, d) =
        [BlankPTE EXCEPT !.read = r, !.write = w, !.execute = x, !.diskFrameNum = d]
  BY DEF FreshPTE
<1> HIDE DEF r, w, x
<1>3. /\ FreshPTE(flags, d).read = r /\ FreshPTE(flags, d).write = w
      /\ FreshPTE(flags, d).execute = x /\ FreshPTE(flags, d).copyOnWrite = FALSE
      /\ FreshPTE(flags, d).vmValid = FALSE
  BY <1>2 DEF BlankPTE
<1>4. Entitled(FreshPTE(flags, d), flags)
  BY <1>1, <1>3 DEF Entitled, r, w, x
<1>5. SameRights(AttachedPTE(flags, d), FreshPTE(flags, d))
  <2> DEFINE dirty == GetDirty(d)
             referenced == GetReferenceBit(d)
  <2>1. AttachedPTE(flags, d) =
          [FreshPTE(flags, d) EXCEPT
             !.vmValid = fd[d].vmValid, !.vmFrameNum = fd[d].vmFrameNum,
             !.diskValid = fd[d].diskValid,
             !.diskFrameNum = IF fd[d].vmValid \/ fd[d].diskValid
                                THEN fd[d].diskFrameNum ELSE d,
             !.dirty = dirty, !.referenceBit = referenced]
    BY DEF AttachedPTE
  <2> HIDE DEF dirty, referenced
  <2> QED BY <1>2, <2>1 DEF BlankPTE, SameRights
<1> QED BY <1>3, <1>4, <1>5

LEMMA AllocateNewSegmentCopying ==
  ASSUME Bookkeeping, Copying, NEW s \in Slot, NEW flags \in Flags,
         AllocateNewSegment(s, flags)
  PROVE  /\ KindsKept' /\ SegmentsEntitle' /\ SharersAlike' /\ CleanMeansSaved'
         /\ segment'[s].name = Private
         /\ \A d \in FDs : s \in fd'[d].owners => fd'[d].owners = {s}
<1>1. PICK d \in FDs : d = NewFD /\ fd[d] = BlankFD
  BY NewFDFact DEF AllocateNewSegment, Unused
<1>2. /\ fd' = [fd EXCEPT ![d] = [BlankFD EXCEPT !.owners = {s}]]
      /\ pte' = [pte EXCEPT ![s] = FreshPTE(flags, d)]
      /\ segment' = [segment EXCEPT ![s] = [flags |-> flags, name |-> Private]]
      /\ segment[s] = NoSegment
      /\ UNCHANGED <<mem, disk>>
  BY <1>1 DEF AllocateNewSegment
<1>3. /\ \A o \in FDs \ {d} : fd'[o] = fd[o]
      /\ fd'[d].owners = {s} /\ ~fd'[d].vmValid /\ ~fd'[d].sharedBit
      /\ pte'[s] = FreshPTE(flags, d)
      /\ \A t \in Slot \ {s} : pte'[t] = pte[t] /\ segment'[t] = segment[t]
      /\ segment'[s].flags = flags /\ segment'[s].name = Private
  BY <1>1, <1>2 DEF Bookkeeping, TypeOK, FMTypeOK, PagingTypeOK, BlankFD
<1>4. \A o \in FDs \ {d} : \A t \in fd[o].owners : t \in Slot \ {s}
  BY <1>2, OwnersHaveSegments
<1>5. KindsKept'
  BY <1>3, <1>4 DEF Copying, KindsKept
<1>6. SegmentsEntitle'
  BY <1>3, FreshRights DEF Copying, SegmentsEntitle
<1>7. SharersAlike'
  <2>1. ASSUME NEW o \in FDs \ {d}, NEW t \in fd[o].owners
        PROVE  pte'[t] = pte[t]
    BY <1>3, <1>4
  <2> QED BY <1>3, <2>1 DEF Copying, SharersAlike
<1>8. CleanMeansSaved'
  <2>1. ASSUME NEW o \in FDs \ {d}, ~GetDirty(o)' PROVE ~GetDirty(o)
    BY <1>3, <1>4, <2>1 DEF GetDirty
  <2> QED BY <1>2, <1>3, <2>1 DEF Copying, CleanMeansSaved, Clean
<1> QED BY <1>3, <1>4, <1>5, <1>6, <1>7, <1>8

LEMMA NewSegmentCopying ==
  ASSUME Bookkeeping, Copying, NEW s \in Slot, NEW flags \in Flags,
         CreateSegment(s, flags) \/ \E w \in Images : LoadSegment(s, flags, w)
  PROVE  Copying'
<1>1. /\ KindsKept' /\ SegmentsEntitle' /\ SharersAlike' /\ CleanMeansSaved'
      /\ segment'[s].name = Private
      /\ \A d \in FDs : s \in fd'[d].owners => fd'[d].owners = {s}
  BY AllocateNewSegmentCopying DEF CreateSegment, LoadSegment
<1>2. \/ op'.phase = "idle"
      \/ op'.phase = "load" /\ op'.slot = s
  BY OpType DEF CreateSegment, LoadSegment, Idle, Bookkeeping, Ops
<1>3. StepPrepared' /\ BackupUsable'
  BY <1>1, <1>2 DEF StepPrepared, BackupUsable
<1> QED BY <1>1, <1>3 DEF Copying

\* A released page takes nothing else with it.
LEMMA ReleaseKeepsClean ==
  ASSUME Bookkeeping, CleanMeansSaved, NEW d \in FDs, ReleaseFD(d),
         \A o \in FDs \ {d} : \A s \in fd[o].owners : pte'[s] = pte[s]
  PROVE  CleanMeansSaved'
<1>1. /\ \A o \in FDs \ {d} : fd'[o] = fd[o]
      /\ fd'[d] = BlankFD
      /\ mem' = IF fd[d].vmValid THEN [mem EXCEPT ![fd[d].vmFrameNum] = Link] ELSE mem
      /\ disk' = IF fd[d].diskValid THEN [disk EXCEPT ![fd[d].diskFrameNum] = Zero]
                 ELSE disk
      /\ mem \in [Frames -> Values \cup {Link}]
      /\ disk \in [Clusters -> Values \cup {Link}]
  BY DEF ReleaseFD, Bookkeeping, TypeOK, FMTypeOK
<1> SUFFICES ASSUME NEW o \in FDs, ~fd'[o].sharedBit, fd'[o].owners # {},
                    fd'[o].vmValid, fd'[o].diskValid, ~GetDirty(o)'
             PROVE  mem'[fd'[o].vmFrameNum] = disk'[fd'[o].diskFrameNum]
  BY DEF CleanMeansSaved, Clean
<1>2. o # d /\ fd'[o] = fd[o]
  BY <1>1, BlankIsNowhere
<1>3. ~GetDirty(o)
  BY <1>2 DEF GetDirty
<1>4. mem[fd[o].vmFrameNum] = disk[fd[o].diskFrameNum]
  BY <1>2, <1>3 DEF CleanMeansSaved, Clean
<1>5. /\ fd[o].vmFrameNum \in Frames /\ fd[o].diskFrameNum \in Clusters
      /\ fd[d].vmValid => fd[o].vmFrameNum # fd[d].vmFrameNum
      /\ fd[d].diskValid => fd[o].diskFrameNum # fd[d].diskFrameNum
  BY <1>2, Apart, Parts DEF Bookkeeping
<1> QED BY <1>1, <1>2, <1>4, <1>5

LEMMA DeletionCopying ==
  ASSUME Bookkeeping, Copying, Unload \/ \E s \in Slot : DeleteSegment(s)
  PROVE  Copying'
<1>1. PICK s \in Slot : segment[s] # NoSegment /\ DeleteSegmentImpl(s)
  BY OpType DEF Unload, In, DeleteSegment, Bookkeeping, OnSegment
<1>2. PICK d \in FDs : s \in fd[d].owners /\ RemoveOwner(s, d)
  BY <1>1, FoundIsOwned DEF DeleteSegmentImpl, Bookkeeping
<1>3. /\ \A t \in Slot \ {s} : pte'[t] = pte[t] /\ segment'[t] = segment[t]
      /\ segment'[s] = NoSegment
  BY <1>1, <1>2 DEF DeleteSegmentImpl, RemoveOwner, Bookkeeping, TypeOK,
     FMTypeOK, PagingTypeOK
<1> DEFINE rest == fd[d].owners \ {s}
<1>4. /\ \A o \in FDs \ {d} : fd'[o] = fd[o]
      /\ fd'[d].owners = rest
      /\ \/ ReleaseFD(d) /\ rest = {}
         \/ /\ fd'[d].sharedBit = fd[d].sharedBit
            /\ fd'[d].vmValid = fd[d].vmValid
            /\ fd'[d].vmFrameNum = fd[d].vmFrameNum
            /\ fd'[d].diskValid = fd[d].diskValid
            /\ fd'[d].diskFrameNum = fd[d].diskFrameNum
            /\ UNCHANGED <<mem, disk>>
  <2>1. fd \in [FDs -> FD] /\ fd[d] \in FD
    BY DEF Bookkeeping, TypeOK, FMTypeOK
  <2>2. CASE rest = {} /\ ReleaseFD(d)
    BY <2>1, <2>2, BlankIsNowhere DEF ReleaseFD
  <2>3. CASE fd' = [fd EXCEPT ![d].owners = rest] /\ UNCHANGED <<mem, disk>>
    <3> HIDE DEF rest
    <3> QED BY <2>1, <2>3 DEF FD
  <2> QED BY <1>2, <2>2, <2>3 DEF RemoveOwner
<1>5. \A o \in FDs : \A t \in fd'[o].owners :
        /\ t \in fd[o].owners /\ t \in Slot \ {s}
        /\ fd'[o].sharedBit = fd[o].sharedBit
  <2>1. \A o \in FDs \ {d} : s \notin fd[o].owners
    BY <1>2 DEF Bookkeeping, Places, OneDescriptor
  <2> QED BY <1>4, <2>1, OwnersHaveSegments
<1>6. KindsKept' /\ SegmentsEntitle' /\ SharersAlike'
  <2>1. KindsKept'
    BY <1>3, <1>5 DEF Copying, KindsKept
  <2>2. SegmentsEntitle'
    BY <1>3 DEF Copying, SegmentsEntitle
  <2>3. SharersAlike'
    BY <1>3, <1>5 DEF Copying, SharersAlike
  <2> QED BY <2>1, <2>2, <2>3
<1>7. CleanMeansSaved'
  <2>1. \A o \in FDs \ {d} : \A t \in fd[o].owners : pte'[t] = pte[t]
    BY <1>2, <1>3, OwnersHaveSegments DEF Bookkeeping, Places, OneDescriptor
  <2>2. CASE ReleaseFD(d)
    BY <2>1, <2>2, ReleaseKeepsClean DEF Copying
  <2>3. CASE ~ReleaseFD(d)
    <3> SUFFICES ASSUME NEW o \in FDs, ~fd'[o].sharedBit, fd'[o].owners # {},
                        fd'[o].vmValid, fd'[o].diskValid, ~GetDirty(o)'
                 PROVE  mem'[fd'[o].vmFrameNum] = disk'[fd'[o].diskFrameNum]
      BY DEF CleanMeansSaved, Clean
    <3>1. PICK t \in fd'[o].owners : t \in fd[o].owners /\ ~pte[t].dirty
      BY <1>3, <1>5 DEF GetDirty
    <3>2. ~GetDirty(o)
      BY <1>5, <3>1 DEF Copying, SharersAlike, GetDirty
    <3> QED BY <1>4, <1>5, <2>3, <3>1, <3>2 DEF Copying, CleanMeansSaved, Clean
  <2> QED BY <2>2, <2>3
<1>8. op'.phase = "idle"
  BY FinishType DEF Unload, DeleteSegment, Idle
<1> QED BY <1>6, <1>7, <1>8, IdlePrepared DEF Copying

LEMMA CreateSharedSegmentCopying ==
  ASSUME Bookkeeping, Copying, NEW s \in Slot, NEW x \in SharedNames,
         NEW flags \in Flags, CreateSharedSegment(s, x, flags)
  PROVE  Copying'
<1>1. PICK d \in FDs :
        /\ d = IF sharedFD[x] = NoFD THEN NewFD ELSE sharedFD[x]
        /\ fd[d].owners # {} => fd[d].sharedBit
  BY NewFDFact, BlankIsNowhere
     DEF CreateSharedSegment, Unused, Bookkeeping, TypeOK, PagingTypeOK, SharedKnown
<1>2. /\ segment[s] = NoSegment
      /\ segment' = [segment EXCEPT ![s] = [flags |-> flags, name |-> x]]
      /\ pte' = [pte EXCEPT ![s] = AttachedPTE(flags, d)]
      /\ fd' = [fd EXCEPT ![d].owners = @ \cup {s}, ![d].sharedBit = TRUE]
      /\ UNCHANGED <<mem, disk>>
      /\ op'.phase = "idle"
  BY <1>1 DEF CreateSharedSegment, Idle
<1>3. /\ \A o \in FDs \ {d} : fd'[o] = fd[o]
      /\ fd'[d].owners = fd[d].owners \cup {s} /\ fd'[d].sharedBit
      /\ pte'[s] = AttachedPTE(flags, d)
      /\ \A t \in Slot \ {s} : pte'[t] = pte[t] /\ segment'[t] = segment[t]
      /\ segment'[s].flags = flags /\ segment'[s].name = x /\ x # Private
  BY <1>2, SegmentAssumption
     DEF Bookkeeping, TypeOK, FMTypeOK, PagingTypeOK, FD
<1>4. \A o \in FDs : \A t \in fd[o].owners : t \in Slot \ {s}
  BY <1>2, OwnersHaveSegments
<1>5. KindsKept'
  BY <1>1, <1>3, <1>4 DEF Copying, KindsKept
<1>6. SegmentsEntitle'
  <2>1. Entitled(pte'[s], flags)
    BY <1>3, FreshRights DEF Entitled, SameRights
  <2> QED BY <1>3, <2>1 DEF Copying, SegmentsEntitle
<1>7. SharersAlike'
  <2>1. ASSUME NEW o \in FDs, NEW t \in fd[o].owners
        PROVE  pte'[t] = pte[t]
    BY <1>3, <1>4
  <2>2. ~pte'[s].copyOnWrite
    BY <1>3, FreshRights DEF SameRights
  <2> QED BY <1>1, <1>3, <2>1, <2>2 DEF Copying, SharersAlike
<1>8. CleanMeansSaved'
  <2> SUFFICES ASSUME NEW o \in FDs, ~fd'[o].sharedBit, fd'[o].owners # {}, ~GetDirty(o)',
                      fd'[o].vmValid, fd'[o].diskValid
               PROVE  mem'[fd'[o].vmFrameNum] = disk'[fd'[o].diskFrameNum]
    BY DEF CleanMeansSaved, Clean
  <2>1. o # d /\ fd'[o] = fd[o]
    BY <1>3
  <2>2. ~GetDirty(o)
    BY <1>3, <1>4, <2>1 DEF GetDirty
  <2> QED BY <1>2, <2>1, <2>2 DEF Copying, CleanMeansSaved, Clean
<1> QED BY <1>2, <1>5, <1>6, <1>7, <1>8, IdlePrepared DEF Copying

LEMMA DeleteSharedSegmentCopying ==
  ASSUME Bookkeeping, Copying, NEW x \in SharedNames, DeleteSharedSegment(x)
  PROVE  Copying'
<1>1. PICK d \in FDs :
        /\ fd[d].owners = {} /\ ReleaseFD(d)
        /\ UNCHANGED <<pte, segment>> /\ op'.phase = "idle"
  BY DEF DeleteSharedSegment, Idle, Bookkeeping, TypeOK, PagingTypeOK
<1>2. \A o \in FDs : /\ fd'[o].owners = fd[o].owners
                     /\ o # d => fd'[o] = fd[o]
  BY <1>1, BlankIsNowhere DEF ReleaseFD, Bookkeeping, TypeOK, FMTypeOK
<1>3. KindsKept' /\ SegmentsEntitle' /\ SharersAlike'
  BY <1>1, <1>2 DEF Copying, KindsKept, SegmentsEntitle, SharersAlike
<1>4. CleanMeansSaved'
  BY <1>1, ReleaseKeepsClean DEF Copying
<1> QED BY <1>1, <1>3, <1>4, IdlePrepared DEF Copying

\* A clone's entry has its parent's rights once it is marked, and is dirty if
\* the page is.
LEMMA ClonedRights ==
  ASSUME NEW flags, NEW e \in PTE, NEW d, Entitled(e, flags),
         ClonedPTE(flags, e, d) \in PTE
  PROVE  /\ Entitled(SetCopyOnWrite(ClonedPTE(flags, e, d)), flags)
         /\ ClonedPTE(flags, e, d).dirty = GetDirty(d)
<1> DEFINE dirty == GetDirty(d)
           referenced == GetReferenceBit(d)
           new == FreshPTE(flags, d)
           cloned == ClonedPTE(flags, e, d)
<1>1. Entitled(new, flags) /\ ~new.copyOnWrite
  BY FreshRights
<1>2. cloned = [new EXCEPT
          !.vmValid = fd[d].vmValid, !.vmFrameNum = e.vmFrameNum,
          !.diskValid = fd[d].diskValid, !.diskFrameNum = e.diskFrameNum,
          !.dirty = dirty, !.referenceBit = referenced,
          !.copyOnWrite = e.copyOnWrite]
  BY DEF ClonedPTE
<1>3. /\ cloned.read = new.read /\ cloned.write = new.write
      /\ cloned.execute = new.execute
      /\ cloned.copyOnWrite = e.copyOnWrite /\ cloned.dirty = dirty
  <2>1. new = [BlankPTE EXCEPT !.read = CanBeRead(flags), !.write = CanBeWritten(flags),
                               !.execute = CanBeExecuted(flags), !.diskFrameNum = d]
    BY DEF FreshPTE
  <2>2. DOMAIN new = DOMAIN BlankPTE
    BY <2>1
  <2> HIDE DEF dirty, referenced, new, cloned
  <2> QED BY <1>2, <2>2 DEF BlankPTE
<1> HIDE DEF dirty, new, cloned
<1>4. /\ cloned.read \in BOOLEAN /\ cloned.write \in BOOLEAN
      /\ cloned.execute \in BOOLEAN /\ cloned.copyOnWrite \in BOOLEAN
      /\ new.write \in BOOLEAN
  BY <1>3, EntryParts DEF cloned
<1>5. Entitled(SetCopyOnWrite(cloned), flags)
  BY <1>1, <1>3, <1>4 DEF cloned, Entitled, SetCopyOnWrite, PTE
<1> QED BY <1>3, <1>5 DEF cloned, dirty

LEMMA CloneProcessCopying ==
  ASSUME Bookkeeping, Copying, NEW p \in Procs, NEW q \in Procs,
         CloneProcess(p, q)
  PROVE  Copying'
<1> DEFINE From(t)     == <<p, t[2]>>
           Inherits(t) == t[1] = q /\ segment[From(t)] # NoSegment
           Shares(t)   == segment[From(t)].name # Private
           Page(t)     == IF Shares(t) THEN sharedFD[segment[From(t)].name]
                          ELSE FrameDescOf(pte[From(t)])
           Entry(t)    == IF Shares(t)
                            THEN AttachedPTE(segment[From(t)].flags, Page(t))
                            ELSE ClonedPTE(segment[From(t)].flags,
                                           pte[From(t)], Page(t))
           New(d)      == {t \in Slot : Inherits(t) /\ Page(t) = d}
           Marked(t)   == \E d \in FDs :
                            /\ ~fd[d].sharedBit
                            /\ New(d) # {}
                            /\ t \in fd[d].owners \cup New(d)
                            /\ Cardinality(fd[d].owners \cup New(d)) > 1
           Copied(t)   == IF Inherits(t) THEN Entry(t) ELSE pte[t]
<1>1. /\ \A t \in Slot : Inherits(t) => Page(t) # NoFD
      /\ segment' = [t \in Slot |-> IF t[1] = q THEN segment[From(t)] ELSE segment[t]]
      /\ fd' = [d \in FDs |-> [fd[d] EXCEPT !.owners = @ \cup New(d)]]
      /\ pte' = [t \in Slot |-> IF Marked(t) THEN SetCopyOnWrite(Copied(t))
                                ELSE Copied(t)]
      /\ \A v \in VPages : segment[<<q, v>>] = NoSegment
      /\ UNCHANGED <<mem, disk>>
      /\ op'.phase = "idle"
  BY DEF CloneProcess, Idle
<1>2. \A t \in Slot : /\ From(t) \in Slot
                      /\ t[1] = q => segment[t] = NoSegment
  BY <1>1 DEF Slot
<1>3. \A d \in FDs : fd[d].owners \subseteq Slot
  BY OwnersHaveSegments
<1>4. ASSUME NEW t \in Slot, Inherits(t)
      PROVE  /\ Page(t) \in FDs /\ Entry(t) \in PTE
             /\ segment'[t] = segment[From(t)]
             /\ \/ /\ Shares(t) /\ fd[Page(t)].sharedBit
                   /\ SameRights(Entry(t), FreshPTE(segment'[t].flags, Page(t)))
                \/ /\ ~Shares(t) /\ ~fd[Page(t)].sharedBit
                   /\ From(t) \in fd[Page(t)].owners
                   /\ Entry(t).dirty = GetDirty(Page(t))
                   /\ Entitled(SetCopyOnWrite(Entry(t)), segment'[t].flags)
  <2>1. /\ From(t) \in Slot /\ segment[From(t)] \in Segments
        /\ pte[From(t)] \in PTE /\ Page(t) # NoFD
        /\ segment'[t] = segment[From(t)]
    BY <1>1, <1>2, <1>4 DEF Bookkeeping, TypeOK, FMTypeOK, PagingTypeOK
  <2>2. CASE Shares(t)
    <3>1. Page(t) \in FDs /\ fd[Page(t)].sharedBit
      BY <2>1, <2>2 DEF Segments, Bookkeeping, TypeOK, PagingTypeOK, SharedKnown
    <3>2. Entry(t) = AttachedPTE(segment[From(t)].flags, Page(t))
      BY <2>2
    <3> HIDE DEF Page, Entry
    <3>3. Entry(t) \in PTE
      BY <3>1, <3>2, AttachedType DEF Bookkeeping, TypeOK
    <3> QED BY <2>1, <2>2, <3>1, <3>2, <3>3, FreshRights
  <2>3. CASE ~Shares(t)
    <3> DEFINE e == pte[From(t)]
    <3>1. Page(t) = FrameDescOf(e)
      BY <2>3
    <3>2. Page(t) \in FDs /\ From(t) \in fd[Page(t)].owners
      BY <1>4, <2>1, <3>1, FoundIsOwned DEF Bookkeeping
    <3>3. Entry(t) = ClonedPTE(segment[From(t)].flags, e, Page(t))
      BY <2>3
    <3> HIDE DEF Page, Entry
    <3>4. Entry(t) \in PTE
      BY <2>1, <3>2, <3>3, AttachedType DEF Bookkeeping, TypeOK
    <3>5. Entitled(e, segment[From(t)].flags)
      BY <1>4, <2>1 DEF Copying, SegmentsEntitle
    <3>6. ~fd[Page(t)].sharedBit
      BY <2>3, <3>2 DEF Copying, KindsKept
    <3> HIDE DEF e
    <3>7. e \in PTE
      BY <2>1 DEF e
    <3>8. /\ Entitled(SetCopyOnWrite(Entry(t)), segment[From(t)].flags)
          /\ Entry(t).dirty = GetDirty(Page(t))
      BY <3>3, <3>4, <3>5, <3>7, ClonedRights
    <3> QED BY <2>1, <2>3, <3>2, <3>4, <3>6, <3>8
  <2> QED BY <2>2, <2>3
<1>5. \A o \in FDs : /\ fd'[o].vmValid = fd[o].vmValid
                     /\ fd'[o].vmFrameNum = fd[o].vmFrameNum
                     /\ fd'[o].diskValid = fd[o].diskValid
                     /\ fd'[o].diskFrameNum = fd[o].diskFrameNum
                     /\ fd'[o].sharedBit = fd[o].sharedBit
                     /\ fd'[o].owners = fd[o].owners \cup New(o)
  <2> HIDE DEF New
  <2>1. \A o \in FDs : fd[o] \in FD
    BY Parts DEF Bookkeeping
  <2> QED BY <1>1, <2>1 DEF FD
<1>6. ASSUME NEW o \in FDs, NEW t \in fd'[o].owners
      PROVE  /\ t \in Slot
             /\ t \in New(o) => Inherits(t) /\ Page(t) = o
             /\ t \notin New(o) => ~Inherits(t) /\ t \in fd[o].owners
             /\ t \notin New(o) => segment[t] # NoSegment /\ segment'[t] = segment[t]
  <2>1. CASE t \in New(o)
    BY <2>1
  <2>2. CASE t \notin New(o)
    <3>1. t \in fd[o].owners
      BY <1>5, <2>2
    <3>2. t \in Slot /\ segment[t] # NoSegment
      BY <3>1, OwnersHaveSegments
    <3> QED BY <1>1, <1>2, <2>2, <3>1, <3>2
  <2> QED BY <2>1, <2>2
<1>7. \A o \in FDs : \A t \in New(o) : Inherits(t) /\ Page(t) = o /\ t \in Slot
  OBVIOUS
<1>8. ASSUME NEW o \in FDs, NEW t \in fd'[o].owners
      PROVE  Marked(t) <=> ~fd[o].sharedBit /\ New(o) # {}
  <2>1. ASSUME NEW d \in FDs, t \in fd[d].owners \cup New(d) PROVE d = o
    <3>1. CASE t \in New(d)
      BY <1>6, <1>7, <3>1
    <3>2. CASE t \notin New(d)
      <4>1. t \in fd[d].owners
        BY <2>1, <3>2
      <4>2. ~Inherits(t)
        BY <1>1, <1>2, <4>1, OwnersHaveSegments
      <4>3. t \in fd[o].owners /\ t \in Slot
        BY <1>6, <4>2
      <4> HIDE DEF New
      <4> QED BY <4>1, <4>3 DEF Bookkeeping, Places, OneDescriptor
    <3> QED BY <3>1, <3>2
  <2>2. ASSUME ~fd[o].sharedBit, New(o) # {}
        PROVE  Cardinality(fd[o].owners \cup New(o)) > 1
    <3>1. PICK u \in New(o) : Inherits(u) /\ Page(u) = o /\ u \in Slot
      BY <1>7, <2>2
    <3>2. From(u) \in fd[o].owners
      BY <1>4, <2>2, <3>1
    <3>3. From(u) # u
      BY <1>2, <3>1, <3>2, OwnersHaveSegments
    <3>4. fd[o].owners \cup New(o) \in SUBSET Slot
      BY <1>3, <1>7
    <3> QED BY <3>1, <3>2, <3>3, <3>4, TwoOwners
  <2>3. t \in fd[o].owners \cup New(o)
    BY <1>5
  <2> QED BY <2>1, <2>2, <2>3
<1> HIDE DEF Marked, New, Inherits, From, Shares, Page, Entry
<1>9. ASSUME NEW t \in Slot, ~Inherits(t), segment[t] # NoSegment
      PROVE  /\ pte'[t].dirty = pte[t].dirty
             /\ ~pte[t].copyOnWrite /\ ~Marked(t) => ~pte'[t].copyOnWrite
             /\ ~pte[t].write => ~pte'[t].write
             /\ Marked(t) => ~pte'[t].write
             /\ \A flags : Entitled(pte[t], flags) => Entitled(pte'[t], flags)
  <2>1. pte[t] \in PTE /\ Copied(t) = pte[t]
    BY <1>9, Parts DEF Bookkeeping
  <2> HIDE DEF Copied
  <2> QED BY <1>1, <2>1, MarksKeepRights
<1>10. ASSUME NEW t \in Slot, Inherits(t)
       PROVE  /\ pte'[t].dirty = Entry(t).dirty
              /\ ~Marked(t) => pte'[t] = Entry(t)
              /\ Marked(t) => ~pte'[t].write /\ pte'[t] = SetCopyOnWrite(Entry(t))
  <2>1. Copied(t) = Entry(t) /\ Entry(t) \in PTE
    BY <1>4, <1>10
  <2> HIDE DEF Copied
  <2> QED BY <1>1, <2>1, MarksKeepRights
<1> HIDE DEF Copied
<1>11. KindsKept'
  <2> SUFFICES ASSUME NEW o \in FDs, NEW t \in fd'[o].owners
      PROVE  fd'[o].sharedBit <=> segment'[t].name # Private
    BY DEF KindsKept
  <2>1. CASE t \in New(o)
    BY <1>4, <1>5, <1>6, <2>1 DEF Shares
  <2>2. CASE t \notin New(o)
    BY <1>5, <1>6, <2>2 DEF Copying, KindsKept
  <2> QED BY <2>1, <2>2
<1>12. ASSUME NEW t \in Slot, segment'[t] # NoSegment
       PROVE  Entitled(pte'[t], segment'[t].flags)
  <2>1. CASE Inherits(t)
    <3>1. PICK o \in FDs : o = Page(t) /\ t \in New(o) /\ t \in fd'[o].owners
      BY <1>4, <1>5, <2>1 DEF New
    <3>2. CASE Shares(t)
      BY <1>4, <1>8, <1>10, <2>1, <3>1, <3>2, FreshRights DEF Entitled, SameRights
    <3>3. CASE ~Shares(t)
      BY <1>4, <1>8, <1>10, <2>1, <3>1, <3>3
    <3> QED BY <3>2, <3>3
  <2>2. CASE ~Inherits(t)
    <3>1. segment'[t] = segment[t]
      BY <1>1, <1>2, <1>12, <2>2 DEF Inherits
    <3> QED BY <1>9, <1>12, <2>2, <3>1 DEF Copying, SegmentsEntitle
  <2> QED BY <2>1, <2>2
<1>13. ASSUME NEW o \in FDs, NEW t \in fd'[o].owners, fd[o].sharedBit
       PROVE  ~pte'[t].copyOnWrite
  <2>1. CASE t \in New(o)
    BY <1>4, <1>6, <1>8, <1>10, <1>13, <2>1, FreshRights DEF SameRights
  <2>2. CASE t \notin New(o)
    BY <1>6, <1>8, <1>9, <1>13, <2>2 DEF Copying, SharersAlike
  <2> QED BY <2>1, <2>2
<1>14. ASSUME NEW o \in FDs, ~fd[o].sharedBit, NEW t \in fd'[o].owners
       PROVE  /\ pte'[t].dirty \in BOOLEAN
              /\ pte'[t].dirty = GetDirty(o)
              /\ New(o) # {} => ~pte'[t].write
  <2>1. pte'[t].dirty = GetDirty(o)
    <3>1. CASE t \in New(o)
      BY <1>4, <1>6, <1>10, <1>14, <3>1
    <3>2. CASE t \notin New(o)
      <4>1. t \in fd[o].owners /\ pte'[t].dirty = pte[t].dirty /\ pte[t].dirty \in BOOLEAN
        BY <1>6, <1>9, <3>2, OwnersHaveSegments, EntryParts
      <4>2. \A u \in fd[o].owners : pte[u].dirty = pte[t].dirty
        BY <1>14, <4>1 DEF Copying, SharersAlike
      <4> QED BY <4>1, <4>2 DEF GetDirty
    <3> QED BY <3>1, <3>2
  <2>2. GetDirty(o) \in BOOLEAN
    BY DEF GetDirty
  <2>3. New(o) # {} => ~pte'[t].write
    BY <1>6, <1>8, <1>9, <1>10, <1>14
  <2> QED BY <2>1, <2>2, <2>3
<1>15. SharersAlike'
  <2> SUFFICES ASSUME NEW o \in FDs, NEW t \in fd'[o].owners
      PROVE  IF fd'[o].sharedBit THEN ~pte'[t].copyOnWrite
             ELSE \A u \in fd'[o].owners :
                    t # u => ~pte'[t].write /\ pte'[t].dirty = pte'[u].dirty
    BY DEF SharersAlike
  <2>1. CASE fd[o].sharedBit
    BY <1>5, <1>13, <2>1
  <2>2. CASE ~fd[o].sharedBit
    <3>1. \A u \in fd'[o].owners : pte'[t].dirty = pte'[u].dirty
      BY <1>14, <2>2
    <3>2. ASSUME NEW u \in fd'[o].owners, t # u PROVE ~pte'[t].write
      <4>1. CASE New(o) # {}
        BY <1>14, <2>2, <4>1
      <4>2. CASE New(o) = {}
        <5>1. t \in fd[o].owners /\ u \in fd[o].owners
          BY <1>6, <4>2
        <5>2. ~pte[t].write
          BY <2>2, <3>2, <5>1 DEF Copying, SharersAlike
        <5> QED BY <1>6, <1>9, <4>2, <5>2
      <4> QED BY <4>1, <4>2
    <3> QED BY <1>5, <2>2, <3>1, <3>2
  <2> QED BY <2>1, <2>2
<1>16. CleanMeansSaved'
  <2> SUFFICES ASSUME NEW o \in FDs, ~fd'[o].sharedBit, fd'[o].owners # {}, ~GetDirty(o)',
                      fd'[o].vmValid, fd'[o].diskValid
               PROVE  mem'[fd'[o].vmFrameNum] = disk'[fd'[o].diskFrameNum]
    BY DEF CleanMeansSaved, Clean
  <2>1. PICK t \in fd'[o].owners : ~pte'[t].dirty
    BY DEF GetDirty
  <2>2. ~GetDirty(o)
    BY <1>5, <1>14, <2>1
  <2>3. fd[o].owners # {}
    BY <1>4, <1>5, <1>6, <2>1
  <2> QED BY <1>1, <1>5, <2>2, <2>3 DEF Copying, CleanMeansSaved, Clean
<1>17. SegmentsEntitle'
  BY <1>12 DEF SegmentsEntitle
<1> QED BY <1>1, <1>11, <1>15, <1>16, <1>17, IdlePrepared DEF Copying

---------------------------------------------------------------------------
(* Every step keeps the invariant.                                         *)

LEMMA InitCopying == Init => Copying
<1> SUFFICES ASSUME Init PROVE Copying
  OBVIOUS
<1>1. /\ \A d \in FDs : fd[d].owners = {}
      /\ \A s \in Slot : segment[s] = NoSegment
      /\ op.phase = "idle"
  BY DEF Init, FMInit, BlankFD, IdleOp
<1>2. KindsKept /\ SegmentsEntitle /\ SharersAlike /\ CleanMeansSaved
  BY <1>1 DEF KindsKept, SegmentsEntitle, SharersAlike, CleanMeansSaved
<1>3. StepPrepared /\ BackupUsable
  BY <1>1 DEF StepPrepared, BackupUsable
<1> QED BY <1>2, <1>3 DEF Copying

LEMMA NextCopying ==
  ASSUME Bookkeeping, Copying, [Next]_vars, ~ReadMayFail
  PROVE  Copying'
<1>1. CASE UNCHANGED vars
  BY <1>1, StutterCopying DEF vars
<1>2. ASSUME NEW s \in Slot, NEW type \in Accesses, NEW w \in Values,
             Access(s, type, w)
      PROVE Copying'
  BY <1>2, AccessCopying
<1>3. ASSUME NEW s \in Slot, NEW flags \in Flags,
             CreateSegment(s, flags) \/ \E w \in Images : LoadSegment(s, flags, w)
      PROVE Copying'
  BY <1>3, NewSegmentCopying
<1>4. ASSUME NEW s \in Slot, NEW x \in SharedNames, NEW flags \in Flags,
             CreateSharedSegment(s, x, flags)
      PROVE Copying'
  BY <1>4, CreateSharedSegmentCopying
<1>5. ASSUME NEW x \in SharedNames, DeleteSharedSegment(x)
      PROVE Copying'
  BY <1>5, DeleteSharedSegmentCopying
<1>6. CASE Unload \/ \E s \in Slot : DeleteSegment(s)
  BY <1>6, DeletionCopying
<1>7. ASSUME NEW p \in Procs, NEW q \in Procs, CloneProcess(p, q)
      PROVE Copying'
  BY <1>7, CloneProcessCopying
<1>8. CASE \/ \E s \in Slot : DeleteNull(s)
           \/ \E p, q \in Procs : CloneNull(p, q)
           \/ TouchFree
  BY <1>8, StutterCopying DEF DeleteNull, CloneNull, TouchFree, Crash
<1>9. CASE Retry
  BY <1>9, RetryCopying
<1>10. CASE Touch
  BY <1>10, TouchCopying
<1>11. CASE LoadFrame
  BY <1>11, LoadFrameCopying
<1>12. CASE CopyOnWrite
  BY <1>12, CopyOnWriteCopying
<1>13. CASE Fill
  BY <1>13, FillCopying
<1>14. CASE Halted
  BY <1>1, <1>14 DEF Halted
<1> QED BY <1>1, <1>2, <1>3, <1>4, <1>5, <1>6, <1>7, <1>8, <1>9, <1>10, <1>11,
           <1>12, <1>13, <1>14
        DEF Next

---------------------------------------------------------------------------
(* The theorems: on a partition whose clusters can be read, whatever       *)
(* operations run, writes fail or the partition is full.                   *)

\* Pages and their descriptors are of one kind, rights are what segments give,
\* pages shared since a clone are not written, a clean page is on disk as it
\* is in memory, and every step of an instruction finds what it relies on.
THEOREM CopyingKept == ASSUME ~ReadMayFail PROVE Spec => []Copying
<1>1. Init => Bookkeeping /\ Copying
  BY InitBookkeeping, InitCopying
<1>2. Bookkeeping /\ Copying /\ [Next]_vars => Bookkeeping' /\ Copying'
  BY NextBookkeeping, NextCopying
<1> QED BY <1>1, <1>2, PTL DEF Spec

\* No process writes to a page it shares with a clone (cloneProcess, pageFault).
THEOREM ClonesIsolated == ASSUME ~ReadMayFail PROVE Spec => []CowIsolation
<1>1. ASSUME Bookkeeping, Copying PROVE CowIsolation
  <2> SUFFICES ASSUME NEW d \in FDs, ~fd[d].sharedBit, Cardinality(fd[d].owners) > 1,
                      NEW s \in fd[d].owners
               PROVE  ~pte[s].write
    BY DEF CowIsolation
  <2>1. fd[d].owners \in SUBSET Slot
    BY <1>1, OwnersHaveSegments
  <2>2. PICK t \in fd[d].owners : t # s
    BY <2>1, TwoOwners
  <2> QED BY <1>1, <2>2 DEF Copying, SharersAlike
<1> QED BY <1>1, BookkeepingKept, CopyingKept, PTL

\* A page is writable, now or after a copy, exactly when its segment is
\* (setCopyOnWrite, resetCopyOnWrite, the copies in pageFault and cloneProcess).
THEOREM RightsAlwaysKept == ASSUME ~ReadMayFail PROVE Spec => []RightsKept
<1>1. Copying => RightsKept
  BY DEF Copying, SegmentsEntitle, Entitled, RightsKept
<1> QED BY <1>1, CopyingKept, PTL

\* Evicting a private page that no owner marks dirty loses nothing (flushFrame).
THEOREM CleanPagesSaved == ASSUME ~ReadMayFail PROVE Spec => []CleanMeansSaved
<1>1. Copying => CleanMeansSaved
  BY DEF Copying
<1> QED BY <1>1, CopyingKept, PTL

\* After pageFault returned OK the access is granted and has an address, as
\* SystemTest asserts.
THEOREM InstructionsComplete == ASSUME ~ReadMayFail PROVE Spec => []InstructionCompletes
<1>1. Copying => InstructionCompletes
  BY DEF Copying, StepPrepared, InstructionCompletes, In
<1> QED BY <1>1, CopyingKept, PTL

\* A page that says it is in memory is in a frame that was allocated to it
\* (loadFrameInVM, getPhysicalAddress).
THEOREM MappedFramesStayAllocated ==
  ASSUME ~ReadMayFail PROVE Spec => []MappedFramesAllocated
<1>1. ASSUME Bookkeeping PROVE MappedFramesAllocated
  <2> SUFFICES ASSUME NEW s \in Slot, segment[s] # NoSegment, pte[s].vmValid
      PROVE  pte[s].vmFrameNum \notin vmFree
    BY DEF MappedFramesAllocated
  <2>1. PICK d \in FDs : Located(pte[s], d)
    BY <1>1, Owner
  <2> QED BY <1>1, <2>1 DEF Located, AgreesWith, Bookkeeping, Places, FrameAccounting
<1> QED BY <1>1, BookkeepingKept, PTL

\* A page fault on an access that the segment allows is refused by the
\* partition only.
LEMMA FaultsResolved ==
  ASSUME Bookkeeping, Copying, Next, ~ReadMayFail, "READ_WRITE" \notin Accesses,
         op.phase = "fault", op'.phase = "idle"
  PROVE  \/ failing'
         \/ ~IsAccessAllowed(FreshPTE(segment[op.slot].flags, NoFD), op.type)
<1>1. /\ op.slot \in Slot /\ segment[op.slot] # NoSegment
      /\ op.type \in AccessTypes \ {"READ_WRITE"}
      /\ pte[op.slot] \in PTE
      /\ Entitled(pte[op.slot], segment[op.slot].flags)
  BY OpType, Parts DEF Bookkeeping, OnSegment, Copying, StepPrepared, SegmentsEntitle, Ops
<1>2. ASSUME NEW e, SameRights(e, pte[op.slot]),
             ~IsAccessAllowed(e, op.type), ~ShouldHandleCOW(e, op.type)
      PROVE  ~IsAccessAllowed(FreshPTE(segment[op.slot].flags, NoFD), op.type)
  <2>1. Entitled(FreshPTE(segment[op.slot].flags, NoFD), segment[op.slot].flags)
        /\ ~FreshPTE(segment[op.slot].flags, NoFD).copyOnWrite
    BY FreshRights
  <2>2. Entitled(e, segment[op.slot].flags)
    BY <1>1, <1>2 DEF Entitled, SameRights
  <2> HIDE DEF Entitled
  <2> DEFINE new == FreshPTE(segment[op.slot].flags, NoFD)
  <2> HIDE DEF new
  <2>3. /\ op.type = "READ" => ~new.read
        /\ op.type = "EXECUTE" => ~new.execute
        /\ op.type = "WRITE" => ~(new.write \/ new.copyOnWrite)
    BY <1>1, <1>2, <2>1, <2>2
       DEF Entitled, IsAccessAllowed, ShouldHandleCOW, AccessTypes, new
  <2> QED BY <1>1, <2>3 DEF new, IsAccessAllowed, AccessTypes
<1>3. ASSUME NEW e, SameRights(e, pte[op.slot]), Loaded(e)
      PROVE  ~IsAccessAllowed(FreshPTE(segment[op.slot].flags, NoFD), op.type)
  <2>1. op \in Ops
    BY OpType DEF Bookkeeping
  <2>2. AfterLoad(e) = "idle"
    BY <1>3, <2>1 DEF Loaded, Ops
  <2>3. ~IsAccessAllowed(e, op.type) /\ ~ShouldHandleCOW(e, op.type)
    BY <2>2 DEF AfterLoad
  <2> QED BY <1>2, <1>3, <2>3
<1>4. CASE LoadResident
  BY <1>3, <1>4 DEF LoadResident, SameRights
<1>5. CASE LoadPlace
  <2>1. SameRights(pte'[op.slot], pte[op.slot])
    <3> DEFINE d == FrameDescOf(pte[op.slot])
               fresh == ~fd[d].diskValid
    <3>1. PICK f \in vmFree :
            pte' = [t \in Slot |-> IF t \in fd[d].owners THEN Arrived(pte[t], f, fresh)
                                   ELSE pte[t]]
      BY <1>5 DEF LoadPlace, Place
    <3> HIDE DEF d, fresh
    <3>2. \/ pte'[op.slot] = Arrived(pte[op.slot], f, fresh)
          \/ pte'[op.slot] = pte[op.slot]
      BY <1>1, <3>1
    <3> QED BY <1>1, <3>2, BitsKeepRights DEF SameRights
  <2> QED BY <1>3, <1>5, <2>1 DEF LoadPlace
<1>6. CASE LoadEvictFails \/ LoadPlaceFails
  BY <1>6 DEF LoadEvictFails, LoadPlaceFails, EvictFails, PlaceFails
<1>7. CASE LoadEvict \/ LoadEvictCrashes \/ LoadNull
  BY <1>7 DEF LoadEvict, LoadEvictCrashes, LoadNull, Crash
<1>8. CASE TouchFree \/ CopyOnWrite \/ Fill \/ Unload \/ Retry \/ Touch \/ Halted
  BY <1>8 DEF CopyOnWrite, CowDetach, DetachNull, CowCopy, CowRollback, TouchFree,
     Fill, Unload, Retry, Touch, In, Halted, vars
<1>9. ASSUME NEW s \in Slot, NEW type \in Accesses, NEW w \in Values
      PROVE  ~Access(s, type, w)
  BY DEF Access, Idle
<1>10. ASSUME NEW s \in Slot, NEW flags \in Flags
       PROVE  /\ ~CreateSegment(s, flags)
              /\ \A w : ~LoadSegment(s, flags, w)
              /\ \A x : ~CreateSharedSegment(s, x, flags)
  BY DEF CreateSegment, LoadSegment, CreateSharedSegment, Idle
<1>11. /\ \A s : ~DeleteSegment(s) /\ ~DeleteNull(s)
       /\ \A x : ~DeleteSharedSegment(x)
       /\ \A p, q : ~CloneProcess(p, q) /\ ~CloneNull(p, q)
  BY DEF DeleteSegment, DeleteNull, DeleteSharedSegment, CloneProcess, CloneNull, Idle
<1> QED BY <1>4, <1>5, <1>6, <1>7, <1>8, <1>9, <1>10, <1>11 DEF Next, LoadFrame

\* pageFault refuses an access that the segment's rights allow only when the
\* partition failed or is full, if no process asks to read and write at once
\* (for that the handler does not copy, kernelprocess.cpp:882).
THEOREM FaultsAreResolved ==
  ASSUME ~ReadMayFail, "READ_WRITE" \notin Accesses PROVE Spec => FaultResolved
<1>1. Bookkeeping /\ Copying /\ [Next]_vars =>
        [op.phase = "fault" /\ op'.phase = "idle" =>
           \/ failing'
           \/ ~IsAccessAllowed(FreshPTE(segment[op.slot].flags, NoFD), op.type)]_vars
  BY FaultsResolved
<1> QED BY <1>1, BookkeepingKept, CopyingKept, PTL DEF Spec, FaultResolved

===========================================================================
