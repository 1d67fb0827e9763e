------------------------- MODULE AccountingProofs -------------------------
(***************************************************************************)
(* No frame, cluster or descriptor is lost, freed while it is in use, or   *)
(* used twice, whatever the constants are.  AccountsLocated is kept by     *)
(* every step that shares no stranded page, and as long as clusters can be *)
(* read no page is stranded, so that Bookkeeping is inductive.  The        *)
(* reference, dirty and copy-on-write bits play no part in it: most lemmas *)
(* compare entries by where they say their page is.                        *)
(***************************************************************************)
EXTENDS PagingProofs

SameWhere(e, o) ==
  /\ e.vmValid = o.vmValid /\ e.vmFrameNum = o.vmFrameNum
  /\ e.diskValid = o.diskValid /\ e.diskFrameNum = o.diskFrameNum

\* The bits that are set and reset say nothing of where a page is.
LEMMA BitsKeepPlace ==
  ASSUME NEW e \in PTE
  PROVE  /\ \A type : SameWhere(Accessed(e, type), e)
         /\ SameWhere(NoReference(e), e)
         /\ SameWhere(SetCopyOnWrite(e), e)
         /\ SameWhere(ResetCopyOnWrite(e), e)
BY DEF SameWhere, Accessed, NoReference, SetCopyOnWrite, ResetCopyOnWrite, PTE

LEMMA SweptWhere ==
  ASSUME FMTypeOK, NEW passed, NEW s \in Slot
  PROVE  SweptPTE(passed)[s] \in PTE /\ SameWhere(SweptPTE(passed)[s], pte[s])
<1>1. pte[s] \in PTE
  BY DEF FMTypeOK
<1> QED BY <1>1, BitsKeepPlace, EntriesType DEF SweptPTE, SameWhere

\* The parts of descriptors and entries have their types.
LEMMA Parts ==
  ASSUME TypeOK
  PROVE  /\ \A d \in FDs :
              /\ fd[d] \in FD
              /\ fd[d].owners \subseteq Slot /\ fd[d].vmFrameNum \in Frames
              /\ fd[d].vmValid \in BOOLEAN /\ fd[d].diskValid \in BOOLEAN
              /\ fd[d].diskFrameNum \in Clusters \cup {NoCluster}
              /\ fd[d].sharedBit \in BOOLEAN
              /\ fd[d].diskValid => fd[d].diskFrameNum \in Clusters
         /\ \A s \in Slot :
              /\ pte[s] \in PTE
              /\ pte[s].vmValid \in BOOLEAN /\ pte[s].diskValid \in BOOLEAN
              /\ pte[s].vmFrameNum \in Frames
              /\ pte[s].diskFrameNum \in Clusters \cup FDs \cup {NoCluster}
BY DEF TypeOK, FMTypeOK, FD, PTE

\* frameDescFromPMT2Desc finds the descriptor of a page that has one, unless
\* the page was dropped; it never finds another one's.
LEMMA Found ==
  ASSUME TypeOK, FrameAccounting, ClusterAccounting, NEW s \in Slot, NEW d \in FDs,
         Located(pte[s], d)
  PROVE  \/ FrameDescOf(pte[s]) = d
         \/ /\ FrameDescOf(pte[s]) = NoFD
            /\ pte[s].diskFrameNum = NoCluster /\ Dropped(d)
<1>1. CASE pte[s].vmValid
  <2>1. fd[d].vmValid /\ pte[s].vmFrameNum = fd[d].vmFrameNum
    BY <1>1 DEF Located, AgreesWith
  <2>2. vmDescriptors[fd[d].vmFrameNum] = d
    BY <2>1 DEF FrameAccounting
  <2> QED BY <1>1, <2>1, <2>2 DEF FrameDescOf
<1>2. CASE ~pte[s].vmValid /\ pte[s].diskValid
  BY <1>2, Parts DEF Located, AgreesWith, FrameDescOf, ClusterAccounting
<1>3. CASE ~pte[s].vmValid /\ ~pte[s].diskValid
  BY <1>3, Parts, PointersAssumption
     DEF Located, AgreesWith, FrameDescOf, Dropped
<1> QED BY <1>1, <1>2, <1>3

\* So the descriptor that is found for a page of a segment is its own.
LEMMA FoundIsOwned ==
  ASSUME TypeOK, Places, NEW s \in Slot, segment[s] # NoSegment,
         FrameDescOf(pte[s]) # NoFD
  PROVE  FrameDescOf(pte[s]) \in FDs /\ s \in fd[FrameDescOf(pte[s])].owners
<1>1. PICK d \in FDs : s \in fd[d].owners
  BY DEF Places, OneDescriptor
<1> QED BY <1>1, Found DEF Places, OwnersLocated

\* What the entries of owners stay right by: accounts that are right, and no
\* page with two descriptors.
OneOwned == \A c, d \in FDs : c # d => fd[c].owners \cap fd[d].owners = {}
Filled == /\ TypeOK /\ FrameAccounting /\ ClusterAccounting /\ NoStrayCluster
          /\ OwnersLocated /\ OneOwned

---------------------------------------------------------------------------
(* Steps that move no page.                                                *)

\* Nor do the accounts change when owners do.
LEMMA PlacesUnchanged ==
  ASSUME TypeOK, FrameAccounting, ClusterAccounting, NoStrayCluster,
         UNCHANGED <<vmFree, vmDescriptors, clusterFree, clusterDescriptors>>,
         \A o \in FDs : /\ fd'[o].vmValid = fd[o].vmValid
                        /\ fd'[o].vmFrameNum = fd[o].vmFrameNum
                        /\ fd'[o].diskValid = fd[o].diskValid
                        /\ fd'[o].diskFrameNum = fd[o].diskFrameNum
  PROVE  FrameAccounting' /\ ClusterAccounting' /\ NoStrayCluster'
<1>1. FrameAccounting'
  <2>1. \A f \in Frames \ vmFree : vmDescriptors[f] # NoFD => vmDescriptors[f] \in FDs
    BY DEF TypeOK, FMTypeOK
  <2> QED BY <2>1 DEF FrameAccounting
<1>2. ClusterAccounting' /\ NoStrayCluster'
  BY DEF ClusterAccounting, NoStrayCluster
<1> QED BY <1>1, <1>2

\* Bits of entries are set, no page moves.
InPlace ==
  /\ UNCHANGED <<fd, vmFree, vmDescriptors, clusterFree, clusterDescriptors, segment>>
  /\ \A s \in Slot : SameWhere(pte'[s], pte[s])

LEMMA NothingMislocated ==
  ASSUME TypeOK, OwnersLocated, InPlace
  PROVE  OwnersLocated'
<1> SUFFICES ASSUME NEW d \in FDs, NEW s \in fd[d].owners
             PROVE  Located(pte[s], d)'
  BY DEF OwnersLocated, InPlace
<1>1. Located(pte[s], d) /\ SameWhere(pte'[s], pte[s])
  BY Parts DEF InPlace, OwnersLocated
<1> QED BY <1>1 DEF InPlace, Located, AgreesWith, SameWhere

---------------------------------------------------------------------------
(* Evictions.                                                              *)

\* What PageOut does to where pages are.
LEMMA PageOutWhere ==
  ASSUME TypeOK, NEW d \in FDs, NEW victim \in Frames, NEW passed,
         NEW c \in Clusters \cup {NoCluster}, NEW clean \in BOOLEAN,
         PageOut(d, victim, passed, c, clean)
  PROVE  /\ \A o \in FDs \ {d} : fd'[o] = fd[o]
         /\ fd'[d].owners = fd[d].owners /\ fd'[d].sharedBit = fd[d].sharedBit
         /\ ~fd'[d].vmValid
         /\ c = NoCluster => /\ fd'[d].diskValid = fd[d].diskValid
                             /\ fd'[d].diskFrameNum = fd[d].diskFrameNum
         /\ c # NoCluster => fd'[d].diskValid /\ fd'[d].diskFrameNum = c
         /\ \A s \in fd[d].owners :
              /\ ~pte'[s].vmValid
              /\ c = NoCluster => /\ pte'[s].diskValid = pte[s].diskValid
                                  /\ pte'[s].diskFrameNum = pte[s].diskFrameNum
              /\ c # NoCluster => pte'[s].diskValid /\ pte'[s].diskFrameNum = c
         /\ \A s \in Slot \ fd[d].owners : SameWhere(pte'[s], pte[s])
<1>1. fd \in [FDs -> FD] /\ fd[d] \in FD /\ fd[d].diskValid \in BOOLEAN
  BY Parts DEF TypeOK, FMTypeOK
<1> DEFINE saved == fd[d].diskValid \/ c # NoCluster
           place == IF c # NoCluster THEN c ELSE fd[d].diskFrameNum
<1>2. fd' = [fd EXCEPT ![d].vmValid = FALSE, ![d].vmFrameNum = 0,
                       ![d].diskValid = saved, ![d].diskFrameNum = place]
  BY DEF PageOut
<1>3. /\ \A o \in FDs \ {d} : fd'[o] = fd[o]
      /\ fd'[d].owners = fd[d].owners /\ fd'[d].sharedBit = fd[d].sharedBit
      /\ ~fd'[d].vmValid
      /\ fd'[d].diskValid = saved /\ fd'[d].diskFrameNum = place
  <2> HIDE DEF saved, place
  <2> QED BY <1>1, <1>2 DEF FD
<1> DEFINE swept == SweptPTE(passed)
           Out(e) == [e EXCEPT
             !.vmValid = FALSE, !.vmFrameNum = 0,
             !.diskValid = @ \/ c # NoCluster,
             !.diskFrameNum = IF c # NoCluster THEN c ELSE @,
             !.dirty = @ /\ ~clean]
<1>4. ASSUME NEW e \in PTE
      PROVE  /\ ~Out(e).vmValid
             /\ Out(e).diskValid = (e.diskValid \/ c # NoCluster)
             /\ Out(e).diskFrameNum = IF c # NoCluster THEN c ELSE e.diskFrameNum
  BY DEF PTE
<1>5. pte' = [s \in Slot |-> IF s \in fd[d].owners THEN Out(swept[s]) ELSE swept[s]]
  BY DEF PageOut
<1>6. \A s \in Slot : swept[s] \in PTE /\ SameWhere(swept[s], pte[s])
  BY SweptWhere DEF TypeOK
<1>7. fd[d].owners \subseteq Slot
  BY Parts
<1> HIDE DEF Out, swept
<1>8. \A s \in Slot \ fd[d].owners : SameWhere(pte'[s], pte[s])
  BY <1>5, <1>6
<1>9. ASSUME NEW s \in fd[d].owners
      PROVE  /\ ~pte'[s].vmValid
             /\ pte'[s].diskValid = (pte[s].diskValid \/ c # NoCluster)
             /\ pte'[s].diskFrameNum = IF c # NoCluster THEN c
                                       ELSE pte[s].diskFrameNum
  <2>1. swept[s] \in PTE /\ SameWhere(swept[s], pte[s]) /\ pte'[s] = Out(swept[s])
    BY <1>5, <1>6, <1>7
  <2>2. /\ ~pte'[s].vmValid
        /\ pte'[s].diskValid = (swept[s].diskValid \/ c # NoCluster)
        /\ pte'[s].diskFrameNum = IF c # NoCluster THEN c ELSE swept[s].diskFrameNum
    BY <1>4, <2>1
  <2> QED BY <2>1, <2>2 DEF SameWhere
<1>10. \A s \in fd[d].owners : pte[s].diskValid \in BOOLEAN
  BY <1>7, Parts
<1> QED BY <1>1, <1>3, <1>8, <1>9, <1>10

\* The victim's descriptor is a frame's, so it is one.
LEMMA VictimsHaveDescriptors ==
  ASSUME TypeOK, FrameAccounting, vmFree = {}, NEW f \in Frames
  PROVE  /\ vmDescriptors[f] \in FDs
         /\ fd[vmDescriptors[f]].vmValid /\ fd[vmDescriptors[f]].vmFrameNum = f
BY DEF FrameAccounting, TypeOK, FMTypeOK

\* The accounts need no more than that they were right.
LEMMA PageOutAccounts ==
  ASSUME TypeOK, TypeOK', FrameAccounting, ClusterAccounting, NoStrayCluster,
         vmFree = {},
         NEW victim \in Frames, NEW d, d = vmDescriptors[victim], NEW passed,
         NEW c \in Clusters \cup {NoCluster}, NEW clean \in BOOLEAN,
         PageOut(d, victim, passed, c, clean),
         \/ c = NoCluster /\ UNCHANGED <<clusterFree, clusterDescriptors>>
         \/ /\ c \in clusterFree /\ ~fd[d].diskValid
            /\ clusterFree' = clusterFree \ {c}
            /\ clusterDescriptors' = [clusterDescriptors EXCEPT ![c] = d]
  PROVE  FrameAccounting' /\ ClusterAccounting' /\ NoStrayCluster'
<1>1. d \in FDs /\ fd[d].vmValid /\ fd[d].vmFrameNum = victim
  BY VictimsHaveDescriptors
<1>2. /\ \A o \in FDs \ {d} : fd'[o] = fd[o]
      /\ fd'[d].owners = fd[d].owners /\ fd'[d].sharedBit = fd[d].sharedBit
      /\ ~fd'[d].vmValid
      /\ c = NoCluster => /\ fd'[d].diskValid = fd[d].diskValid
                          /\ fd'[d].diskFrameNum = fd[d].diskFrameNum
      /\ c # NoCluster => fd'[d].diskValid /\ fd'[d].diskFrameNum = c
      /\ \A s \in fd[d].owners :
           /\ ~pte'[s].vmValid
           /\ c = NoCluster => /\ pte'[s].diskValid = pte[s].diskValid
                               /\ pte'[s].diskFrameNum = pte[s].diskFrameNum
           /\ c # NoCluster => pte'[s].diskValid /\ pte'[s].diskFrameNum = c
      /\ \A s \in Slot \ fd[d].owners : SameWhere(pte'[s], pte[s])
  BY <1>1, PageOutWhere
<1>3. vmFree' = {victim} /\ \A f \in Frames \ {victim} : vmDescriptors'[f] = vmDescriptors[f]
  BY DEF PageOut, TypeOK, FMTypeOK
<1>4. FrameAccounting'
  <2>1. ASSUME NEW f \in Frames \ {victim}
        PROVE  LET o == vmDescriptors'[f]
               IN  o # NoFD /\ fd'[o].vmValid /\ fd'[o].vmFrameNum = f
    <3>1. /\ vmDescriptors[f] \in FDs
          /\ fd[vmDescriptors[f]].vmValid /\ fd[vmDescriptors[f]].vmFrameNum = f
      BY VictimsHaveDescriptors
    <3>2. vmDescriptors[f] # d
      BY <1>1, <3>1
    <3> QED BY <1>2, <1>3, <3>1, <3>2, PointersAssumption
  <2>2. ASSUME NEW o \in FDs, fd'[o].vmValid
        PROVE  fd'[o].vmFrameNum # victim /\ vmDescriptors'[fd'[o].vmFrameNum] = o
    <3>1. o # d /\ fd'[o] = fd[o]
      BY <1>2, <2>2
    <3>2. fd[o].vmFrameNum \in Frames /\ vmDescriptors[fd[o].vmFrameNum] = o
      BY <2>2, <3>1, Parts DEF FrameAccounting
    <3> QED BY <1>1, <1>3, <3>1, <3>2
  <2> QED BY <1>3, <2>1, <2>2 DEF FrameAccounting
<1>5. ClusterAccounting' /\ NoStrayCluster'
  <2>1. CASE c = NoCluster
    <3>1. UNCHANGED <<clusterFree, clusterDescriptors>>
      BY <2>1, PointersAssumption DEF TypeOK, FMTypeOK
    <3>2. \A o \in FDs : /\ fd'[o].diskValid = fd[o].diskValid
                         /\ fd'[o].diskFrameNum = fd[o].diskFrameNum
      BY <1>2, <2>1
    <3> QED BY <3>1, <3>2, Parts
            DEF ClusterAccounting, NoStrayCluster
  <2>2. CASE c # NoCluster
    <3>1. /\ c \in clusterFree /\ c \in Clusters /\ ~fd[d].diskValid
          /\ clusterFree' = clusterFree \ {c}
          /\ clusterDescriptors'[c] = d
          /\ \A k \in Clusters \ {c} : clusterDescriptors'[k] = clusterDescriptors[k]
      BY <2>2 DEF TypeOK, FMTypeOK
    <3>2. fd'[d].diskValid /\ fd'[d].diskFrameNum = c
      BY <1>2, <2>2
    <3>3. ASSUME NEW o \in FDs, fd'[o].diskValid
          PROVE  /\ fd'[o].diskFrameNum \in Clusters \ clusterFree'
                 /\ clusterDescriptors'[fd'[o].diskFrameNum] = o
      <4>1. CASE o = d
        BY <3>1, <3>2, <4>1
      <4>2. CASE o # d
        <5>1. fd'[o] = fd[o]
          BY <1>2, <4>2
        <5>2. /\ fd[o].diskFrameNum \in Clusters \ clusterFree
              /\ clusterDescriptors[fd[o].diskFrameNum] = o
          BY <3>3, <5>1 DEF ClusterAccounting
        <5> QED BY <3>1, <5>1, <5>2
      <4> QED BY <4>1, <4>2
    <3>4. ASSUME NEW k \in Clusters \ clusterFree'
          PROVE  \E o \in FDs : fd'[o].diskValid /\ fd'[o].diskFrameNum = k
      <4>1. CASE k = c
        BY <1>1, <3>2, <4>1
      <4>2. CASE k # c
        <5>1. PICK o \in FDs : fd[o].diskValid /\ fd[o].diskFrameNum = k
          BY <3>1, <4>2 DEF ClusterAccounting
        <5> QED BY <1>2, <3>1, <5>1
      <4> QED BY <4>1, <4>2
    <3>5. NoStrayCluster'
      BY <1>2, <3>2 DEF NoStrayCluster
    <3> QED BY <3>3, <3>4, <3>5 DEF ClusterAccounting
  <2> QED BY <2>1, <2>2
<1> QED BY <1>4, <1>5

LEMMA PageOutKeepsLocated ==
  ASSUME Filled, TypeOK', vmFree = {},
         NEW victim \in Frames, NEW d, d = vmDescriptors[victim], NEW passed,
         NEW c \in Clusters \cup {NoCluster}, NEW clean \in BOOLEAN,
         PageOut(d, victim, passed, c, clean)
  PROVE  OwnersLocated'
<1>1. TypeOK /\ d \in FDs /\ fd[d].vmValid
  BY VictimsHaveDescriptors DEF Filled
<1>2. /\ \A o \in FDs \ {d} : fd'[o] = fd[o]
      /\ fd'[d].owners = fd[d].owners /\ fd'[d].sharedBit = fd[d].sharedBit
      /\ ~fd'[d].vmValid
      /\ c = NoCluster => /\ fd'[d].diskValid = fd[d].diskValid
                          /\ fd'[d].diskFrameNum = fd[d].diskFrameNum
      /\ c # NoCluster => fd'[d].diskValid /\ fd'[d].diskFrameNum = c
      /\ \A s \in fd[d].owners :
           /\ ~pte'[s].vmValid
           /\ c = NoCluster => /\ pte'[s].diskValid = pte[s].diskValid
                               /\ pte'[s].diskFrameNum = pte[s].diskFrameNum
           /\ c # NoCluster => pte'[s].diskValid /\ pte'[s].diskFrameNum = c
      /\ \A s \in Slot \ fd[d].owners : SameWhere(pte'[s], pte[s])
  BY <1>1, PageOutWhere
<1> SUFFICES ASSUME NEW o \in FDs, NEW s \in fd'[o].owners
             PROVE  Located(pte[s], o)'
  BY DEF OwnersLocated
<1>3. s \in fd[o].owners /\ s \in Slot /\ Located(pte[s], o)
  BY <1>1, <1>2, Parts DEF Filled, OwnersLocated
<1>4. CASE o = d
  <2>1. s \in fd[d].owners /\ Located(pte[s], d)
    BY <1>3, <1>4
  <2>2. /\ fd'[d].vmValid \in BOOLEAN /\ fd'[d].diskValid \in BOOLEAN
        /\ pte'[s].vmValid \in BOOLEAN /\ pte'[s].diskValid \in BOOLEAN
    BY <1>1, <1>3 DEF TypeOK, FMTypeOK, FD, PTE
  <2>3. CASE c = NoCluster
    BY <1>2, <1>4, <2>1, <2>2, <2>3 DEF Located, AgreesWith
  <2>4. CASE c # NoCluster
    BY <1>2, <1>4, <2>1, <2>2, <2>4 DEF Located, AgreesWith
  <2> QED BY <2>3, <2>4
<1>5. CASE o # d
  <2>1. s \notin fd[d].owners
    BY <1>1, <1>3, <1>5 DEF Filled, OneOwned
  <2>2. SameWhere(pte'[s], pte[s]) /\ fd'[o] = fd[o]
    BY <1>2, <1>3, <1>5, <2>1
  <2> QED BY <1>3, <2>2 DEF Located, AgreesWith, SameWhere
<1> QED BY <1>4, <1>5

\* Whatever becomes of the content, an eviction is a PageOut, to the cluster
\* that the page has, to none or to a new one.
LEMMA EvictPagesOut ==
  ASSUME TypeOK, FrameAccounting, ClusterAccounting, Evict
  PROVE  \E victim \in Frames, passed \in SUBSET Frames,
            c \in Clusters \cup {NoCluster}, clean \in BOOLEAN :
           LET d == vmDescriptors[victim]
           IN  /\ PageOut(d, victim, passed, c, clean)
               /\ \/ c = NoCluster /\ UNCHANGED <<clusterFree, clusterDescriptors>>
                  \/ /\ c \in clusterFree /\ ~fd[d].diskValid
                     /\ clusterFree' = clusterFree \ {c}
                     /\ clusterDescriptors' = [clusterDescriptors EXCEPT ![c] = d]
<1>1. PICK victim \in Frames, passed \in SUBSET Frames :
        LET d == vmDescriptors[victim]
        IN  \/ SaveToNewCluster(d, victim, passed)
            \/ DropUnsaved(d, victim, passed)
            \/ SaveToOwnCluster(d, victim, passed)
  BY DEF Evict
<1> DEFINE d == vmDescriptors[victim]
<1>2. vmFree = {} /\ d \in FDs /\ fd[d].vmValid
  BY VictimsHaveDescriptors DEF Evict
<1> HIDE DEF d
<1>3. \E c \in Clusters \cup {NoCluster}, clean \in BOOLEAN :
        /\ PageOut(d, victim, passed, c, clean)
        /\ \/ c = NoCluster /\ UNCHANGED <<clusterFree, clusterDescriptors>>
           \/ /\ c \in clusterFree /\ ~fd[d].diskValid
              /\ clusterFree' = clusterFree \ {c}
              /\ clusterDescriptors' = [clusterDescriptors EXCEPT ![c] = d]
  <2>1. CASE SaveToNewCluster(d, victim, passed)
    <3>1. PICK c \in clusterFree : /\ clusterFree' = clusterFree \ {c}
                                   /\ clusterDescriptors' = Filed(c, d)
                                   /\ PageOut(d, victim, passed, c, FALSE)
      BY <2>1 DEF SaveToNewCluster
    <3>2. c \in Clusters /\ ~fd[d].diskValid
      BY <2>1 DEF SaveToNewCluster, TypeOK, FMTypeOK
    <3> QED BY <3>1, <3>2 DEF Filed
  <2>2. CASE DropUnsaved(d, victim, passed)
    BY <2>2 DEF DropUnsaved
  <2>3. CASE SaveToOwnCluster(d, victim, passed)
    <3>1. PICK clean \in BOOLEAN : PageOut(d, victim, passed, NoCluster, clean)
      BY <2>3 DEF SaveToOwnCluster
    <3>2. clusterDescriptors' = clusterDescriptors
      <4>1. clusterDescriptors[fd[d].diskFrameNum] = d
        BY <1>2, <2>3 DEF SaveToOwnCluster, ClusterAccounting
      <4>2. clusterDescriptors' = [clusterDescriptors EXCEPT ![fd[d].diskFrameNum] = d]
        BY <2>3 DEF SaveToOwnCluster, Filed
      <4> QED BY <4>1, <4>2 DEF TypeOK, FMTypeOK
    <3>3. clusterFree' = clusterFree
      BY <2>3 DEF SaveToOwnCluster
    <3> QED BY <3>1, <3>2, <3>3
  <2> QED BY <1>1, <2>1, <2>2, <2>3 DEF d
<1> QED BY <1>3 DEF d

\* The accounts stay right, no descriptor that is not in memory is touched,
\* and only entries of owners of the victim's page.
LEMMA EvictAccounts ==
  ASSUME TypeOK, TypeOK', FrameAccounting, ClusterAccounting, NoStrayCluster, Evict
  PROVE  /\ FrameAccounting' /\ ClusterAccounting' /\ NoStrayCluster'
         /\ vmFree' # {}
         /\ \A o \in FDs : /\ ~fd[o].vmValid => fd'[o] = fd[o]
                           /\ fd'[o].owners = fd[o].owners
                           /\ fd'[o].sharedBit = fd[o].sharedBit
         /\ \A s \in Slot : \/ SameWhere(pte'[s], pte[s])
                             \/ \E o \in FDs : s \in fd[o].owners
<1>1. PICK victim \in Frames, passed \in SUBSET Frames,
           c \in Clusters \cup {NoCluster}, clean \in BOOLEAN :
        LET d == vmDescriptors[victim]
        IN  /\ PageOut(d, victim, passed, c, clean)
            /\ \/ c = NoCluster /\ UNCHANGED <<clusterFree, clusterDescriptors>>
               \/ /\ c \in clusterFree /\ ~fd[d].diskValid
                  /\ clusterFree' = clusterFree \ {c}
                  /\ clusterDescriptors' = [clusterDescriptors EXCEPT ![c] = d]
  BY EvictPagesOut
<1> DEFINE d == vmDescriptors[victim]
<1>2. vmFree = {} /\ d \in FDs /\ fd[d].vmValid
  BY VictimsHaveDescriptors DEF Evict
<1> HIDE DEF d
<1>3. FrameAccounting' /\ ClusterAccounting' /\ NoStrayCluster'
  BY <1>1, <1>2, PageOutAccounts DEF d
<1>4. PageOut(d, victim, passed, c, clean)
  BY <1>1 DEF d
<1>5. vmFree' # {}
  BY <1>4 DEF PageOut
<1>6. \A o \in FDs \ {d} : fd'[o] = fd[o]
  BY <1>2, <1>4, PageOutWhere
<1>7. fd'[d].owners = fd[d].owners /\ fd'[d].sharedBit = fd[d].sharedBit
  BY <1>2, <1>4, PageOutWhere
<1>8. \A s \in Slot \ fd[d].owners : SameWhere(pte'[s], pte[s])
  BY <1>2, <1>4, PageOutWhere
<1> QED BY <1>2, <1>3, <1>5, <1>6, <1>7, <1>8

LEMMA EvictKeepsLocated ==
  ASSUME Filled, TypeOK', Evict
  PROVE  OwnersLocated'
<1>1. PICK victim \in Frames, passed \in SUBSET Frames,
           c \in Clusters \cup {NoCluster}, clean \in BOOLEAN :
        PageOut(vmDescriptors[victim], victim, passed, c, clean)
  BY EvictPagesOut DEF Filled
<1>2. vmFree = {}
  BY DEF Evict
<1> QED BY <1>1, <1>2, PageOutKeepsLocated

---------------------------------------------------------------------------
(* Loading a page.                                                         *)

\* A page that is in no frame is placed in one.
LEMMA PlaceAccounts ==
  ASSUME TypeOK, TypeOK', FrameAccounting, ClusterAccounting, NoStrayCluster,
         NEW s \in Slot, NEW d \in FDs, d = FrameDescOf(pte[s]), ~fd[d].vmValid,
         Place(s)
  PROVE  FrameAccounting' /\ ClusterAccounting' /\ NoStrayCluster'
<1>1. PICK f \in vmFree :
        /\ vmFree' = vmFree \ {f}
        /\ vmDescriptors' = [vmDescriptors EXCEPT ![f] = d]
        /\ fd' = [fd EXCEPT ![d].vmValid = TRUE, ![d].vmFrameNum = f]
        /\ pte' = [t \in Slot |->
             IF t \in fd[d].owners
               THEN Arrived(pte[t], f, ~fd[d].diskValid) ELSE pte[t]]
  BY DEF Place
<1>2. f \in Frames
  BY DEF TypeOK, FMTypeOK
<1>3. /\ \A o \in FDs \ {d} : fd'[o] = fd[o]
      /\ fd'[d].vmValid /\ fd'[d].vmFrameNum = f
      /\ fd'[d].owners = fd[d].owners /\ fd'[d].sharedBit = fd[d].sharedBit
      /\ fd'[d].diskValid = fd[d].diskValid
      /\ fd'[d].diskFrameNum = fd[d].diskFrameNum
  <2>1. fd \in [FDs -> FD] /\ fd[d] \in FD
    BY DEF TypeOK, FMTypeOK
  <2> QED BY <1>1, <2>1 DEF FD
<1>4. vmDescriptors'[f] = d
      /\ \A g \in Frames \ {f} : vmDescriptors'[g] = vmDescriptors[g]
  BY <1>1, <1>2 DEF TypeOK, FMTypeOK
<1>5. FrameAccounting'
  <2>1. ASSUME NEW g \in Frames \ vmFree'
        PROVE  LET o == vmDescriptors'[g]
               IN  o # NoFD /\ fd'[o].vmValid /\ fd'[o].vmFrameNum = g
    <3>1. CASE g = f
      BY <1>3, <1>4, <3>1, PointersAssumption
    <3>2. CASE g # f
      <4>1. /\ vmDescriptors[g] # NoFD /\ fd[vmDescriptors[g]].vmValid
            /\ fd[vmDescriptors[g]].vmFrameNum = g
        BY <1>1, <2>1, <3>2 DEF FrameAccounting
      <4>2. vmDescriptors[g] \in FDs
        BY <2>1, <4>1 DEF TypeOK, FMTypeOK
      <4>3. vmDescriptors[g] # d
        BY <4>1
      <4> QED BY <1>3, <1>4, <3>2, <4>1, <4>2, <4>3
    <3> QED BY <3>1, <3>2
  <2>2. ASSUME NEW o \in FDs, fd'[o].vmValid
        PROVE  fd'[o].vmFrameNum \notin vmFree' /\ vmDescriptors'[fd'[o].vmFrameNum] = o
    <3>1. CASE o = d
      BY <1>1, <1>3, <1>4, <3>1
    <3>2. CASE o # d
      <4>1. fd'[o] = fd[o]
        BY <1>3, <3>2
      <4>2. fd[o].vmFrameNum \in Frames \ vmFree /\ vmDescriptors[fd[o].vmFrameNum] = o
        BY <2>2, <4>1, Parts DEF FrameAccounting
      <4> QED BY <1>1, <1>4, <4>1, <4>2
    <3> QED BY <3>1, <3>2
  <2> QED BY <2>1, <2>2 DEF FrameAccounting
<1>6. \A o \in FDs : /\ fd'[o].diskValid = fd[o].diskValid
                     /\ fd'[o].diskFrameNum = fd[o].diskFrameNum
                     /\ fd'[o].owners = fd[o].owners
                     /\ fd'[o].sharedBit = fd[o].sharedBit
  BY <1>3
<1>7. ClusterAccounting' /\ NoStrayCluster'
  <2>1. UNCHANGED <<clusterFree, clusterDescriptors>>
    BY DEF Place
  <2> QED BY <1>6, <2>1 DEF ClusterAccounting, NoStrayCluster
<1> QED BY <1>5, <1>7

LEMMA PlaceKeepsLocated ==
  ASSUME Filled, TypeOK', NEW s \in Slot, NEW d \in FDs, d = FrameDescOf(pte[s]),
         Place(s)
  PROVE  /\ OwnersLocated'
         /\ \A o \in FDs : /\ fd'[o].owners = fd[o].owners
                           /\ fd'[o].sharedBit = fd[o].sharedBit
<1>1. PICK f \in vmFree :
        /\ fd' = [fd EXCEPT ![d].vmValid = TRUE, ![d].vmFrameNum = f]
        /\ pte' = [t \in Slot |->
             IF t \in fd[d].owners
               THEN Arrived(pte[t], f, ~fd[d].diskValid) ELSE pte[t]]
  BY DEF Place
<1>2. /\ \A o \in FDs \ {d} : fd'[o] = fd[o]
      /\ fd'[d].vmValid /\ fd'[d].vmFrameNum = f
      /\ fd'[d].owners = fd[d].owners /\ fd'[d].sharedBit = fd[d].sharedBit
      /\ fd'[d].diskValid = fd[d].diskValid
      /\ fd'[d].diskFrameNum = fd[d].diskFrameNum
  <2>1. fd \in [FDs -> FD] /\ fd[d] \in FD
    BY DEF Filled, TypeOK, FMTypeOK
  <2> QED BY <1>1, <2>1 DEF FD
<1>3. \A o \in FDs : fd'[o].owners = fd[o].owners /\ fd'[o].sharedBit = fd[o].sharedBit
  BY <1>2
<1>4. OwnersLocated'
  <2> SUFFICES ASSUME NEW o \in FDs, NEW t \in fd'[o].owners
               PROVE  Located(pte[t], o)'
    BY DEF OwnersLocated
  <2>1. t \in fd[o].owners /\ t \in Slot /\ Located(pte[t], o) /\ pte[t] \in PTE
    BY <1>3, Parts DEF Filled, OwnersLocated
  <2>2. CASE o = d
    <3>1. /\ pte'[t].vmValid /\ pte'[t].vmFrameNum = f
          /\ pte'[t].diskValid = pte[t].diskValid
          /\ pte'[t].diskFrameNum = pte[t].diskFrameNum
      <4>1. pte'[t] = Arrived(pte[t], f, ~fd[d].diskValid)
        BY <1>1, <2>1, <2>2
      <4> QED BY <2>1, <4>1 DEF Arrived, PTE
    <3>2. pte'[t].vmValid \in BOOLEAN /\ fd'[d].vmValid \in BOOLEAN
      BY <2>1 DEF TypeOK, FMTypeOK, FD, PTE
    <3> QED BY <1>2, <2>1, <2>2, <3>1, <3>2 DEF Located, AgreesWith
  <2>3. CASE o # d
    <3>1. t \notin fd[d].owners
      BY <2>1, <2>3 DEF Filled, OneOwned
    <3>2. pte'[t] = pte[t] /\ fd'[o] = fd[o]
      BY <1>1, <1>2, <2>1, <2>3, <3>1
    <3> QED BY <2>1, <3>2 DEF Located, AgreesWith
  <2> QED BY <2>2, <2>3
<1> QED BY <1>3, <1>4

---------------------------------------------------------------------------
(* Releasing descriptors.                                                  *)

\* What BlankFD says.
LEMMA BlankIsNowhere ==
  /\ BlankFD.owners = {} /\ ~BlankFD.vmValid /\ ~BlankFD.diskValid
  /\ BlankFD.vmValid = FALSE /\ BlankFD.diskValid = FALSE
  /\ BlankFD.diskFrameNum = NoCluster /\ ~BlankFD.sharedBit
BY DEF BlankFD

\* The frame and the cluster of the released descriptor are free, the others'
\* are not touched.
LEMMA ReleaseAccounts ==
  ASSUME TypeOK, TypeOK', FrameAccounting, ClusterAccounting, NoStrayCluster,
         NEW d \in FDs, ReleaseFD(d)
  PROVE  FrameAccounting' /\ ClusterAccounting' /\ NoStrayCluster'
<1>1. /\ \A o \in FDs \ {d} : fd'[o] = fd[o]
      /\ fd'[d] = BlankFD
      /\ vmFree' = FreedFrame(d) /\ clusterFree' = FreedCluster(d)
      /\ UNCHANGED <<vmDescriptors, clusterDescriptors>>
  BY DEF ReleaseFD, TypeOK, FMTypeOK
<1>2. FrameAccounting'
  <2>1. ASSUME NEW f \in Frames \ vmFree'
        PROVE  LET o == vmDescriptors[f]
               IN  o # NoFD /\ fd'[o].vmValid /\ fd'[o].vmFrameNum = f
    <3>1. f \in Frames \ vmFree /\ ~(fd[d].vmValid /\ fd[d].vmFrameNum = f)
      BY <1>1, <2>1 DEF FreedFrame
    <3>2. /\ vmDescriptors[f] \in FDs /\ vmDescriptors[f] # NoFD
          /\ fd[vmDescriptors[f]].vmValid /\ fd[vmDescriptors[f]].vmFrameNum = f
      BY <3>1 DEF FrameAccounting, TypeOK, FMTypeOK
    <3>3. vmDescriptors[f] # d
      BY <3>1, <3>2
    <3> QED BY <1>1, <3>2, <3>3
  <2>2. ASSUME NEW o \in FDs, fd'[o].vmValid
        PROVE  fd'[o].vmFrameNum \notin vmFree' /\ vmDescriptors[fd'[o].vmFrameNum] = o
    <3>1. o # d /\ fd'[o] = fd[o]
      BY <1>1, <2>2, BlankIsNowhere
    <3>2. fd[o].vmFrameNum \notin vmFree /\ vmDescriptors[fd[o].vmFrameNum] = o
      BY <2>2, <3>1 DEF FrameAccounting
    <3>3. fd[d].vmValid => vmDescriptors[fd[d].vmFrameNum] = d
      BY DEF FrameAccounting
    <3> QED BY <1>1, <3>1, <3>2, <3>3 DEF FreedFrame
  <2> QED BY <1>1, <2>1, <2>2 DEF FrameAccounting
<1>3. ClusterAccounting'
  <2>1. fd[d].diskValid => clusterDescriptors[fd[d].diskFrameNum] = d
    BY DEF ClusterAccounting
  <2>2. ASSUME NEW o \in FDs, fd'[o].diskValid
        PROVE  /\ fd'[o].diskFrameNum \in Clusters \ clusterFree'
               /\ clusterDescriptors[fd'[o].diskFrameNum] = o
    <3>1. o # d /\ fd'[o] = fd[o]
      BY <1>1, <2>2, BlankIsNowhere
    <3>2. /\ fd[o].diskFrameNum \in Clusters \ clusterFree
          /\ clusterDescriptors[fd[o].diskFrameNum] = o
      BY <2>2, <3>1 DEF ClusterAccounting
    <3> QED BY <1>1, <2>1, <3>1, <3>2 DEF FreedCluster
  <2>3. ASSUME NEW c \in Clusters \ clusterFree'
        PROVE  \E o \in FDs : fd'[o].diskValid /\ fd'[o].diskFrameNum = c
    <3>1. c \notin clusterFree /\ ~(fd[d].diskValid /\ fd[d].diskFrameNum = c)
      BY <1>1, <2>3 DEF FreedCluster
    <3>2. PICK o \in FDs : fd[o].diskValid /\ fd[o].diskFrameNum = c
      BY <3>1 DEF ClusterAccounting
    <3> QED BY <1>1, <3>1, <3>2
  <2> QED BY <1>1, <2>2, <2>3 DEF ClusterAccounting
<1>4. NoStrayCluster'
  BY <1>1, BlankIsNowhere DEF NoStrayCluster
<1> QED BY <1>2, <1>3, <1>4

\* s leaves the owners of d, which goes when nobody is left.
LEMMA RemoveOwnerAccounts ==
  ASSUME TypeOK, TypeOK', FrameAccounting, ClusterAccounting, NoStrayCluster,
         NEW s \in Slot, NEW d \in FDs, RemoveOwner(s, d)
  PROVE  LET rest == fd[d].owners \ {s}
         IN  /\ FrameAccounting' /\ ClusterAccounting' /\ NoStrayCluster'
             /\ \A o \in FDs \ {d} : fd'[o] = fd[o]
             /\ fd'[d].owners = rest
             /\ rest # {} => /\ fd'[d].vmValid = fd[d].vmValid
                             /\ fd'[d].vmFrameNum = fd[d].vmFrameNum
                             /\ fd'[d].diskValid = fd[d].diskValid
                             /\ fd'[d].diskFrameNum = fd[d].diskFrameNum
                             /\ fd'[d].sharedBit = fd[d].sharedBit
<1> DEFINE rest == fd[d].owners \ {s}
<1>1. CASE rest = {} /\ ReleaseFD(d)
  BY <1>1, ReleaseAccounts, BlankIsNowhere DEF ReleaseFD, TypeOK, FMTypeOK
<1>2. CASE /\ fd' = [fd EXCEPT ![d].owners = rest]
           /\ UNCHANGED <<vmFree, vmDescriptors, clusterFree, clusterDescriptors>>
  <2>1. /\ \A o \in FDs \ {d} : fd'[o] = fd[o]
        /\ fd'[d].owners = rest
        /\ fd'[d].vmValid = fd[d].vmValid
        /\ fd'[d].vmFrameNum = fd[d].vmFrameNum
        /\ fd'[d].diskValid = fd[d].diskValid
        /\ fd'[d].diskFrameNum = fd[d].diskFrameNum
        /\ fd'[d].sharedBit = fd[d].sharedBit
    <3>1. fd \in [FDs -> FD] /\ fd[d] \in FD
      BY DEF TypeOK, FMTypeOK
    <3> HIDE DEF rest
    <3> QED BY <1>2, <3>1 DEF FD
  <2>2. \A o \in FDs : /\ fd'[o].vmValid = fd[o].vmValid
                       /\ fd'[o].vmFrameNum = fd[o].vmFrameNum
                       /\ fd'[o].diskValid = fd[o].diskValid
                       /\ fd'[o].diskFrameNum = fd[o].diskFrameNum
    BY <2>1
  <2>3. FrameAccounting' /\ ClusterAccounting' /\ NoStrayCluster'
    BY <1>2, <2>2, PlacesUnchanged
  <2> QED BY <2>1, <2>3
<1> QED BY <1>1, <1>2 DEF RemoveOwner

\* A page leaves its segment: nothing else is owned or placed differently.
LEMMA RemovalKeepsLocated ==
  ASSUME Filled, TypeOK', NEW s \in Slot, NEW d \in FDs, RemoveOwner(s, d),
         \A o \in FDs : s \in fd[o].owners => o = d,
         \A t \in Slot \ {s} : pte'[t] = pte[t]
  PROVE  OwnersLocated'
<1> DEFINE rest == fd[d].owners \ {s}
<1>1. /\ \A o \in FDs \ {d} : fd'[o] = fd[o]
      /\ fd'[d].owners = rest
      /\ rest # {} => /\ fd'[d].vmValid = fd[d].vmValid
                      /\ fd'[d].vmFrameNum = fd[d].vmFrameNum
                      /\ fd'[d].diskValid = fd[d].diskValid
                      /\ fd'[d].diskFrameNum = fd[d].diskFrameNum
                      /\ fd'[d].sharedBit = fd[d].sharedBit
  BY RemoveOwnerAccounts DEF Filled
<1> SUFFICES ASSUME NEW o \in FDs, NEW t \in fd'[o].owners
             PROVE  Located(pte[t], o)'
  BY DEF OwnersLocated
<1>2. t \in fd[o].owners /\ t \in Slot /\ t # s
  BY <1>1, Parts DEF Filled
<1>3. Located(pte[t], o) /\ pte'[t] = pte[t]
  BY <1>2 DEF Filled, OwnersLocated
<1>4. /\ fd'[o].vmValid = fd[o].vmValid
      /\ fd'[o].vmFrameNum = fd[o].vmFrameNum
      /\ fd'[o].diskValid = fd[o].diskValid
      /\ fd'[o].diskFrameNum = fd[o].diskFrameNum
      /\ fd'[o].sharedBit = fd[o].sharedBit
  BY <1>1, <1>2
<1> QED BY <1>3, <1>4 DEF Located, AgreesWith

LEMMA DeleteSharedSegmentKeepsLocated ==
  ASSUME TypeOK, OwnersLocated, NEW x \in SharedNames, DeleteSharedSegment(x)
  PROVE  OwnersLocated'
<1>1. PICK d \in FDs : fd[d].owners = {} /\ ReleaseFD(d)
  BY DEF DeleteSharedSegment, TypeOK, PagingTypeOK
<1>2. \A o \in FDs : fd'[o] = IF o = d THEN BlankFD ELSE fd[o]
  BY <1>1 DEF ReleaseFD, TypeOK, FMTypeOK
<1> SUFFICES ASSUME NEW o \in FDs, NEW t \in fd'[o].owners
             PROVE  Located(pte[t], o)'
  BY DEF OwnersLocated
<1>3. t \in fd[o].owners /\ fd'[o] = fd[o] /\ Located(pte[t], o)
  BY <1>2, BlankIsNowhere DEF OwnersLocated
<1> QED BY <1>3 DEF DeleteSharedSegment, Located, AgreesWith

---------------------------------------------------------------------------
(* New owners.                                                             *)

\* The pages of J, of no segment so far, become pages of one, t owned by the
\* descriptor page[t]; no page moves.
Joins(J, page) ==
  /\ UNCHANGED <<vmFree, vmDescriptors, clusterFree, clusterDescriptors>>
  /\ \A o \in FDs : /\ fd'[o].vmValid = fd[o].vmValid
                    /\ fd'[o].vmFrameNum = fd[o].vmFrameNum
                    /\ fd'[o].diskValid = fd[o].diskValid
                    /\ fd'[o].diskFrameNum = fd[o].diskFrameNum
                    /\ fd[o].sharedBit => fd'[o].sharedBit
                    /\ fd'[o].owners = fd[o].owners \cup {t \in J : page[t] = o}
  /\ \A t \in J : segment[t] = NoSegment /\ segment'[t] # NoSegment
  /\ \A t \in Slot \ J : segment'[t] = segment[t] /\ SameWhere(pte'[t], pte[t])

LEMMA JoiningKeepsLocated ==
  ASSUME TypeOK, TypeOK', OwnersLocated,
         NEW J \in SUBSET Slot, NEW page \in [J -> FDs],
         Joins(J, page), \A t \in J : Located(pte[t], page[t])',
         \A t \in J : \A o \in FDs : t \notin fd[o].owners
  PROVE  OwnersLocated'
<1> SUFFICES ASSUME NEW o \in FDs, NEW t \in fd'[o].owners
             PROVE  Located(pte[t], o)'
  BY DEF OwnersLocated
<1>1. t \in Slot
  BY DEF TypeOK, FMTypeOK, FD
<1>2. CASE t \in J
  BY <1>2 DEF Joins
<1>3. CASE t \notin J
  <2>1. Located(pte[t], o) /\ SameWhere(pte'[t], pte[t])
    BY <1>1, <1>3 DEF OwnersLocated, Joins
  <2> QED BY <2>1 DEF Located, AgreesWith, SameWhere, Joins
<1> QED BY <1>2, <1>3

\* A new segment's page is owned by a descriptor of its own.
LEMMA NewSegmentJoins ==
  ASSUME TypeOK, NEW s \in Slot, NEW flags \in Flags, AllocateNewSegment(s, flags)
  PROVE  \E d \in FDs :
           /\ d = NewFD /\ fd[d] = BlankFD /\ Joins({s}, [t \in {s} |-> d])
           /\ pte'[s].vmValid = FALSE /\ pte'[s].diskValid = FALSE
           /\ pte'[s].diskFrameNum = d
<1>1. PICK d \in FDs : d = NewFD /\ fd[d] = BlankFD
  BY NewFDFact DEF AllocateNewSegment, Unused
<1> DEFINE page == [t \in {s} |-> d]
<1>2. /\ fd' = [fd EXCEPT ![d] = [BlankFD EXCEPT !.owners = {s}]]
      /\ pte' = [pte EXCEPT ![s] = FreshPTE(flags, d)]
      /\ segment' = [segment EXCEPT ![s] = [flags |-> flags, name |-> Private]]
      /\ segment[s] = NoSegment
      /\ UNCHANGED <<vmFree, vmDescriptors, clusterFree, clusterDescriptors>>
  BY <1>1 DEF AllocateNewSegment
<1>3. /\ \A o \in FDs \ {d} : fd'[o] = fd[o]
      /\ fd'[d].owners = {s}
      /\ fd'[d].vmValid = BlankFD.vmValid
      /\ fd'[d].vmFrameNum = BlankFD.vmFrameNum
      /\ fd'[d].diskValid = BlankFD.diskValid
      /\ fd'[d].diskFrameNum = BlankFD.diskFrameNum
      /\ fd'[d].sharedBit = BlankFD.sharedBit
  BY <1>1, <1>2 DEF TypeOK, FMTypeOK, BlankFD
<1>4. \A o \in FDs : /\ fd'[o].vmValid = fd[o].vmValid
                     /\ fd'[o].vmFrameNum = fd[o].vmFrameNum
                     /\ fd'[o].diskValid = fd[o].diskValid
                     /\ fd'[o].diskFrameNum = fd[o].diskFrameNum
                     /\ fd[o].sharedBit => fd'[o].sharedBit
                     /\ fd'[o].owners = fd[o].owners \cup {t \in {s} : page[t] = o}
  <2> SUFFICES ASSUME NEW o \in FDs
      PROVE /\ fd'[o].vmValid = fd[o].vmValid
            /\ fd'[o].vmFrameNum = fd[o].vmFrameNum
            /\ fd'[o].diskValid = fd[o].diskValid
            /\ fd'[o].diskFrameNum = fd[o].diskFrameNum
            /\ fd[o].sharedBit => fd'[o].sharedBit
            /\ fd'[o].owners = fd[o].owners \cup {t \in {s} : page[t] = o}
    OBVIOUS
  <2>1. CASE o = d
    BY <1>1, <1>3, <2>1, BlankIsNowhere
  <2>2. CASE o # d
    BY <1>3, <2>2
  <2> QED BY <2>1, <2>2
<1>5. segment'[s] # NoSegment
  BY <1>2, SegmentAssumption DEF TypeOK, PagingTypeOK
<1>6. /\ pte'[s].vmValid = FALSE /\ pte'[s].diskValid = FALSE
      /\ pte'[s].diskFrameNum = d
  BY <1>2 DEF TypeOK, FMTypeOK, FreshPTE, BlankPTE
<1>7. \A t \in Slot \ {s} : segment'[t] = segment[t] /\ SameWhere(pte'[t], pte[t])
  BY <1>2 DEF SameWhere, TypeOK, FMTypeOK, PagingTypeOK
<1>8. /\ \A t \in {s} : segment[t] = NoSegment /\ segment'[t] # NoSegment
      /\ UNCHANGED <<vmFree, vmDescriptors, clusterFree, clusterDescriptors>>
  BY <1>2, <1>5
<1>9. Joins({s}, page)
  <2> HIDE DEF page
  <2> QED BY <1>4, <1>7, <1>8 DEF Joins
<1> QED BY <1>1, <1>6, <1>9

\* An attached page is where its descriptor is.
LEMMA AttachedIsLocated ==
  ASSUME TypeOK, NoStrayCluster, NEW flags, NEW d \in FDs
  PROVE  LET e == AttachedPTE(flags, d)
         IN  /\ AgreesWith(e, d)
             /\ ~e.diskValid => e.diskFrameNum \in {d, NoCluster}
<1> DEFINE e == AttachedPTE(flags, d)
<1>1. /\ e.vmValid = fd[d].vmValid /\ e.vmFrameNum = fd[d].vmFrameNum
      /\ e.diskValid = fd[d].diskValid
      /\ e.diskFrameNum = IF fd[d].vmValid \/ fd[d].diskValid
                            THEN fd[d].diskFrameNum ELSE d
  BY DEF AttachedPTE, FreshPTE, BlankPTE
<1> HIDE DEF e
<1>2. e.diskValid => e.diskFrameNum = fd[d].diskFrameNum
  BY <1>1
<1>3. ~e.diskValid => e.diskFrameNum \in {d, NoCluster}
  BY <1>1 DEF NoStrayCluster
<1>4. AgreesWith(e, d)
  BY <1>1, <1>2 DEF AgreesWith
<1> QED BY <1>3, <1>4 DEF e

\* So is an attached page, by the shared segment's descriptor.
LEMMA AttachingJoins ==
  ASSUME TypeOK, NEW s \in Slot, NEW x \in SharedNames, NEW flags \in Flags,
         CreateSharedSegment(s, x, flags)
  PROVE  \E d \in FDs : /\ Joins({s}, [t \in {s} |-> d]) /\ fd'[d].sharedBit
                        /\ pte'[s] = AttachedPTE(flags, d)
<1>1. PICK d \in FDs : d = IF sharedFD[x] = NoFD THEN NewFD ELSE sharedFD[x]
  BY NewFDFact DEF CreateSharedSegment, TypeOK, PagingTypeOK
<1> DEFINE page == [t \in {s} |-> d]
<1>2. /\ fd' = [fd EXCEPT ![d].owners = @ \cup {s}, ![d].sharedBit = TRUE]
      /\ pte' = [pte EXCEPT ![s] = AttachedPTE(flags, d)]
      /\ segment' = [segment EXCEPT ![s] = [flags |-> flags, name |-> x]]
      /\ segment[s] = NoSegment
      /\ UNCHANGED <<vmFree, vmDescriptors, clusterFree, clusterDescriptors>>
  BY <1>1 DEF CreateSharedSegment
<1>3. /\ \A o \in FDs \ {d} : fd'[o] = fd[o]
      /\ fd'[d].owners = fd[d].owners \cup {s}
      /\ fd'[d].vmValid = fd[d].vmValid
      /\ fd'[d].vmFrameNum = fd[d].vmFrameNum
      /\ fd'[d].diskValid = fd[d].diskValid
      /\ fd'[d].diskFrameNum = fd[d].diskFrameNum
      /\ fd'[d].sharedBit
  <2>1. fd \in [FDs -> FD] /\ fd[d] \in FD
    BY <1>1 DEF TypeOK, FMTypeOK
  <2> QED BY <1>1, <1>2, <2>1 DEF FD
<1>4. \A o \in FDs : /\ fd'[o].vmValid = fd[o].vmValid
                     /\ fd'[o].vmFrameNum = fd[o].vmFrameNum
                     /\ fd'[o].diskValid = fd[o].diskValid
                     /\ fd'[o].diskFrameNum = fd[o].diskFrameNum
                     /\ fd[o].sharedBit => fd'[o].sharedBit
                     /\ fd'[o].owners = fd[o].owners \cup {t \in {s} : page[t] = o}
  BY <1>3
<1>5. segment'[s] # NoSegment
  BY <1>2, SegmentAssumption DEF TypeOK, PagingTypeOK
<1>6. pte'[s] = AttachedPTE(flags, d)
  BY <1>2 DEF TypeOK, FMTypeOK
<1>7. \A t \in Slot \ {s} : segment'[t] = segment[t] /\ SameWhere(pte'[t], pte[t])
  BY <1>2 DEF SameWhere, TypeOK, FMTypeOK, PagingTypeOK
<1>8. /\ \A t \in {s} : segment[t] = NoSegment /\ segment'[t] # NoSegment
      /\ UNCHANGED <<vmFree, vmDescriptors, clusterFree, clusterDescriptors>>
  BY <1>2, <1>5
<1>9. Joins({s}, page)
  <2> HIDE DEF page
  <2> QED BY <1>4, <1>7, <1>8 DEF Joins
<1> QED BY <1>3, <1>6, <1>9

\* The pages of J are owned by the descriptors of p's pages, and have entries
\* made from them.
ClonedFrom(p, J, page) ==
  \A t \in J :
    LET s == <<p, t[2]>>
        flags == segment[s].flags
    IN  /\ s \in Slot /\ segment[s] # NoSegment
        /\ IF segment[s].name # Private
             THEN /\ page[t] = sharedFD[segment[s].name]
                  /\ SameWhere(pte'[t], AttachedPTE(flags, page[t]))
             ELSE /\ page[t] = FrameDescOf(pte[s])
                  /\ SameWhere(pte'[t], ClonedPTE(flags, pte[s], page[t]))

\* A clone joins the owners of its parent's pages.
LEMMA CloningJoins ==
  ASSUME TypeOK, NEW p \in Procs, NEW q \in Procs, CloneProcess(p, q)
  PROVE  \E J \in SUBSET Slot : \E page \in [J -> FDs] :
           Joins(J, page) /\ ClonedFrom(p, J, page)
<1> DEFINE From(t)     == <<p, t[2]>>
           Inherits(t) == t[1] = q /\ segment[From(t)] # NoSegment
           Shares(t)   == segment[From(t)].name # Private
           Page(t)     == IF Shares(t) THEN sharedFD[segment[From(t)].name]
                          ELSE FrameDescOf(pte[From(t)])
           Entry(t)    == IF Shares(t)
                            THEN AttachedPTE(segment[From(t)].flags, Page(t))
                            ELSE ClonedPTE(segment[From(t)].flags,
                                           pte[From(t)], Page(t))
           New(d)      == {t \in Slot : Inherits(t) /\ Page(t) = d}
           Marked(t)   == \E d \in FDs :
                            /\ ~fd[d].sharedBit
                            /\ New(d) # {}
                            /\ t \in fd[d].owners \cup New(d)
                            /\ Cardinality(fd[d].owners \cup New(d)) > 1
           Copied(t)   == IF Inherits(t) THEN Entry(t) ELSE pte[t]
<1>1. /\ \A t \in Slot : Inherits(t) => Page(t) # NoFD
      /\ segment' = [t \in Slot |-> IF t[1] = q THEN segment[From(t)] ELSE segment[t]]
      /\ fd' = [d \in FDs |-> [fd[d] EXCEPT !.owners = @ \cup New(d)]]
      /\ pte' = [t \in Slot |-> IF Marked(t) THEN SetCopyOnWrite(Copied(t))
                                ELSE Copied(t)]
      /\ \A v \in VPages : segment[<<q, v>>] = NoSegment
      /\ UNCHANGED <<vmFree, vmDescriptors, clusterFree, clusterDescriptors>>
  BY DEF CloneProcess
<1>2. \A t \in Slot : /\ From(t) \in Slot
                      /\ t[1] = q => segment[t] = NoSegment
  BY <1>1 DEF Slot
<1> HIDE DEF Marked
<1>3. ASSUME NEW t \in Slot, Inherits(t)
      PROVE  Page(t) \in FDs /\ Entry(t) \in PTE
  <2>1. /\ From(t) \in Slot /\ segment[From(t)] \in Segments
        /\ pte[From(t)] \in PTE /\ Page(t) # NoFD
    BY <1>1, <1>2, <1>3 DEF TypeOK, FMTypeOK, PagingTypeOK
  <2>2. Page(t) \in FDs
    <3>1. CASE Shares(t)
      BY <2>1, <3>1 DEF Segments, TypeOK, PagingTypeOK
    <3>2. CASE ~Shares(t)
      BY <2>1, <3>2, FrameDescOfType DEF TypeOK
    <3> QED BY <3>1, <3>2
  <2> HIDE DEF Page
  <2> QED BY <2>1, <2>2, AttachedType DEF TypeOK
<1>4. PICK J \in SUBSET Slot : J = {t \in Slot : Inherits(t)}
  OBVIOUS
<1>5. PICK page \in [J -> FDs] : \A t \in J : page[t] = Page(t)
  <2>1. \A t \in J : Page(t) \in FDs
    BY <1>3, <1>4
  <2> HIDE DEF Page
  <2>2. [t \in J |-> Page(t)] \in [J -> FDs]
    BY <2>1
  <2> QED BY <2>2
<1>6. \A o \in FDs : New(o) = {t \in J : page[t] = o}
  BY <1>4, <1>5
<1>7. \A o \in FDs : /\ fd'[o].vmValid = fd[o].vmValid
                     /\ fd'[o].vmFrameNum = fd[o].vmFrameNum
                     /\ fd'[o].diskValid = fd[o].diskValid
                     /\ fd'[o].diskFrameNum = fd[o].diskFrameNum
                     /\ fd[o].sharedBit = fd'[o].sharedBit
                     /\ fd'[o].owners = fd[o].owners \cup {t \in J : page[t] = o}
  <2> HIDE DEF New
  <2> QED BY <1>1, <1>6, Parts DEF FD
<1>8. \A t \in J : segment[t] = NoSegment /\ segment'[t] # NoSegment
  BY <1>1, <1>2, <1>4
<1>9. ASSUME NEW t \in J PROVE page[t] = Page(t) /\ SameWhere(pte'[t], Entry(t))
  <2>1. t \in Slot /\ page[t] = Page(t) /\ Entry(t) \in PTE
    BY <1>3, <1>4, <1>5
  <2>2. Copied(t) = Entry(t)
    BY <1>4
  <2> HIDE DEF Page, Entry, Copied, Inherits
  <2> QED BY <1>1, <2>1, <2>2, BitsKeepPlace DEF SameWhere
<1>10. ASSUME NEW t \in Slot \ J
       PROVE  segment'[t] = segment[t] /\ SameWhere(pte'[t], pte[t])
  <2>1. ~Inherits(t)
    BY <1>4
  <2>2. segment'[t] = segment[t]
    BY <1>1, <1>2, <2>1
  <2>3. Copied(t) = pte[t]
    BY <2>1
  <2> HIDE DEF Copied
  <2> QED BY <1>1, <2>2, <2>3, Parts, BitsKeepPlace DEF SameWhere
<1>11. Joins(J, page)
  <2> HIDE DEF From, Inherits, Page, New
  <2> QED BY <1>1, <1>7, <1>8, <1>10 DEF Joins
<1>12. ASSUME NEW t \in J
       PROVE  /\ From(t) \in Slot /\ segment[From(t)] # NoSegment
              /\ IF Shares(t)
                   THEN /\ page[t] = sharedFD[segment[From(t)].name]
                        /\ SameWhere(pte'[t], AttachedPTE(segment[From(t)].flags, page[t]))
                   ELSE /\ page[t] = FrameDescOf(pte[From(t)])
                        /\ SameWhere(pte'[t],
                              ClonedPTE(segment[From(t)].flags, pte[From(t)], page[t]))
  BY <1>2, <1>4, <1>9
<1>13. ClonedFrom(p, J, page)
  BY <1>12 DEF ClonedFrom
<1> QED BY <1>11, <1>13

\* The entries that a clone makes from pages that have an owner agree with the
\* pages.
LEMMA ClonedIsLocated ==
  ASSUME TypeOK, NoStrayCluster, SharedKnown, NEW p \in Procs,
         NEW J \in SUBSET Slot, NEW page \in [J -> FDs],
         Joins(J, page), ClonedFrom(p, J, page),
         \A s \in Slot : /\ s[1] = p /\ segment[s] # NoSegment
                          /\ segment[s].name = Private
                          /\ FrameDescOf(pte[s]) \in FDs
                          => Located(pte[s], FrameDescOf(pte[s])),
         NEW t \in J
  PROVE  Located(pte[t], page[t])'
<1> DEFINE s == <<p, t[2]>>
           d == page[t]
           e == AttachedPTE(segment[s].flags, d)
           c == ClonedPTE(segment[s].flags, pte[s], d)
<1>1. s \in Slot /\ segment[s] # NoSegment /\ d \in FDs
  BY DEF ClonedFrom
<1>2. /\ fd'[d].vmValid = fd[d].vmValid /\ fd'[d].vmFrameNum = fd[d].vmFrameNum
      /\ fd'[d].diskValid = fd[d].diskValid
      /\ fd'[d].diskFrameNum = fd[d].diskFrameNum
      /\ fd[d].sharedBit => fd'[d].sharedBit
  BY <1>1 DEF Joins
<1>3. CASE segment[s].name # Private
  <2>1. d = sharedFD[segment[s].name] /\ SameWhere(pte'[t], e)
    BY <1>3 DEF ClonedFrom
  <2>2. segment[s].name \in SharedNames
    BY <1>1, <1>3 DEF Segments, TypeOK, PagingTypeOK
  <2>3. fd[d].sharedBit
    BY <1>1, <2>1, <2>2, PointersAssumption DEF SharedKnown
  <2>4. AgreesWith(e, d) /\ (~e.diskValid => e.diskFrameNum \in {d, NoCluster})
    BY <1>1, AttachedIsLocated
  <2> HIDE DEF e, s
  <2> QED BY <1>2, <2>1, <2>3, <2>4 DEF Located, AgreesWith, SameWhere
<1>4. CASE segment[s].name = Private
  <2>1. d = FrameDescOf(pte[s]) /\ SameWhere(pte'[t], c)
    BY <1>4 DEF ClonedFrom
  <2>2. Located(pte[s], d)
    BY <1>1, <1>4, <2>1
  <2>3. /\ c.vmValid = fd[d].vmValid /\ c.vmFrameNum = pte[s].vmFrameNum
        /\ c.diskValid = fd[d].diskValid
        /\ c.diskFrameNum = pte[s].diskFrameNum
    <3> HIDE DEF d, s
    <3> QED BY DEF ClonedPTE, FreshPTE, BlankPTE
  <2> HIDE DEF c, s
  <2> QED BY <1>2, <2>1, <2>2, <2>3 DEF Located, AgreesWith, SameWhere
<1> QED BY <1>3, <1>4

---------------------------------------------------------------------------
(* Copy on write.                                                          *)

\* Descriptors that no frame and no cluster belongs to can come and go: only
\* where the others are matters.
LEMMA OnlyNowhereChanges ==
  ASSUME TypeOK, FrameAccounting, ClusterAccounting, NoStrayCluster,
         UNCHANGED <<vmFree, vmDescriptors, clusterFree, clusterDescriptors>>,
         NEW k \in FDs,
         ~fd[k].vmValid /\ ~fd[k].diskValid,
         ~fd'[k].vmValid /\ ~fd'[k].diskValid /\ fd'[k].diskFrameNum = NoCluster,
         \A o \in FDs \ {k} : /\ fd'[o].vmValid = fd[o].vmValid
                              /\ fd'[o].vmFrameNum = fd[o].vmFrameNum
                              /\ fd'[o].diskValid = fd[o].diskValid
                              /\ fd'[o].diskFrameNum = fd[o].diskFrameNum
  PROVE  FrameAccounting' /\ ClusterAccounting' /\ NoStrayCluster'
<1>1. FrameAccounting'
  <2>1. ASSUME NEW f \in Frames \ vmFree
        PROVE  LET o == vmDescriptors[f]
               IN  o # NoFD /\ fd'[o].vmValid /\ fd'[o].vmFrameNum = f
    <3>1. /\ vmDescriptors[f] \in FDs /\ vmDescriptors[f] # NoFD
          /\ fd[vmDescriptors[f]].vmValid /\ fd[vmDescriptors[f]].vmFrameNum = f
      BY DEF FrameAccounting, TypeOK, FMTypeOK
    <3> QED BY <3>1
  <2>2. ASSUME NEW o \in FDs, fd'[o].vmValid
        PROVE  fd'[o].vmFrameNum \notin vmFree /\ vmDescriptors[fd'[o].vmFrameNum] = o
    <3>1. o # k
      BY <2>2
    <3>2. fd[o].vmValid /\ fd'[o].vmFrameNum = fd[o].vmFrameNum
      BY <2>2, <3>1
    <3> QED BY <3>2 DEF FrameAccounting
  <2> QED BY <2>1, <2>2 DEF FrameAccounting
<1>2. ClusterAccounting'
  <2>1. ASSUME NEW o \in FDs, fd'[o].diskValid
        PROVE  /\ fd'[o].diskFrameNum \in Clusters \ clusterFree
               /\ clusterDescriptors[fd'[o].diskFrameNum] = o
    <3>1. o # k
      BY <2>1
    <3>2. fd[o].diskValid /\ fd'[o].diskFrameNum = fd[o].diskFrameNum
      BY <2>1, <3>1
    <3> QED BY <3>2 DEF ClusterAccounting
  <2>2. ASSUME NEW c \in Clusters \ clusterFree
        PROVE  \E o \in FDs : fd'[o].diskValid /\ fd'[o].diskFrameNum = c
    <3>1. PICK o \in FDs : fd[o].diskValid /\ fd[o].diskFrameNum = c
      BY DEF ClusterAccounting
    <3> QED BY <3>1
  <2> QED BY <2>1, <2>2 DEF ClusterAccounting
<1>3. NoStrayCluster'
  BY DEF NoStrayCluster
<1> QED BY <1>1, <1>2, <1>3

\* pageFault moves a page to a descriptor of its own, which is not the one
\* that is found for the page.
LEMMA CowDetachMoves ==
  ASSUME TypeOK, TypeOK', FrameAccounting, ClusterAccounting, NoStrayCluster,
         CowDetach, FrameDescOf(pte[op.slot]) # NewFD
  PROVE  \E s \in Slot, parent, child \in FDs :
           /\ s = op.slot /\ parent = FrameDescOf(pte[s]) /\ child = NewFD
           /\ parent # child /\ fd[child] = BlankFD /\ UNCHANGED segment
           /\ \A o \in FDs \ {parent, child} : fd'[o] = fd[o]
           /\ fd'[parent].owners = fd[parent].owners \ {s}
           /\ fd'[parent].vmValid = fd[parent].vmValid
           /\ fd'[parent].vmFrameNum = fd[parent].vmFrameNum
           /\ fd'[parent].diskValid = fd[parent].diskValid
           /\ fd'[parent].diskFrameNum = fd[parent].diskFrameNum
           /\ fd'[parent].sharedBit = fd[parent].sharedBit
           /\ fd'[child].owners = {s}
           /\ fd'[child].vmValid = FALSE /\ fd'[child].diskValid = FALSE
           /\ fd'[child].diskFrameNum = NoCluster /\ ~fd'[child].sharedBit
           /\ pte'[s].vmValid = FALSE /\ pte'[s].diskValid = FALSE
           /\ pte'[s].diskFrameNum = child
           /\ \A t \in Slot \ {s} : SameWhere(pte'[t], pte[t])
           /\ FrameAccounting' /\ ClusterAccounting' /\ NoStrayCluster'
<1>1. PICK s \in Slot : s = op.slot
  BY OpType DEF CowDetach, In
<1>2. PICK parent \in FDs : parent = FrameDescOf(pte[s])
  BY <1>1 DEF CowDetach, FrameDescOf, TypeOK, FMTypeOK, PTE
<1>3. PICK child \in FDs : child = NewFD /\ fd[child] = BlankFD /\ parent # child
  BY <1>1, <1>2, NewFDFact DEF CowDetach, Unused
<1> DEFINE rest == fd[parent].owners \ {s}
<1>4. /\ fd' = [fd EXCEPT ![parent].owners = rest,
                          ![child] = [BlankFD EXCEPT !.owners = {s}]]
      /\ UNCHANGED <<vmFree, vmDescriptors, clusterFree, clusterDescriptors, segment>>
  BY <1>1, <1>2, <1>3 DEF CowDetach
<1>5. /\ \A o \in FDs \ {parent, child} : fd'[o] = fd[o]
      /\ fd'[parent].owners = rest
      /\ fd'[parent].vmValid = fd[parent].vmValid
      /\ fd'[parent].vmFrameNum = fd[parent].vmFrameNum
      /\ fd'[parent].diskValid = fd[parent].diskValid
      /\ fd'[parent].diskFrameNum = fd[parent].diskFrameNum
      /\ fd'[parent].sharedBit = fd[parent].sharedBit
      /\ fd'[child].owners = {s}
      /\ fd'[child].vmValid = FALSE /\ fd'[child].diskValid = FALSE
      /\ fd'[child].diskFrameNum = NoCluster /\ ~fd'[child].sharedBit
  <2>1. fd \in [FDs -> FD] /\ fd[parent] \in FD
    BY DEF TypeOK, FMTypeOK
  <2> HIDE DEF rest
  <2> QED BY <1>3, <1>4, <2>1 DEF FD, BlankFD
<1>6. /\ pte'[s].vmValid = FALSE /\ pte'[s].diskValid = FALSE
      /\ pte'[s].diskFrameNum = child
      /\ \A t \in Slot \ {s} : SameWhere(pte'[t], pte[t])
  <2> DEFINE detached == [ResetCopyOnWrite(pte[s]) EXCEPT
                            !.vmValid = FALSE, !.vmFrameNum = 0,
                            !.diskValid = FALSE, !.diskFrameNum = child]
  <2>1. pte' = [t \in Slot |->
           IF t = s THEN detached
           ELSE IF SoleOwner(rest, t) THEN ResetCopyOnWrite(pte[t])
           ELSE pte[t]]
    BY <1>1, <1>2, <1>3 DEF CowDetach
  <2>2. ResetCopyOnWrite(pte[s]) \in PTE
    BY Parts, RightsType
  <2>3. /\ detached.vmValid = FALSE /\ detached.diskValid = FALSE
        /\ detached.diskFrameNum = child
    BY <2>2 DEF PTE
  <2> HIDE DEF detached, rest
  <2> QED BY <2>1, <2>3, Parts, BitsKeepPlace DEF SameWhere
<1>7. FrameAccounting' /\ ClusterAccounting' /\ NoStrayCluster'
  <2>1. \A o \in FDs \ {child} : /\ fd'[o].vmValid = fd[o].vmValid
                                 /\ fd'[o].vmFrameNum = fd[o].vmFrameNum
                                 /\ fd'[o].diskValid = fd[o].diskValid
                                 /\ fd'[o].diskFrameNum = fd[o].diskFrameNum
    BY <1>5
  <2> HIDE DEF rest
  <2>2. ~fd[child].vmValid /\ ~fd[child].diskValid
    BY <1>3, BlankIsNowhere
  <2> QED BY <1>4, <1>5, <2>1, <2>2, OnlyNowhereChanges
<1> HIDE DEF rest
<1> WITNESS s \in Slot, parent \in FDs, child \in FDs
<1> QED BY <1>1, <1>2, <1>3, <1>4, <1>5, <1>6, <1>7 DEF rest

\* The page has its new place, and a backup that agrees with the old one, of
\* which it was an owner.
LEMMA CowDetachKeepsLocated ==
  ASSUME Filled, TypeOK', CowDetach, NEW slot \in Slot, slot = op.slot,
         FrameDescOf(pte[slot]) \in FDs, slot \in fd[FrameDescOf(pte[slot])].owners
  PROVE  OwnersLocated' /\ CopyPending'
<1>1. FrameDescOf(pte[slot]) # NewFD
  BY NewFDFact, BlankIsNowhere DEF CowDetach, Unused
<1>2. TypeOK
  BY DEF Filled
<1>3. PICK s \in Slot, parent, child \in FDs :
           /\ s = op.slot /\ parent = FrameDescOf(pte[s]) /\ child = NewFD
           /\ parent # child /\ fd[child] = BlankFD /\ UNCHANGED segment
           /\ \A o \in FDs \ {parent, child} : fd'[o] = fd[o]
           /\ fd'[parent].owners = fd[parent].owners \ {s}
           /\ fd'[parent].vmValid = fd[parent].vmValid
           /\ fd'[parent].vmFrameNum = fd[parent].vmFrameNum
           /\ fd'[parent].diskValid = fd[parent].diskValid
           /\ fd'[parent].diskFrameNum = fd[parent].diskFrameNum
           /\ fd'[parent].sharedBit = fd[parent].sharedBit
           /\ fd'[child].owners = {s}
           /\ fd'[child].vmValid = FALSE /\ fd'[child].diskValid = FALSE
           /\ fd'[child].diskFrameNum = NoCluster /\ ~fd'[child].sharedBit
           /\ pte'[s].vmValid = FALSE /\ pte'[s].diskValid = FALSE
           /\ pte'[s].diskFrameNum = child
           /\ \A t \in Slot \ {s} : SameWhere(pte'[t], pte[t])
           /\ FrameAccounting' /\ ClusterAccounting' /\ NoStrayCluster'
  BY <1>1, CowDetachMoves DEF Filled
<1>4. s \in fd[parent].owners
  BY <1>3
<1>5. OwnersLocated'
  <2> SUFFICES ASSUME NEW o \in FDs, NEW t \in fd'[o].owners
               PROVE  Located(pte[t], o)'
    BY DEF OwnersLocated
  <2>1. CASE o = child
    BY <1>3, <2>1 DEF Located, AgreesWith
  <2>2. CASE o # child
    <3>1. t \in fd[o].owners /\ t \in Slot \ {s}
      BY <1>3, <1>4, <2>2, Parts DEF Filled, OneOwned
    <3>2. Located(pte[t], o) /\ SameWhere(pte'[t], pte[t])
      BY <1>3, <3>1 DEF Filled, OwnersLocated
    <3>3. /\ fd'[o].vmValid = fd[o].vmValid /\ fd'[o].vmFrameNum = fd[o].vmFrameNum
          /\ fd'[o].diskValid = fd[o].diskValid
          /\ fd'[o].diskFrameNum = fd[o].diskFrameNum
          /\ fd'[o].sharedBit = fd[o].sharedBit
      BY <1>3, <2>2
    <3> QED BY <3>2, <3>3 DEF Located, AgreesWith, SameWhere
  <2> QED BY <2>1, <2>2
<1>6. CopyPending'
  <2>1. /\ op'.slot = s /\ op'.parent = parent /\ op'.child = child
        /\ op'.backup = pte[s]
    <3> DEFINE shared == Cardinality(fd[parent].owners) > 1
               read == mem[op.frame]
    <3>1. op' = [op EXCEPT
                   !.phase = "cowload", !.buffer = read, !.parent = parent,
                   !.child = child, !.backup = pte[s], !.wasShared = shared]
      BY <1>3 DEF CowDetach
    <3> HIDE DEF shared, read
    <3> QED BY <1>3, <3>1, OpType DEF Filled, Ops
  <2>2. Located(pte[s], parent)
    BY <1>4 DEF Filled, OwnersLocated
  <2>3. Located(op.backup, op.parent)'
    BY <1>3, <2>1, <2>2 DEF Located, AgreesWith
  <2> QED BY <1>3, <2>1, <2>3 DEF CopyPending, CopyNowhere
<1> QED BY <1>5, <1>6

\* The rollback gives the page back to the descriptor it was found at.
LEMMA CowRollbackMoves ==
  ASSUME TypeOK, TypeOK', FrameAccounting, ClusterAccounting, NoStrayCluster,
         CowRollback, NEW s \in Slot, s = op.slot, NEW d \in FDs, d = op.parent,
         NEW child \in FDs, child = op.child, d # child,
         ~fd[child].vmValid, ~fd[child].diskValid
  PROVE  /\ UNCHANGED segment
         /\ \A o \in FDs \ {d, child} : fd'[o] = fd[o]
         /\ fd'[child] = BlankFD
         /\ fd'[d].owners = fd[d].owners \cup {s}
         /\ fd'[d].vmValid = fd[d].vmValid
         /\ fd'[d].vmFrameNum = fd[d].vmFrameNum
         /\ fd'[d].diskValid = fd[d].diskValid
         /\ fd'[d].diskFrameNum = fd[d].diskFrameNum
         /\ fd'[d].sharedBit = fd[d].sharedBit
         /\ SameWhere(pte'[s], op.backup)
         /\ \A t \in Slot \ {s} : SameWhere(pte'[t], pte[t])
         /\ FrameAccounting' /\ ClusterAccounting' /\ NoStrayCluster'
<1> DEFINE owners == fd[d].owners \cup {s}
           restored == [pte EXCEPT ![s] = op.backup]
<1>1. /\ fd' = [fd EXCEPT ![child] = BlankFD, ![d].owners = owners]
      /\ pte' = [t \in Slot |-> IF op.wasShared /\ t \in owners
                                  THEN SetCopyOnWrite(restored[t]) ELSE restored[t]]
      /\ UNCHANGED <<vmFree, vmDescriptors, clusterFree, clusterDescriptors, segment>>
  BY DEF CowRollback
<1>2. /\ \A o \in FDs \ {d, child} : fd'[o] = fd[o]
      /\ fd'[child] = BlankFD
      /\ fd'[d].owners = owners
      /\ fd'[d].vmValid = fd[d].vmValid
      /\ fd'[d].vmFrameNum = fd[d].vmFrameNum
      /\ fd'[d].diskValid = fd[d].diskValid
      /\ fd'[d].diskFrameNum = fd[d].diskFrameNum
      /\ fd'[d].sharedBit = fd[d].sharedBit
  <2>1. fd \in [FDs -> FD] /\ fd[d] \in FD
    BY DEF TypeOK, FMTypeOK
  <2> HIDE DEF owners
  <2> QED BY <1>1, <2>1 DEF FD
<1>3. /\ SameWhere(pte'[s], op.backup)
      /\ \A t \in Slot \ {s} : SameWhere(pte'[t], pte[t])
  <2>1. op.backup \in PTE
    BY OpType DEF CowRollback, Ops
  <2>2. /\ \A t \in Slot : restored[t] \in PTE
        /\ restored[s] = op.backup
        /\ \A t \in Slot \ {s} : restored[t] = pte[t]
    BY <2>1 DEF TypeOK, FMTypeOK
  <2> HIDE DEF restored, owners
  <2> QED BY <1>1, <2>2, BitsKeepPlace DEF SameWhere
<1>4. FrameAccounting' /\ ClusterAccounting' /\ NoStrayCluster'
  <2>1. \A o \in FDs \ {child} : /\ fd'[o].vmValid = fd[o].vmValid
                                 /\ fd'[o].vmFrameNum = fd[o].vmFrameNum
                                 /\ fd'[o].diskValid = fd[o].diskValid
                                 /\ fd'[o].diskFrameNum = fd[o].diskFrameNum
    BY <1>2
  <2>2. /\ ~fd'[child].vmValid /\ ~fd'[child].diskValid
        /\ fd'[child].diskFrameNum = NoCluster
    BY <1>2, BlankIsNowhere
  <2> QED BY <1>1, <2>1, <2>2, OnlyNowhereChanges
<1> QED BY <1>1, <1>2, <1>3, <1>4

LEMMA CowRollbackKeepsLocated ==
  ASSUME Filled, TypeOK', CopyPending, CowRollback
  PROVE  /\ OwnersLocated'
         /\ \A o \in FDs \ {op.child} : fd'[o].sharedBit = fd[o].sharedBit
<1>1. PICK s \in Slot, d \in FDs, child \in FDs :
        /\ s = op.slot /\ d = op.parent /\ child = op.child /\ d # child
        /\ fd[child].owners = {s} /\ ~fd[child].vmValid /\ ~fd[child].diskValid
        /\ Located(op.backup, d)
  BY OpType DEF CowRollback, In, CopyPending, CopyNowhere, Filled
<1>2. /\ \A o \in FDs \ {d, child} : fd'[o] = fd[o]
      /\ fd'[child] = BlankFD
      /\ fd'[d].owners = fd[d].owners \cup {s}
      /\ fd'[d].vmValid = fd[d].vmValid
      /\ fd'[d].vmFrameNum = fd[d].vmFrameNum
      /\ fd'[d].diskValid = fd[d].diskValid
      /\ fd'[d].diskFrameNum = fd[d].diskFrameNum
      /\ fd'[d].sharedBit = fd[d].sharedBit
  BY <1>1, CowRollbackMoves DEF Filled
<1>3. /\ SameWhere(pte'[s], op.backup)
      /\ \A t \in Slot \ {s} : SameWhere(pte'[t], pte[t])
  BY <1>1, CowRollbackMoves DEF Filled
<1>4. OwnersLocated'
  <2> SUFFICES ASSUME NEW o \in FDs, NEW t \in fd'[o].owners
               PROVE  Located(pte[t], o)'
    BY DEF OwnersLocated
  <2>1. o # child
    BY <1>2, BlankIsNowhere
  <2>2. /\ fd'[o].vmValid = fd[o].vmValid /\ fd'[o].vmFrameNum = fd[o].vmFrameNum
        /\ fd'[o].diskValid = fd[o].diskValid
        /\ fd'[o].diskFrameNum = fd[o].diskFrameNum
        /\ fd'[o].sharedBit = fd[o].sharedBit
    BY <1>2, <2>1
  <2>3. CASE t = s
    <3>1. o = d
      BY <1>1, <1>2, <2>1, <2>3 DEF Filled, OneOwned
    <3> QED BY <1>1, <1>3, <2>2, <2>3, <3>1 DEF Located, AgreesWith, SameWhere
  <2>4. CASE t # s
    <3>1. t \in fd[o].owners /\ t \in Slot
      BY <1>2, <2>1, <2>4, Parts DEF Filled
    <3>2. Located(pte[t], o) /\ SameWhere(pte'[t], pte[t])
      BY <1>3, <2>4, <3>1 DEF Filled, OwnersLocated
    <3> QED BY <2>2, <3>2 DEF Located, AgreesWith, SameWhere
  <2> QED BY <2>3, <2>4
<1> QED BY <1>1, <1>2, <1>4

---------------------------------------------------------------------------
(* What operations leave alone: names, the page of the operation that is   *)
(* running, a pending copy, and the places of pages.                       *)

LEMMA InitBookkeeping == Init => Bookkeeping
<1> SUFFICES ASSUME Init PROVE Bookkeeping
  OBVIOUS
<1>1. TypeOK
  BY InitType
<1>2. Places
  BY BlankIsNowhere DEF Init, FMInit, Places, FrameAccounting, ClusterAccounting,
     NoStrayCluster, OwnersLocated, OneDescriptor
<1>3. SharedKnown /\ OnSegment /\ CopyPending
  BY DEF Init, SharedKnown, OnSegment, CopyPending, CopyNowhere, IdleOp
<1> QED BY <1>1, <1>2, <1>3 DEF Bookkeeping

\* Names keep their descriptors when no descriptor of a shared segment changes.
LEMMA NamesKept ==
  ASSUME SharedKnown, UNCHANGED sharedFD, TypeOK,
         \A o \in FDs : fd[o].sharedBit => fd'[o].sharedBit
  PROVE  SharedKnown'
BY DEF SharedKnown, TypeOK, PagingTypeOK

\* No operation is left half way through a copy.
LEMMA NotCopying ==
  op'.phase \notin {"cowload", "rollback"} => CopyPending'
BY DEF CopyPending, CopyNowhere

\* Loads and stores set bits and change contents only.
LEMMA AccessInPlace ==
  ASSUME TypeOK, NEW s \in Slot, NEW type \in Accesses, NEW w \in Values,
         Access(s, type, w)
  PROVE  /\ InPlace /\ UNCHANGED sharedFD
         /\ op'.slot = s /\ op'.phase \in {"touch", "fault"} /\ segment'[s] # NoSegment
<1>1. UNCHANGED <<fd, vmFree, vmDescriptors, clusterFree, clusterDescriptors,
                  segment, sharedFD>>
  BY DEF Access
<1>2. \A t \in Slot : SameWhere(pte'[t], pte[t])
  <2>1. pte' = pte \/ pte' = [pte EXCEPT ![s] = Accessed(@, type)]
    BY DEF Access
  <2>2. pte \in [Slot -> PTE]
    BY DEF TypeOK, FMTypeOK
  <2>3. SameWhere(Accessed(pte[s], type), pte[s])
    BY <2>2, BitsKeepPlace
  <2> QED BY <2>1, <2>2, <2>3 DEF SameWhere
<1>3. /\ op'.slot = s /\ op'.phase \in {"touch", "fault"}
      /\ segment[s] # NoSegment
  BY OpType DEF Access, Ops
<1> QED BY <1>1, <1>2, <1>3 DEF InPlace

LEMMA InstructionInPlace ==
  ASSUME TypeOK, Retry \/ Touch \/ Fill \/ CowCopy
  PROVE  /\ InPlace /\ UNCHANGED sharedFD
         /\ op.phase # "idle"
         /\ \/ op'.phase \in {"touch", "retry"} /\ op'.slot = op.slot
            \/ op'.phase = "idle"
<1>1. UNCHANGED <<fd, vmFree, vmDescriptors, clusterFree, clusterDescriptors,
                  segment, sharedFD>>
  BY DEF Retry, Touch, Fill, CowCopy
<1>2. op.phase # "idle" /\ op.slot \in Slot /\ pte \in [Slot -> PTE]
  BY OpType DEF Retry, Touch, Fill, CowCopy, In, TypeOK, FMTypeOK
<1>3. \A t \in Slot : SameWhere(pte'[t], pte[t])
  <2>1. \/ pte' = pte
        \/ pte' = [pte EXCEPT ![op.slot] = Accessed(@, op.type)]
        \/ pte' = [pte EXCEPT ![op.slot].dirty = TRUE]
    BY DEF Retry, Touch, Fill, CowCopy
  <2>2. SameWhere(Accessed(pte[op.slot], op.type), pte[op.slot])
    BY <1>2, BitsKeepPlace
  <2>3. SameWhere([pte[op.slot] EXCEPT !.dirty = TRUE], pte[op.slot])
    BY <1>2 DEF SameWhere, PTE
  <2> QED BY <1>2, <2>1, <2>2, <2>3 DEF SameWhere
<1>4. \/ op'.phase \in {"touch", "retry"} /\ op'.slot = op.slot
      \/ op'.phase = "idle"
  <2>1. CASE Retry \/ Touch \/ Fill
    BY <2>1, OpType DEF Retry, Touch, Fill, Goto, Finish, IdleOp, Ops
  <2>2. CASE CowCopy
    <3>1. op' = [op EXCEPT
                   !.phase = "retry", !.buffer = Zero, !.parent = NoFD,
                   !.child = NoFD, !.backup = BlankPTE, !.wasShared = FALSE]
      BY <2>2 DEF CowCopy
    <3> QED BY <3>1, OpType DEF Ops
  <2> QED BY <2>1, <2>2
<1> QED BY <1>1, <1>2, <1>3, <1>4 DEF InPlace

\* What a load is followed by works on the same page, and is no copy pending.
LEMMA AfterLoading ==
  ASSUME TypeOK, OnSegment, Loading, NEW e, Loaded(e), UNCHANGED segment
  PROVE  OnSegment' /\ CopyPending'
<1>1. AfterLoad(e) \in {"idle", "cowcopy", "fill", "retry", "detach"}
  BY DEF AfterLoad, Loading
<1>2. \/ op'.phase = "idle"
      \/ op'.phase = AfterLoad(e) /\ op'.slot = op.slot
  BY OpType DEF Loaded, IdleOp, Ops
<1>3. op.phase # "idle"
  BY DEF Loading
<1> QED BY <1>1, <1>2, <1>3, NotCopying DEF OnSegment

\* An eviction that fails moves no page, and a copy is rolled back or goes on.
LEMMA LoadEvictFailsInPlace ==
  ASSUME TypeOK, OnSegment, CopyPending, LoadEvictFails
  PROVE  InPlace /\ UNCHANGED sharedFD /\ OnSegment' /\ CopyPending'
<1>1. UNCHANGED <<fd, vmFree, vmDescriptors, clusterFree, clusterDescriptors,
                  segment, sharedFD>>
  BY DEF LoadEvictFails, EvictFails
<1>2. \A t \in Slot : SameWhere(pte'[t], pte[t])
  <2>1. PICK passed \in SUBSET Frames : pte' = SweptPTE(passed)
    BY DEF LoadEvictFails, EvictFails
  <2> QED BY <2>1, SweptWhere DEF TypeOK
<1>3. op \in Ops /\ op.phase # "idle" /\ vmFree = {}
  BY OpType DEF LoadEvictFails, Absent, Loading, EvictFails
<1>4. \/ op'.phase = "idle"
      \/ /\ op.phase = "load"
         /\ op' = [op EXCEPT !.phase = "unload"]
      \/ /\ op.phase = "cowload"
         /\ op' = [op EXCEPT !.phase = "rollback"]
  BY DEF LoadEvictFails, NotLoaded, Finish, Goto, IdleOp
<1>5. CASE op'.phase = "idle"
  BY <1>1, <1>2, <1>5, NotCopying DEF InPlace, OnSegment
<1>6. CASE op.phase = "load" /\ op' = [op EXCEPT !.phase = "unload"]
  <2>1. op'.phase = "unload" /\ op'.slot = op.slot
    BY <1>3, <1>6 DEF Ops
  <2> QED BY <1>1, <1>2, <1>3, <2>1, NotCopying DEF InPlace, OnSegment
<1>7. CASE op.phase = "cowload" /\ op' = [op EXCEPT !.phase = "rollback"]
  <2>1. /\ op'.slot = op.slot /\ op'.parent = op.parent
        /\ op'.child = op.child /\ op'.backup = op.backup
    BY <1>3, <1>7 DEF Ops
  <2>2. /\ op.parent \in FDs /\ op.child \in FDs /\ op.parent # op.child
        /\ fd[op.child].owners = {op.slot}
        /\ ~fd[op.child].vmValid /\ ~fd[op.child].diskValid
        /\ ~fd[op.child].sharedBit
        /\ Located(op.backup, op.parent)
    BY <1>3, <1>7 DEF CopyPending, CopyNowhere
  <2>3. CopyPending'
    BY <1>1, <2>1, <2>2 DEF CopyPending, CopyNowhere, Located, AgreesWith
  <2>4. OnSegment'
    BY <1>1, <1>3, <2>1 DEF OnSegment
  <2> QED BY <1>1, <1>2, <2>3, <2>4 DEF InPlace
<1> QED BY <1>4, <1>5, <1>6, <1>7

\* A name's descriptor is unaffected by what becomes of a private one.
LEMMA NamesKeptBut ==
  ASSUME TypeOK, SharedKnown, UNCHANGED sharedFD, NEW k \in FDs, ~fd[k].sharedBit,
         \A o \in FDs \ {k} : fd[o].sharedBit => fd'[o].sharedBit
  PROVE  SharedKnown'
BY NamesKept

\* The copy's descriptor is new, so no name stands for it.
LEMMA CowDetachNames ==
  ASSUME TypeOK, SharedKnown, CowDetach
  PROVE  SharedKnown'
<1>1. NewFD \in FDs /\ fd[NewFD] = BlankFD
  BY NewFDFact DEF CowDetach, Unused
<1>2. PICK k \in FDs : k = NewFD /\ ~fd[k].sharedBit
  BY <1>1, BlankIsNowhere
<1>3. \A o \in FDs \ {k} : fd[o].sharedBit => fd'[o].sharedBit
  <2>1. PICK d, rest, new :
          fd' = [fd EXCEPT ![d].owners = rest, ![k] = new]
    BY <1>2 DEF CowDetach
  <2>2. fd \in [FDs -> FD]
    BY DEF TypeOK, FMTypeOK
  <2> QED BY <2>1, <2>2 DEF FD
<1> QED BY <1>2, <1>3, NamesKeptBut DEF CowDetach

LEMMA AllocateNewSegmentNames ==
  ASSUME TypeOK, SharedKnown, NEW s \in Slot, NEW flags \in Flags,
         AllocateNewSegment(s, flags)
  PROVE  SharedKnown'
<1>1. PICK k \in FDs : k = NewFD /\ fd[k] = BlankFD
  BY NewFDFact DEF AllocateNewSegment, Unused
<1>2. \A o \in FDs \ {k} : fd'[o] = fd[o]
  BY <1>1 DEF AllocateNewSegment, TypeOK, FMTypeOK
<1> QED BY <1>1, <1>2, BlankIsNowhere, NamesKeptBut DEF AllocateNewSegment

LEMMA DeletionNames ==
  ASSUME TypeOK, SharedKnown, NEW s \in Slot, DeleteSegmentImpl(s)
  PROVE  SharedKnown'
<1>1. PICK d \in FDs : RemoveOwner(s, d)
  <2>1. FrameDescOf(pte[s]) \in FDs
    BY FrameDescOfType DEF DeleteSegmentImpl, TypeOK, FMTypeOK
  <2> QED BY <2>1 DEF DeleteSegmentImpl
<1>2. fd \in [FDs -> FD] /\ UNCHANGED sharedFD
  BY DEF DeleteSegmentImpl, TypeOK, FMTypeOK
<1>3. CASE ~fd[d].sharedBit /\ ReleaseFD(d)
  <2>1. \A o \in FDs \ {d} : fd'[o] = fd[o]
    BY <1>2, <1>3 DEF ReleaseFD
  <2> QED BY <1>2, <1>3, <2>1, NamesKeptBut
<1>4. CASE fd' = [fd EXCEPT ![d].owners = fd[d].owners \ {s}]
  <2>1. \A o \in FDs : fd'[o].sharedBit = fd[o].sharedBit
    BY <1>2, <1>4 DEF FD
  <2> QED BY <1>2, <2>1, NamesKept
<1> QED BY <1>1, <1>3, <1>4 DEF RemoveOwner

LEMMA SharedSegmentNames ==
  ASSUME TypeOK, SharedKnown, NEW x \in SharedNames,
         \/ DeleteSharedSegment(x)
         \/ \E s \in Slot, flags \in Flags : CreateSharedSegment(s, x, flags)
  PROVE  SharedKnown'
<1>1. fd \in [FDs -> FD] /\ sharedFD \in [SharedNames -> FDs \cup {NoFD}]
  BY DEF TypeOK, FMTypeOK, PagingTypeOK
<1>2. CASE DeleteSharedSegment(x)
  <2>1. PICK d \in FDs : d = sharedFD[x] /\ ReleaseFD(d)
    BY <1>1, <1>2 DEF DeleteSharedSegment
  <2>2. /\ \A o \in FDs \ {d} : fd'[o] = fd[o]
        /\ sharedFD'[x] = NoFD
        /\ \A y \in SharedNames \ {x} : sharedFD'[y] = sharedFD[y]
    BY <1>1, <1>2, <2>1 DEF DeleteSharedSegment, ReleaseFD
  <2>3. \A y \in SharedNames \ {x} : sharedFD[y] # d
    BY <2>1, PointersAssumption DEF SharedKnown
  <2> QED BY <1>1, <2>2, <2>3 DEF SharedKnown
<1>3. CASE \E s \in Slot, flags \in Flags : CreateSharedSegment(s, x, flags)
  <2>1. PICK s \in Slot, flags \in Flags : CreateSharedSegment(s, x, flags)
    BY <1>3
  <2>2. PICK d \in FDs :
          /\ d = IF sharedFD[x] = NoFD THEN NewFD ELSE sharedFD[x]
          /\ sharedFD[x] = NoFD => fd[d] = BlankFD
    BY <1>1, <2>1, NewFDFact DEF CreateSharedSegment, Unused
  <2>3. /\ fd' = [fd EXCEPT ![d].owners = @ \cup {s}, ![d].sharedBit = TRUE]
        /\ sharedFD' = [sharedFD EXCEPT ![x] = d]
    BY <2>1, <2>2 DEF CreateSharedSegment
  <2>4. /\ \A o \in FDs : fd[o].sharedBit => fd'[o].sharedBit
        /\ fd'[d].sharedBit
    BY <1>1, <2>3 DEF FD
  <2>5. ASSUME NEW y \in SharedNames \ {x} PROVE sharedFD[y] # d
    <3>1. CASE sharedFD[x] = NoFD
      BY <2>2, <3>1, BlankIsNowhere, PointersAssumption DEF SharedKnown
    <3>2. CASE sharedFD[x] # NoFD
      BY <2>2, <3>2 DEF SharedKnown
    <3> QED BY <3>1, <3>2
  <2>6. /\ sharedFD'[x] = d
        /\ \A y \in SharedNames \ {x} : sharedFD'[y] = sharedFD[y]
    BY <1>1, <2>3
  <2> QED BY <1>1, <2>4, <2>5, <2>6 DEF SharedKnown
<1> QED BY <1>2, <1>3

LEMMA CloneProcessNames ==
  ASSUME TypeOK, SharedKnown, NEW p \in Procs, NEW q \in Procs, CloneProcess(p, q)
  PROVE  SharedKnown'
<1>1. PICK J \in SUBSET Slot : \E page \in [J -> FDs] : Joins(J, page)
  BY CloningJoins
<1>2. \A o \in FDs : fd[o].sharedBit => fd'[o].sharedBit
  BY <1>1 DEF Joins
<1> QED BY <1>2, NamesKept DEF CloneProcess

---------------------------------------------------------------------------
(* Partitions that cannot always be read: the accounts stay right in every *)
(* step from a state in which the owners' entries agree with their pages.  *)

LEMMA AccountedInit == Init => AccountsKept
<1> SUFFICES ASSUME Init PROVE AccountsKept
  OBVIOUS
<1>1. Bookkeeping
  BY InitBookkeeping
<1>2. OwnersOrStranded
  BY BlankIsNowhere DEF Init, FMInit, OwnersOrStranded
<1> QED BY <1>1, <1>2 DEF Bookkeeping, Places, CopyPending, AccountsKept

\* Who owns a page, and whether one that nobody owns is in memory, is known
\* again.
LEMMA OwnersStay ==
  ASSUME AccountsKept, UNCHANGED segment,
         \A o \in FDs : fd'[o].owners = fd[o].owners,
         \A s \in Slot : \/ pte'[s].vmValid = pte[s].vmValid
                         \/ \E o \in FDs : s \in fd[o].owners
  PROVE  OwnersOrStranded'
<1> SUFFICES ASSUME NEW s \in Slot
    PROVE /\ \A d \in FDs : s \in fd'[d].owners => segment[s] # NoSegment
          /\ \A c, d \in FDs : s \in fd'[c].owners /\ s \in fd'[d].owners => c = d
          /\ segment[s] # NoSegment =>
               pte'[s].vmValid \/ \E d \in FDs : s \in fd'[d].owners
  BY DEF OwnersOrStranded
<1> QED BY DEF AccountsKept, OwnersOrStranded

\* The page of slot s, when the owners' entries agree with their pages: the
\* descriptor that is found for s is the one that has s as an owner.
LEMMA FoundWhileLocated ==
  ASSUME AccountsKept, OwnersLocated, NEW s \in Slot, segment[s] # NoSegment,
         FrameDescOf(pte[s]) # NoFD
  PROVE  /\ FrameDescOf(pte[s]) \in FDs
         /\ \A o \in FDs : s \in fd[o].owners => o = FrameDescOf(pte[s])
         /\ ~pte[s].vmValid => /\ s \in fd[FrameDescOf(pte[s])].owners
                               /\ Located(pte[s], FrameDescOf(pte[s]))
<1>1. FrameDescOf(pte[s]) \in FDs
  BY FrameDescOfType DEF AccountsKept, TypeOK, FMTypeOK
<1>2. ASSUME NEW o \in FDs, s \in fd[o].owners PROVE o = FrameDescOf(pte[s])
  BY <1>2, Found DEF AccountsKept, OwnersLocated
<1>3. ASSUME ~pte[s].vmValid
      PROVE  /\ s \in fd[FrameDescOf(pte[s])].owners
             /\ Located(pte[s], FrameDescOf(pte[s]))
  <2>1. PICK o \in FDs : s \in fd[o].owners
    BY <1>3 DEF AccountsKept, OwnersOrStranded
  <2> QED BY <1>2, <2>1 DEF OwnersLocated
<1> QED BY <1>1, <1>2, <1>3

\* Steps that move no page.
LEMMA InPlaceAccounted ==
  ASSUME AccountsKept, TypeOK', InPlace,
         op'.phase # "idle" => segment'[op'.slot] # NoSegment, CopyNowhere'
  PROVE  AccountsKept'
<1>1. FrameAccounting' /\ ClusterAccounting' /\ NoStrayCluster'
  BY DEF InPlace, AccountsKept, FrameAccounting, ClusterAccounting, NoStrayCluster
<1>2. OwnersOrStranded'
  BY OwnersStay DEF InPlace, SameWhere
<1> QED BY <1>1, <1>2 DEF AccountsKept, OnSegment

LEMMA StutterAccounted ==
  ASSUME AccountsKept, TypeOK', UNCHANGED <<fmVars, segment, sharedFD, op>>
  PROVE  AccountsKept'
<1>1. UNCHANGED <<pte, fd, vmFree, vmDescriptors, clusterFree,
                  clusterDescriptors, segment, op>>
  BY DEF fmVars
<1>2. InPlace
  BY <1>1 DEF InPlace, SameWhere
<1>3. CopyNowhere' /\ (op'.phase # "idle" => segment'[op'.slot] # NoSegment)
  BY <1>1 DEF AccountsKept, CopyNowhere, OnSegment
<1> QED BY <1>2, <1>3, InPlaceAccounted

LEMMA AccessAccounted ==
  ASSUME AccountsKept, TypeOK', NEW s \in Slot, NEW type \in Accesses,
         NEW w \in Values, Access(s, type, w)
  PROVE  AccountsKept'
<1>1. /\ InPlace /\ op'.slot = s /\ op'.phase \in {"touch", "fault"}
      /\ segment'[s] # NoSegment
  BY AccessInPlace DEF AccountsKept
<1> QED BY <1>1, InPlaceAccounted DEF CopyNowhere

LEMMA InstructionAccounted ==
  ASSUME AccountsKept, TypeOK', Retry \/ Touch \/ Fill \/ CowCopy
  PROVE  AccountsKept'
<1>1. /\ InPlace /\ op.phase # "idle"
      /\ \/ op'.phase \in {"touch", "retry"} /\ op'.slot = op.slot
         \/ op'.phase = "idle"
  BY InstructionInPlace DEF AccountsKept
<1>2. op'.phase # "idle" => segment'[op'.slot] # NoSegment
  BY <1>1 DEF InPlace, AccountsKept, OnSegment
<1> QED BY <1>1, <1>2, InPlaceAccounted DEF CopyNowhere

LEMMA LoadEvictAccounted ==
  ASSUME AccountsKept, TypeOK', LoadEvict
  PROVE  AccountsKept'
<1>1. /\ FrameAccounting' /\ ClusterAccounting' /\ NoStrayCluster'
      /\ \A o \in FDs : /\ ~fd[o].vmValid => fd'[o] = fd[o]
                        /\ fd'[o].owners = fd[o].owners
      /\ \A s \in Slot : \/ SameWhere(pte'[s], pte[s])
                          \/ \E o \in FDs : s \in fd[o].owners
  BY EvictAccounts DEF LoadEvict, AccountsKept
<1>2. UNCHANGED <<segment, op>>
  BY DEF LoadEvict
<1>3. OwnersOrStranded'
  BY <1>1, <1>2, OwnersStay DEF SameWhere
<1>4. OnSegment' /\ CopyNowhere'
  BY <1>1, <1>2 DEF AccountsKept, OnSegment, CopyNowhere
<1> QED BY <1>1, <1>3, <1>4 DEF AccountsKept

LEMMA LoadEvictFailsAccounted ==
  ASSUME AccountsKept, TypeOK', LoadEvictFails
  PROVE  AccountsKept'
<1>1. UNCHANGED <<fd, vmFree, vmDescriptors, clusterFree, clusterDescriptors,
                  segment>>
  BY DEF LoadEvictFails, EvictFails
<1>2. \A t \in Slot : SameWhere(pte'[t], pte[t])
  <2>1. PICK passed \in SUBSET Frames : pte' = SweptPTE(passed)
    BY DEF LoadEvictFails, EvictFails
  <2> QED BY <2>1, SweptWhere DEF AccountsKept, TypeOK
<1>3. op \in Ops /\ op.phase # "idle"
  BY OpType DEF LoadEvictFails, Absent, Loading, AccountsKept
<1>4. \/ op'.phase = "idle"
      \/ op.phase = "load" /\ op' = [op EXCEPT !.phase = "unload"]
      \/ op.phase = "cowload" /\ op' = [op EXCEPT !.phase = "rollback"]
  BY DEF LoadEvictFails, NotLoaded, Finish, Goto, IdleOp
<1>5. \/ op'.phase = "idle"
      \/ op'.phase = "unload" /\ op'.slot = op.slot
      \/ /\ op.phase = "cowload" /\ op'.phase = "rollback"
         /\ op'.slot = op.slot /\ op'.parent = op.parent /\ op'.child = op.child
  BY <1>3, <1>4 DEF Ops
<1>6. CopyNowhere'
  BY <1>1, <1>5 DEF AccountsKept, CopyNowhere
<1>7. op'.phase # "idle" => segment'[op'.slot] # NoSegment
  BY <1>1, <1>3, <1>5 DEF AccountsKept, OnSegment
<1> QED BY <1>1, <1>2, <1>6, <1>7, InPlaceAccounted DEF InPlace

LEMMA LoadPlaceAccounted ==
  ASSUME AccountsKept, OwnersLocated, TypeOK', LoadPlace
  PROVE  AccountsKept'
<1>1. PICK s \in Slot : s = op.slot
  BY OpType DEF LoadPlace, Absent, Loading, AccountsKept
<1>2. /\ segment[s] # NoSegment /\ ~pte[s].vmValid /\ Place(s)
      /\ Loading /\ UNCHANGED segment
  BY <1>1 DEF LoadPlace, Absent, Loading, AccountsKept, OnSegment
<1>3. PICK d \in FDs : d = FrameDescOf(pte[s]) /\ Located(pte[s], d)
  BY <1>2, FoundWhileLocated DEF Place
<1>4. ~fd[d].vmValid
  BY <1>2, <1>3 DEF Located, AgreesWith
<1>5. FrameAccounting' /\ ClusterAccounting' /\ NoStrayCluster'
  BY <1>2, <1>3, <1>4, PlaceAccounts DEF AccountsKept
<1>6. PICK f \in vmFree :
        /\ fd' = [fd EXCEPT ![d].vmValid = TRUE, ![d].vmFrameNum = f]
        /\ pte' = [t \in Slot |->
             IF t \in fd[d].owners
               THEN Arrived(pte[t], f, ~fd[d].diskValid) ELSE pte[t]]
  <2>1. Place(s) /\ FrameDescOf(pte[s]) = d
    BY <1>2, <1>3
  <2> QED BY <2>1, Zenon DEF Place
<1>7. \A o \in FDs : fd'[o].owners = fd[o].owners
  <2>1. fd \in [FDs -> FD]
    BY Parts DEF AccountsKept, TypeOK, FMTypeOK
  <2>2. \A e \in FD : [e EXCEPT !.vmValid = TRUE, !.vmFrameNum = f].owners = e.owners
    BY DEF FD
  <2>3. fd' = [fd EXCEPT ![d] = [fd[d] EXCEPT !.vmValid = TRUE, !.vmFrameNum = f]]
    BY <1>6, <2>1
  <2> QED BY <2>1, <2>2, <2>3
<1>8. OwnersOrStranded'
  <2>1. \A t \in Slot \ fd[d].owners : pte'[t].vmValid = pte[t].vmValid
    BY <1>6
  <2> QED BY <1>2, <1>7, <2>1, OwnersStay
<1>9. OnSegment' /\ CopyNowhere'
  <2>1. PICK e : e = pte'[s]
    OBVIOUS
  <2>2. Loaded(e)
    BY <1>1, <2>1 DEF LoadPlace
  <2> QED BY <1>2, <2>2, AfterLoading DEF AccountsKept, CopyPending
<1> QED BY <1>5, <1>8, <1>9 DEF AccountsKept

\* The frame of a page that cannot be read is free again, and so is no page's;
\* the entry that is filed in clusterDescriptors was there already.
LEMMA LoadPlaceFailsAccounted ==
  ASSUME AccountsKept, OwnersLocated, TypeOK', LoadPlaceFails
  PROVE  AccountsKept'
<1>1. PICK s \in Slot : s = op.slot
  BY OpType DEF LoadPlaceFails, Absent, Loading, AccountsKept
<1>2. /\ segment[s] # NoSegment /\ ~pte[s].vmValid /\ PlaceFails(s)
      /\ op.phase # "idle" /\ op.phase # "rollback" /\ op \in Ops /\ NotLoaded
      /\ UNCHANGED segment
  BY <1>1, OpType DEF LoadPlaceFails, Absent, Loading, AccountsKept, OnSegment
<1>3. PICK d \in FDs : /\ d = FrameDescOf(pte[s]) /\ Located(pte[s], d)
                       /\ \A o \in FDs : s \in fd[o].owners => o = d
                       /\ s \in fd[d].owners
  BY <1>2, FoundWhileLocated DEF PlaceFails
<1>4. ~fd[d].vmValid /\ fd[d].diskValid
  BY <1>2, <1>3 DEF Located, AgreesWith, PlaceFails
<1>5. PICK f \in vmFree :
        /\ vmDescriptors' = [vmDescriptors EXCEPT ![f] = NoFD]
        /\ pte' = [t \in Slot |-> RolledBack(t, s, d, f)]
  BY <1>2, <1>3 DEF PlaceFails
<1>6. /\ fd' = [fd EXCEPT ![d].owners = fd[d].owners \ {s}, ![d].vmValid = FALSE,
                          ![d].vmFrameNum = 0]
      /\ UNCHANGED <<vmFree, clusterFree>>
  BY <1>2, <1>3 DEF PlaceFails
<1>7. UNCHANGED clusterDescriptors
  <2>1. /\ pte[s].diskValid /\ pte[s].diskFrameNum = fd[d].diskFrameNum
        /\ clusterDescriptors[fd[d].diskFrameNum] = d
    BY <1>3, <1>4 DEF Located, AgreesWith, AccountsKept, ClusterAccounting
  <2>2. clusterDescriptors' = [clusterDescriptors EXCEPT ![fd[d].diskFrameNum] = d]
    BY <1>2, <1>3, <2>1 DEF PlaceFails, Filed
  <2> QED BY <2>1, <2>2 DEF AccountsKept, TypeOK, FMTypeOK
<1>8. /\ \A o \in FDs \ {d} : fd'[o] = fd[o]
      /\ fd'[d].owners = fd[d].owners \ {s}
      /\ ~fd'[d].vmValid
      /\ fd'[d].diskValid = fd[d].diskValid
      /\ fd'[d].diskFrameNum = fd[d].diskFrameNum
  <2>1. fd \in [FDs -> FD] /\ fd[d] \in FD
    BY DEF AccountsKept, TypeOK, FMTypeOK
  <2> QED BY <1>6, <2>1 DEF FD
<1>9. FrameAccounting'
  <2>1. ASSUME NEW g \in Frames \ vmFree'
        PROVE  LET o == vmDescriptors'[g]
               IN  o # NoFD /\ fd'[o].vmValid /\ fd'[o].vmFrameNum = g
    <3>1. g \in Frames \ vmFree /\ vmDescriptors'[g] = vmDescriptors[g]
      BY <1>5, <1>6 DEF AccountsKept, TypeOK, FMTypeOK
    <3>2. /\ vmDescriptors[g] \in FDs /\ vmDescriptors[g] # NoFD
          /\ fd[vmDescriptors[g]].vmValid /\ fd[vmDescriptors[g]].vmFrameNum = g
      BY <3>1 DEF AccountsKept, FrameAccounting, TypeOK, FMTypeOK
    <3> QED BY <1>4, <1>8, <3>1, <3>2
  <2>2. ASSUME NEW o \in FDs, fd'[o].vmValid
        PROVE  /\ fd'[o].vmFrameNum \notin vmFree'
               /\ vmDescriptors'[fd'[o].vmFrameNum] = o
    <3>1. fd'[o] = fd[o]
      BY <1>8, <2>2
    <3>2. fd[o].vmFrameNum \notin vmFree /\ vmDescriptors[fd[o].vmFrameNum] = o
      BY <2>2, <3>1 DEF AccountsKept, FrameAccounting
    <3>3. fd[o].vmFrameNum \in Frames \ {f}
      BY <3>2, Parts DEF AccountsKept
    <3>4. vmDescriptors'[fd[o].vmFrameNum] = vmDescriptors[fd[o].vmFrameNum]
      BY <1>5, <3>3 DEF AccountsKept, TypeOK, FMTypeOK
    <3>5. vmFree' = vmFree /\ fd'[o].vmFrameNum = fd[o].vmFrameNum
      BY <1>6, <3>1
    <3> QED BY <3>2, <3>4, <3>5
  <2> QED BY <2>1, <2>2 DEF FrameAccounting
<1>10. ClusterAccounting' /\ NoStrayCluster'
  <2>1. \A o \in FDs : /\ fd'[o].diskValid = fd[o].diskValid
                       /\ fd'[o].diskFrameNum = fd[o].diskFrameNum
    BY <1>8
  <2>2. UNCHANGED <<clusterFree, clusterDescriptors>>
    BY <1>6, <1>7
  <2>3. ClusterAccounting'
    BY <2>1, <2>2 DEF AccountsKept, ClusterAccounting
  <2>4. NoStrayCluster'
    BY <2>1 DEF AccountsKept, NoStrayCluster
  <2> QED BY <2>3, <2>4
<1>11. OwnersOrStranded'
  <2> SUFFICES ASSUME NEW t \in Slot
      PROVE /\ \A o \in FDs : t \in fd'[o].owners => segment[t] # NoSegment
            /\ \A b, o \in FDs : t \in fd'[b].owners /\ t \in fd'[o].owners => b = o
            /\ segment[t] # NoSegment =>
                 pte'[t].vmValid \/ \E o \in FDs : t \in fd'[o].owners
    BY <1>2 DEF OwnersOrStranded
  <2>1. \A o \in FDs : t \in fd'[o].owners => t \in fd[o].owners
    BY <1>8
  <2>2. CASE t = s
    <3>1. pte'[t].vmValid
      BY <1>3, <1>5, <2>2, Parts DEF RolledBack, AccountsKept, PTE
    <3> QED BY <2>1, <3>1 DEF AccountsKept, OwnersOrStranded
  <2>3. CASE t # s
    <3>1. \A o \in FDs : t \in fd[o].owners => t \in fd'[o].owners
      BY <1>8, <2>3
    <3>2. pte'[t] = pte[t] \/ t \in fd[d].owners
      BY <1>5 DEF RolledBack
    <3> QED BY <2>1, <3>1, <3>2 DEF AccountsKept, OwnersOrStranded
  <2> QED BY <2>2, <2>3
<1>12. op'.phase \notin {"cowload", "rollback"} /\ OnSegment'
  <2>1. op.phase # "cowload"
    BY <1>1, <1>3, <1>4 DEF AccountsKept, CopyNowhere
  <2>2. op' = IdleOp \/ op' = [op EXCEPT !.phase = "unload"]
    BY <1>2, <2>1 DEF NotLoaded, Finish, Goto
  <2>3. \/ op'.phase = "idle"
        \/ op'.phase = "unload" /\ op'.slot = op.slot
    BY <1>2, <2>2 DEF IdleOp, Ops
  <2> QED BY <1>1, <1>2, <2>3 DEF OnSegment
<1> QED BY <1>9, <1>10, <1>11, <1>12 DEF AccountsKept, CopyNowhere

LEMMA LoadFrameAccounted ==
  ASSUME AccountsKept, OwnersLocated, TypeOK', LoadFrame
  PROVE  AccountsKept'
<1>1. CASE LoadResident
  <2>1. /\ UNCHANGED <<pte, fd, vmFree, vmDescriptors, clusterFree,
                       clusterDescriptors, segment>>
        /\ Loading /\ Loaded(pte[op.slot])
    BY <1>1 DEF LoadResident
  <2>2. OnSegment' /\ CopyPending'
    BY <2>1, AfterLoading DEF AccountsKept
  <2> QED BY <2>1, <2>2, InPlaceAccounted
          DEF InPlace, SameWhere, OnSegment, CopyPending
<1>2. CASE LoadEvict
  BY <1>2, LoadEvictAccounted
<1>3. CASE LoadEvictFails
  BY <1>3, LoadEvictFailsAccounted
<1>4. CASE LoadPlace
  BY <1>4, LoadPlaceAccounted
<1>5. CASE LoadPlaceFails
  BY <1>5, LoadPlaceFailsAccounted
<1>6. CASE LoadEvictCrashes \/ LoadNull
  BY <1>6, StutterAccounted DEF LoadEvictCrashes, LoadNull, Crash
<1> QED BY <1>1, <1>2, <1>3, <1>4, <1>5, <1>6 DEF LoadFrame

LEMMA CowDetachAccounted ==
  ASSUME AccountsKept, OwnersLocated, TypeOK', CowDetach
  PROVE  AccountsKept'
<1>1. PICK slot \in Slot : slot = op.slot
  BY OpType DEF CowDetach, In, AccountsKept
<1>2. segment[slot] # NoSegment /\ FrameDescOf(pte[slot]) # NoFD
  BY <1>1 DEF CowDetach, In, AccountsKept, OnSegment
<1>3. FrameDescOf(pte[slot]) # NewFD
  <2>1. NewFD \in FDs /\ Unused(NewFD)
    BY NewFDFact DEF CowDetach
  <2>2. CASE pte[slot].vmValid
    BY <2>1, <2>2, Parts DEF AccountsKept, Unused, FrameDescOf
  <2>3. CASE ~pte[slot].vmValid
    BY <1>2, <2>1, <2>3, FoundWhileLocated, BlankIsNowhere DEF Unused
  <2> QED BY <2>2, <2>3
<1>4. PICK s \in Slot, parent, child \in FDs :
           /\ s = op.slot /\ parent = FrameDescOf(pte[s]) /\ child = NewFD
           /\ parent # child /\ fd[child] = BlankFD /\ UNCHANGED segment
           /\ \A o \in FDs \ {parent, child} : fd'[o] = fd[o]
           /\ fd'[parent].owners = fd[parent].owners \ {s}
           /\ fd'[parent].vmValid = fd[parent].vmValid
           /\ fd'[parent].vmFrameNum = fd[parent].vmFrameNum
           /\ fd'[parent].diskValid = fd[parent].diskValid
           /\ fd'[parent].diskFrameNum = fd[parent].diskFrameNum
           /\ fd'[parent].sharedBit = fd[parent].sharedBit
           /\ fd'[child].owners = {s}
           /\ fd'[child].vmValid = FALSE /\ fd'[child].diskValid = FALSE
           /\ fd'[child].diskFrameNum = NoCluster /\ ~fd'[child].sharedBit
           /\ pte'[s].vmValid = FALSE /\ pte'[s].diskValid = FALSE
           /\ pte'[s].diskFrameNum = child
           /\ \A t \in Slot \ {s} : SameWhere(pte'[t], pte[t])
           /\ FrameAccounting' /\ ClusterAccounting' /\ NoStrayCluster'
  BY <1>1, <1>3, CowDetachMoves DEF AccountsKept
<1>5. /\ segment[s] # NoSegment
      /\ \A o \in FDs : s \in fd[o].owners => o = parent
  BY <1>1, <1>2, <1>4, FoundWhileLocated
<1>6. OwnersOrStranded'
  <2> SUFFICES ASSUME NEW t \in Slot
      PROVE /\ \A o \in FDs : t \in fd'[o].owners => segment'[t] # NoSegment
            /\ \A b, o \in FDs : t \in fd'[b].owners /\ t \in fd'[o].owners => b = o
            /\ segment'[t] # NoSegment =>
                 pte'[t].vmValid \/ \E o \in FDs : t \in fd'[o].owners
    BY DEF OwnersOrStranded
  <2>1. CASE t = s
    <3>1. \A o \in FDs : s \in fd'[o].owners <=> o = child
      BY <1>4, <1>5
    <3> QED BY <1>4, <1>5, <2>1, <3>1
  <2>2. CASE t # s
    <3>1. \A o \in FDs : t \in fd'[o].owners <=> t \in fd[o].owners
      BY <1>4, <2>2, BlankIsNowhere
    <3>2. pte'[t].vmValid = pte[t].vmValid /\ segment'[t] = segment[t]
      BY <1>4, <2>2 DEF SameWhere
    <3> QED BY <3>1, <3>2 DEF AccountsKept, OwnersOrStranded
  <2> QED BY <2>1, <2>2
<1>7. OnSegment' /\ CopyNowhere'
  <2>1. op'.slot = s /\ op'.parent = parent /\ op'.child = child
    <3> DEFINE shared == Cardinality(fd[parent].owners) > 1
               read == mem[op.frame]
    <3>1. op' = [op EXCEPT
                   !.phase = "cowload", !.buffer = read, !.parent = parent,
                   !.child = child, !.backup = pte[s], !.wasShared = shared]
      BY <1>4 DEF CowDetach
    <3>2. op \in Ops
      BY OpType DEF AccountsKept
    <3> HIDE DEF shared, read
    <3> QED BY <1>4, <3>1, <3>2 DEF Ops
  <2> QED BY <1>4, <1>5, <2>1 DEF OnSegment, CopyNowhere
<1> QED BY <1>4, <1>6, <1>7 DEF AccountsKept

LEMMA CowRollbackAccounted ==
  ASSUME AccountsKept, TypeOK', CowRollback
  PROVE  AccountsKept'
<1>1. PICK s \in Slot, d \in FDs, child \in FDs :
        /\ s = op.slot /\ d = op.parent /\ child = op.child /\ d # child
        /\ fd[child].owners = {s} /\ ~fd[child].vmValid /\ ~fd[child].diskValid
        /\ segment[s] # NoSegment
  BY OpType DEF CowRollback, In, AccountsKept, CopyNowhere, OnSegment
<1>2. /\ UNCHANGED segment
      /\ \A o \in FDs \ {d, child} : fd'[o] = fd[o]
      /\ fd'[child] = BlankFD
      /\ fd'[d].owners = fd[d].owners \cup {s}
  BY <1>1, CowRollbackMoves DEF AccountsKept
<1>3. \A t \in Slot \ {s} : SameWhere(pte'[t], pte[t])
  BY <1>1, CowRollbackMoves DEF AccountsKept
<1>4. FrameAccounting' /\ ClusterAccounting' /\ NoStrayCluster'
  BY <1>1, CowRollbackMoves DEF AccountsKept
<1>5. OwnersOrStranded'
  <2> SUFFICES ASSUME NEW t \in Slot
      PROVE /\ \A o \in FDs : t \in fd'[o].owners => segment'[t] # NoSegment
            /\ \A b, o \in FDs : t \in fd'[b].owners /\ t \in fd'[o].owners => b = o
            /\ segment'[t] # NoSegment =>
                 pte'[t].vmValid \/ \E o \in FDs : t \in fd'[o].owners
    BY DEF OwnersOrStranded
  <2>1. CASE t = s
    <3>1. \A o \in FDs : s \in fd'[o].owners <=> o = d
      BY <1>1, <1>2, BlankIsNowhere DEF AccountsKept, OwnersOrStranded
    <3> QED BY <1>1, <1>2, <2>1, <3>1
  <2>2. CASE t # s
    <3>1. \A o \in FDs : t \in fd'[o].owners <=> t \in fd[o].owners
      BY <1>1, <1>2, <2>2, BlankIsNowhere
    <3>2. pte'[t].vmValid = pte[t].vmValid /\ segment'[t] = segment[t]
      BY <1>2, <1>3, <2>2 DEF SameWhere
    <3> QED BY <3>1, <3>2 DEF AccountsKept, OwnersOrStranded
  <2> QED BY <2>1, <2>2
<1>6. op'.phase = "idle"
  BY FinishType DEF CowRollback
<1> QED BY <1>4, <1>5, <1>6 DEF AccountsKept, OnSegment, CopyNowhere

\* New owners of pages, and none that had another page.
LEMMA JoiningAccounted ==
  ASSUME AccountsKept, NEW J \in SUBSET Slot, NEW page \in [J -> FDs],
         Joins(J, page)
  PROVE  /\ FrameAccounting' /\ ClusterAccounting' /\ NoStrayCluster'
         /\ OwnersOrStranded'
<1>1. FrameAccounting' /\ ClusterAccounting' /\ NoStrayCluster'
  BY PlacesUnchanged DEF AccountsKept, Joins
<1>2. ASSUME NEW t \in J PROVE \A o \in FDs : t \in fd'[o].owners <=> page[t] = o
  <2>1. \A o \in FDs : t \notin fd[o].owners
    BY DEF AccountsKept, OwnersOrStranded, Joins
  <2> QED BY <2>1 DEF Joins
<1>3. ASSUME NEW t \in Slot \ J
      PROVE  \A o \in FDs : t \in fd'[o].owners <=> t \in fd[o].owners
  BY DEF Joins
<1>4. OwnersOrStranded'
  <2> SUFFICES ASSUME NEW t \in Slot
      PROVE /\ \A o \in FDs : t \in fd'[o].owners => segment'[t] # NoSegment
            /\ \A b, o \in FDs : t \in fd'[b].owners /\ t \in fd'[o].owners => b = o
            /\ segment'[t] # NoSegment =>
                 pte'[t].vmValid \/ \E o \in FDs : t \in fd'[o].owners
    BY DEF OwnersOrStranded
  <2>1. CASE t \in J
    BY <1>2, <2>1 DEF Joins
  <2>2. CASE t \notin J
    <3>1. pte'[t].vmValid = pte[t].vmValid /\ segment'[t] = segment[t]
      BY <2>2 DEF Joins, SameWhere
    <3> QED BY <1>3, <2>2, <3>1 DEF AccountsKept, OwnersOrStranded
  <2> QED BY <2>1, <2>2
<1> QED BY <1>1, <1>4

LEMMA NewSegmentAccounted ==
  ASSUME AccountsKept, TypeOK', NEW s \in Slot, NEW flags \in Flags,
         CreateSegment(s, flags) \/ \E w \in Images : LoadSegment(s, flags, w)
  PROVE  AccountsKept'
<1>1. AllocateNewSegment(s, flags)
  BY DEF CreateSegment, LoadSegment
<1>2. PICK d \in FDs : Joins({s}, [t \in {s} |-> d])
  BY <1>1, NewSegmentJoins DEF AccountsKept
<1>3. PICK page \in [{s} -> FDs] : Joins({s}, page)
  BY <1>2
<1>4. /\ FrameAccounting' /\ ClusterAccounting' /\ NoStrayCluster'
      /\ OwnersOrStranded'
  BY <1>3, JoiningAccounted
<1>5. segment'[s] # NoSegment
  BY <1>3 DEF Joins
<1>6. op'.phase = "idle" \/ (op'.phase = "load" /\ op'.slot = s)
  BY OpType DEF CreateSegment, LoadSegment, Idle, AccountsKept, Ops
<1> QED BY <1>4, <1>5, <1>6 DEF AccountsKept, OnSegment, CopyNowhere

LEMMA DeletionAccounted ==
  ASSUME AccountsKept, OwnersLocated, TypeOK',
         Unload \/ \E s \in Slot : DeleteSegment(s)
  PROVE  AccountsKept'
<1>1. PICK s \in Slot : segment[s] # NoSegment /\ DeleteSegmentImpl(s)
  BY OpType DEF Unload, In, DeleteSegment, AccountsKept, OnSegment
<1>2. PICK d \in FDs : /\ d = FrameDescOf(pte[s]) /\ RemoveOwner(s, d)
                       /\ \A o \in FDs : s \in fd[o].owners => o = d
  BY <1>1, FoundWhileLocated DEF DeleteSegmentImpl
<1>3. /\ \A t \in Slot \ {s} : pte'[t] = pte[t]
      /\ \A t \in Slot \ {s} : segment'[t] = segment[t]
      /\ segment'[s] = NoSegment
  BY <1>1, <1>2 DEF DeleteSegmentImpl, RemoveOwner, AccountsKept, TypeOK, FMTypeOK,
     PagingTypeOK
<1>4. /\ FrameAccounting' /\ ClusterAccounting' /\ NoStrayCluster'
      /\ \A o \in FDs \ {d} : fd'[o] = fd[o]
      /\ fd'[d].owners = fd[d].owners \ {s}
  BY <1>2, RemoveOwnerAccounts DEF AccountsKept
<1>5. OwnersOrStranded'
  <2> SUFFICES ASSUME NEW t \in Slot
      PROVE /\ \A o \in FDs : t \in fd'[o].owners => segment'[t] # NoSegment
            /\ \A b, o \in FDs : t \in fd'[b].owners /\ t \in fd'[o].owners => b = o
            /\ segment'[t] # NoSegment =>
                 pte'[t].vmValid \/ \E o \in FDs : t \in fd'[o].owners
    BY DEF OwnersOrStranded
  <2>1. \A o \in FDs : t \in fd'[o].owners <=> t \in fd[o].owners /\ t # s
    BY <1>2, <1>4
  <2> QED BY <1>3, <2>1 DEF AccountsKept, OwnersOrStranded
<1>6. op'.phase = "idle"
  BY FinishType DEF Unload, DeleteSegment, Idle
<1> QED BY <1>4, <1>5, <1>6 DEF AccountsKept, OnSegment, CopyNowhere

LEMMA SharedSegmentAccounted ==
  ASSUME AccountsKept, TypeOK', NEW x \in SharedNames,
         \/ DeleteSharedSegment(x)
         \/ \E s \in Slot, flags \in Flags : CreateSharedSegment(s, x, flags)
  PROVE  AccountsKept'
<1>1. op'.phase = "idle"
  BY DEF DeleteSharedSegment, CreateSharedSegment, Idle
<1>2. CASE DeleteSharedSegment(x)
  <2>1. PICK d \in FDs : d = sharedFD[x] /\ fd[d].owners = {} /\ ReleaseFD(d)
    BY <1>2 DEF DeleteSharedSegment, AccountsKept, TypeOK, PagingTypeOK
  <2>2. FrameAccounting' /\ ClusterAccounting' /\ NoStrayCluster'
    BY <2>1, ReleaseAccounts DEF AccountsKept
  <2>3. \A o \in FDs : fd'[o].owners = fd[o].owners
    BY <2>1, BlankIsNowhere DEF ReleaseFD, AccountsKept, TypeOK, FMTypeOK
  <2>4. OwnersOrStranded'
    BY <1>2, <2>3, OwnersStay DEF DeleteSharedSegment
  <2> QED BY <1>1, <2>2, <2>4 DEF AccountsKept, OnSegment, CopyNowhere
<1>3. CASE \E s \in Slot, flags \in Flags : CreateSharedSegment(s, x, flags)
  <2>1. PICK s \in Slot, flags \in Flags : CreateSharedSegment(s, x, flags)
    BY <1>3
  <2>2. PICK d \in FDs : Joins({s}, [t \in {s} |-> d])
    BY <2>1, AttachingJoins DEF AccountsKept
  <2>3. PICK page \in [{s} -> FDs] : Joins({s}, page)
    BY <2>2
  <2> QED BY <1>1, <2>3, JoiningAccounted DEF AccountsKept, OnSegment, CopyNowhere
<1> QED BY <1>2, <1>3

LEMMA CloneProcessAccounted ==
  ASSUME AccountsKept, TypeOK', NEW p \in Procs, NEW q \in Procs,
         CloneProcess(p, q)
  PROVE  AccountsKept'
<1>1. PICK J \in SUBSET Slot : \E page \in [J -> FDs] : Joins(J, page)
  BY CloningJoins DEF AccountsKept
<1>2. op'.phase = "idle"
  BY DEF CloneProcess, Idle
<1> QED BY <1>1, <1>2, JoiningAccounted DEF AccountsKept, OnSegment, CopyNowhere

LEMMA NextAccounted ==
  ASSUME AccountsKept, OwnersLocated, [Next]_vars
  PROVE  AccountsKept'
<1>0. TypeOK'
  BY NextType DEF AccountsKept
<1>1. CASE UNCHANGED vars
  BY <1>0, <1>1, StutterAccounted DEF vars
<1>2. ASSUME NEW s \in Slot, NEW type \in Accesses, NEW w \in Values,
             Access(s, type, w)
      PROVE AccountsKept'
  BY <1>0, <1>2, AccessAccounted
<1>3. ASSUME NEW s \in Slot, NEW flags \in Flags,
             CreateSegment(s, flags) \/ \E w \in Images : LoadSegment(s, flags, w)
      PROVE AccountsKept'
  BY <1>0, <1>3, NewSegmentAccounted
<1>4. ASSUME NEW x \in SharedNames,
             \/ DeleteSharedSegment(x)
             \/ \E s \in Slot, flags \in Flags : CreateSharedSegment(s, x, flags)
      PROVE AccountsKept'
  BY <1>0, <1>4, SharedSegmentAccounted
<1>5. CASE Unload \/ \E s \in Slot : DeleteSegment(s)
  BY <1>0, <1>5, DeletionAccounted
<1>6. ASSUME NEW p \in Procs, NEW q \in Procs, CloneProcess(p, q)
      PROVE AccountsKept'
  BY <1>0, <1>6, CloneProcessAccounted
<1>7. CASE \/ \E s \in Slot : DeleteNull(s)
           \/ \E p, q \in Procs : CloneNull(p, q)
           \/ TouchFree \/ DetachNull
  BY <1>0, <1>7, StutterAccounted DEF DeleteNull, CloneNull, TouchFree, DetachNull, Crash
<1>8. CASE Retry \/ Touch \/ CowCopy \/ Fill
  BY <1>0, <1>8, InstructionAccounted
<1>9. CASE LoadFrame
  BY <1>0, <1>9, LoadFrameAccounted
<1>10. CASE CowDetach \/ CowRollback
  BY <1>0, <1>10, CowDetachAccounted, CowRollbackAccounted
<1>11. CASE Halted
  BY <1>1, <1>11 DEF Halted
<1> QED BY <1>1, <1>2, <1>3, <1>4, <1>5, <1>6, <1>7, <1>8, <1>9, <1>10, <1>11
        DEF Next, CopyOnWrite

\* Whatever reads fail, the accounts of frames and clusters are right as long
\* as the entries of the owners agree with their pages (PlaceFails leaves the
\* faulting entry vmValid, framemanager.cpp:88; nothing else goes wrong before
\* that entry is used to find a descriptor).
THEOREM AccountedWhileLocated == Spec /\ []OwnersLocated => []AccountsKept
<1>1. Init => AccountsKept
  BY AccountedInit
<1>2. AccountsKept /\ OwnersLocated /\ [Next]_vars => AccountsKept'
  BY NextAccounted
<1> QED BY <1>1, <1>2, PTL DEF Spec

\* So no frame and no cluster is lost or used for two pages until then.
THEOREM PagesAccountedWhileLocated ==
  Spec /\ []OwnersLocated => [](FrameAccounting /\ ClusterAccounting)
<1>1. AccountsKept => FrameAccounting /\ ClusterAccounting
  BY DEF AccountsKept
<1> QED BY <1>1, AccountedWhileLocated, PTL

---------------------------------------------------------------------------
(* And the owners' entries agree with their pages until a stranded page is *)
(* shared: what the lemmas below add to those above.                       *)

LocatedStill == OwnersLocated /\ SharedKnown /\ CopyPending

LEMMA AccountsFilled == ASSUME AccountsKept, OwnersLocated PROVE Filled
BY Parts DEF AccountsKept, OwnersOrStranded, Filled, OneOwned

LEMMA InPlaceLocated ==
  ASSUME AccountsLocated, InPlace, UNCHANGED sharedFD, CopyPending'
  PROVE  LocatedStill'
<1>1. OwnersLocated' /\ SharedKnown'
  BY NothingMislocated, NamesKept DEF AccountsLocated, AccountsKept, InPlace
<1> QED BY <1>1 DEF LocatedStill

LEMMA StutterLocated ==
  ASSUME AccountsLocated, UNCHANGED <<fmVars, segment, sharedFD, op>>
  PROVE  LocatedStill'
<1>1. UNCHANGED <<pte, fd, vmFree, vmDescriptors, clusterFree,
                  clusterDescriptors, segment, sharedFD, op>>
  BY DEF fmVars
<1>2. CopyPending'
  BY <1>1 DEF AccountsLocated, CopyPending, CopyNowhere, Located, AgreesWith
<1> QED BY <1>1, <1>2, InPlaceLocated DEF InPlace, SameWhere

LEMMA AccessLocated ==
  ASSUME AccountsLocated, NEW s \in Slot, NEW type \in Accesses,
         NEW w \in Values, Access(s, type, w)
  PROVE  LocatedStill'
BY AccessInPlace, NotCopying, InPlaceLocated DEF AccountsLocated, AccountsKept

LEMMA InstructionLocated ==
  ASSUME AccountsLocated, Retry \/ Touch \/ Fill \/ CowCopy
  PROVE  LocatedStill'
BY InstructionInPlace, NotCopying, InPlaceLocated DEF AccountsLocated, AccountsKept

LEMMA LoadEvictLocated ==
  ASSUME AccountsLocated, TypeOK', LoadEvict
  PROVE  LocatedStill'
<1>1. /\ vmFree' # {}
      /\ \A o \in FDs : /\ ~fd[o].vmValid => fd'[o] = fd[o]
                        /\ fd'[o].sharedBit = fd[o].sharedBit
  BY EvictAccounts DEF LoadEvict, AccountsLocated, AccountsKept
<1>2. UNCHANGED <<sharedFD, op>> /\ op.phase # "rollback"
  BY DEF LoadEvict, Absent, Loading
<1>3. OwnersLocated'
  BY AccountsFilled, EvictKeepsLocated DEF LoadEvict, AccountsLocated
<1>4. SharedKnown'
  BY <1>1, <1>2, NamesKept DEF AccountsLocated, AccountsKept
<1>5. CopyPending'
  BY <1>1, <1>2 DEF AccountsLocated, CopyPending, CopyNowhere
<1> QED BY <1>3, <1>4, <1>5 DEF LocatedStill

LEMMA LoadPlaceLocated ==
  ASSUME AccountsLocated, TypeOK', LoadPlace
  PROVE  LocatedStill'
<1>1. PICK s \in Slot : s = op.slot
  BY OpType DEF LoadPlace, Absent, Loading, AccountsLocated, AccountsKept
<1>2. /\ segment[s] # NoSegment /\ Place(s) /\ Loading /\ OnSegment
      /\ Loaded(pte'[s]) /\ UNCHANGED <<segment, sharedFD>>
  BY <1>1 DEF LoadPlace, Absent, Loading, AccountsLocated, AccountsKept, OnSegment
<1>3. PICK d \in FDs : d = FrameDescOf(pte[s])
  BY <1>2, FoundWhileLocated DEF Place, AccountsLocated
<1>4. /\ OwnersLocated'
      /\ \A o \in FDs : fd'[o].sharedBit = fd[o].sharedBit
  BY <1>2, <1>3, AccountsFilled, PlaceKeepsLocated DEF AccountsLocated
<1>5. SharedKnown'
  BY <1>2, <1>4, NamesKept DEF AccountsLocated, AccountsKept
<1>6. PICK e : e = pte'[s]
  OBVIOUS
<1>7. CopyPending'
  BY <1>2, <1>6, AfterLoading DEF AccountsLocated, AccountsKept
<1> QED BY <1>4, <1>5, <1>7 DEF LocatedStill

\* The entries of the other owners are reset, as the descriptor is; the one of
\* the page that could not be read is no owner's any more.
LEMMA LoadPlaceFailsLocated ==
  ASSUME AccountsLocated, TypeOK', LoadPlaceFails
  PROVE  LocatedStill'
<1>1. PICK s \in Slot : s = op.slot
  BY OpType DEF LoadPlaceFails, Absent, Loading, AccountsLocated, AccountsKept
<1>2. /\ segment[s] # NoSegment /\ ~pte[s].vmValid /\ PlaceFails(s)
      /\ op.phase # "rollback" /\ op \in Ops /\ NotLoaded
      /\ UNCHANGED sharedFD
  BY <1>1, OpType
     DEF LoadPlaceFails, Absent, Loading, AccountsLocated, AccountsKept, OnSegment
<1>3. PICK d \in FDs : /\ d = FrameDescOf(pte[s]) /\ Located(pte[s], d)
                       /\ \A o \in FDs : s \in fd[o].owners => o = d
                       /\ s \in fd[d].owners
  BY <1>2, FoundWhileLocated DEF PlaceFails, AccountsLocated
<1>4. ~fd[d].vmValid /\ fd[d].diskValid
  BY <1>2, <1>3 DEF Located, AgreesWith, PlaceFails
<1>5. PICK f \in vmFree : pte' = [t \in Slot |-> RolledBack(t, s, d, f)]
  BY <1>2, <1>3 DEF PlaceFails
<1>6. fd' = [fd EXCEPT ![d].owners = fd[d].owners \ {s}, ![d].vmValid = FALSE,
                       ![d].vmFrameNum = 0]
  BY <1>2, <1>3 DEF PlaceFails
<1>7. /\ \A o \in FDs \ {d} : fd'[o] = fd[o]
      /\ fd'[d].owners = fd[d].owners \ {s}
      /\ fd'[d].vmValid = FALSE
      /\ fd'[d].diskValid = fd[d].diskValid
      /\ fd'[d].diskFrameNum = fd[d].diskFrameNum
      /\ fd'[d].sharedBit = fd[d].sharedBit
  <2>1. fd \in [FDs -> FD] /\ fd[d] \in FD
    BY DEF AccountsLocated, AccountsKept, TypeOK, FMTypeOK
  <2> QED BY <1>6, <2>1 DEF FD
<1>8. OwnersLocated'
  <2> SUFFICES ASSUME NEW o \in FDs, NEW t \in fd'[o].owners
               PROVE  Located(pte[t], o)'
    BY DEF OwnersLocated
  <2>1. t \in fd[o].owners /\ t # s
    BY <1>3, <1>7
  <2>2. t \in Slot /\ pte[t] \in PTE /\ Located(pte[t], o)
    BY <2>1, Parts DEF AccountsLocated, AccountsKept, OwnersLocated
  <2>3. CASE o = d
    <3>1. pte'[t] = [pte[t] EXCEPT !.vmValid = FALSE, !.vmFrameNum = 0]
      BY <1>5, <2>1, <2>2, <2>3 DEF RolledBack
    <3>2. /\ pte'[t].vmValid = FALSE /\ pte'[t].diskValid = pte[t].diskValid
          /\ pte'[t].diskFrameNum = pte[t].diskFrameNum
      BY <2>2, <3>1 DEF PTE
    <3> QED BY <1>7, <2>2, <2>3, <3>2 DEF Located, AgreesWith
  <2>4. CASE o # d
    <3>1. t \notin fd[d].owners
      BY <2>1, <2>4, AccountsFilled DEF AccountsLocated, Filled, OneOwned
    <3>2. pte'[t] = pte[t]
      BY <1>5, <2>2, <3>1 DEF RolledBack
    <3> QED BY <1>7, <2>2, <2>4, <3>2 DEF Located, AgreesWith
  <2> QED BY <2>3, <2>4
<1>9. SharedKnown'
  BY <1>2, <1>7, NamesKept DEF AccountsLocated, AccountsKept
<1>10. CopyPending'
  <2>1. op.phase # "cowload"
    BY <1>1, <1>3, <1>4 DEF AccountsLocated, AccountsKept, CopyNowhere
  <2>2. op' = IdleOp \/ op' = [op EXCEPT !.phase = "unload"]
    BY <1>2, <2>1 DEF NotLoaded, Finish, Goto
  <2> QED BY <1>2, <2>2, NotCopying DEF IdleOp, Ops
<1> QED BY <1>8, <1>9, <1>10 DEF LocatedStill

LEMMA LoadFrameLocated ==
  ASSUME AccountsLocated, TypeOK', LoadFrame
  PROVE  LocatedStill'
<1>1. CASE LoadResident
  <2>1. /\ UNCHANGED <<pte, fd, vmFree, vmDescriptors, clusterFree,
                       clusterDescriptors, segment, sharedFD>>
        /\ Loading /\ Loaded(pte[op.slot])
    BY <1>1 DEF LoadResident
  <2>2. CopyPending'
    BY <2>1, AfterLoading DEF AccountsLocated, AccountsKept
  <2> QED BY <2>1, <2>2, InPlaceLocated DEF InPlace, SameWhere
<1>2. CASE LoadEvict
  BY <1>2, LoadEvictLocated
<1>3. CASE LoadEvictFails
  BY <1>3, LoadEvictFailsInPlace, InPlaceLocated DEF AccountsLocated, AccountsKept
<1>4. CASE LoadPlace
  BY <1>4, LoadPlaceLocated
<1>5. CASE LoadPlaceFails
  BY <1>5, LoadPlaceFailsLocated
<1>6. CASE LoadEvictCrashes \/ LoadNull
  BY <1>6, StutterLocated DEF LoadEvictCrashes, LoadNull, Crash
<1> QED BY <1>1, <1>2, <1>3, <1>4, <1>5, <1>6 DEF LoadFrame

\* A page that is not stranded is copied from the descriptor that owns it.
LEMMA CowDetachLocated ==
  ASSUME AccountsLocated, TypeOK', CowDetach, ~Stranded(op.slot)
  PROVE  LocatedStill'
<1>1. PICK s \in Slot : s = op.slot
  BY OpType DEF CowDetach, In, AccountsLocated, AccountsKept
<1>2. segment[s] # NoSegment /\ FrameDescOf(pte[s]) # NoFD
  BY <1>1 DEF CowDetach, In, AccountsLocated, AccountsKept, OnSegment
<1>3. FrameDescOf(pte[s]) \in FDs /\ s \in fd[FrameDescOf(pte[s])].owners
  <2>1. PICK o \in FDs : s \in fd[o].owners
    BY <1>1, <1>2 DEF Stranded
  <2> QED BY <1>2, <2>1, FoundWhileLocated DEF AccountsLocated
<1>4. OwnersLocated' /\ CopyPending'
  BY <1>1, <1>3, AccountsFilled, CowDetachKeepsLocated DEF AccountsLocated
<1>5. SharedKnown'
  BY CowDetachNames DEF AccountsLocated, AccountsKept
<1> QED BY <1>4, <1>5 DEF LocatedStill

LEMMA CowRollbackLocated ==
  ASSUME AccountsLocated, TypeOK', CowRollback
  PROVE  LocatedStill'
<1>1. /\ OwnersLocated'
      /\ \A o \in FDs \ {op.child} : fd'[o].sharedBit = fd[o].sharedBit
  BY AccountsFilled, CowRollbackKeepsLocated DEF AccountsLocated
<1>2. PICK k \in FDs : k = op.child /\ ~fd[k].sharedBit
  BY DEF CowRollback, In, AccountsLocated, CopyPending, CopyNowhere
<1>3. SharedKnown'
  BY <1>1, <1>2, NamesKeptBut DEF CowRollback, AccountsLocated, AccountsKept
<1>4. op'.phase = "idle"
  BY FinishType DEF CowRollback
<1> QED BY <1>1, <1>3, <1>4, NotCopying DEF LocatedStill

\* No page that gets its first owner had one.
LEMMA JoiningLocated ==
  ASSUME AccountsLocated, TypeOK', NEW J \in SUBSET Slot, NEW page \in [J -> FDs],
         Joins(J, page), \A t \in J : Located(pte[t], page[t])'
  PROVE  OwnersLocated'
<1>1. \A t \in J : \A o \in FDs : t \notin fd[o].owners
  BY DEF Joins, AccountsLocated, AccountsKept, OwnersOrStranded
<1> QED BY <1>1, JoiningKeepsLocated DEF AccountsLocated, AccountsKept

LEMMA NewSegmentLocated ==
  ASSUME AccountsLocated, TypeOK', NEW s \in Slot, NEW flags \in Flags,
         CreateSegment(s, flags) \/ \E w \in Images : LoadSegment(s, flags, w)
  PROVE  LocatedStill'
<1>1. AllocateNewSegment(s, flags)
  BY DEF CreateSegment, LoadSegment
<1>2. PICK d \in FDs : /\ fd[d] = BlankFD /\ Joins({s}, [t \in {s} |-> d])
                       /\ pte'[s].vmValid = FALSE /\ pte'[s].diskValid = FALSE
                       /\ pte'[s].diskFrameNum = d
  BY <1>1, NewSegmentJoins DEF AccountsLocated, AccountsKept
<1> DEFINE page == [t \in {s} |-> d]
<1>3. Located(pte[s], page[s])'
  <2>1. fd'[d].vmValid = FALSE /\ fd'[d].diskValid = FALSE
    BY <1>2, BlankIsNowhere DEF Joins
  <2> QED BY <1>2, <2>1 DEF Located, AgreesWith
<1>4. page \in [{s} -> FDs] /\ Joins({s}, page)
  BY <1>2
<1> HIDE DEF page
<1>5. OwnersLocated'
  BY <1>3, <1>4, JoiningLocated
<1>6. SharedKnown'
  BY <1>1, AllocateNewSegmentNames DEF AccountsLocated, AccountsKept
<1>7. op'.phase \in {"idle", "load"}
  BY OpType DEF CreateSegment, LoadSegment, Idle, AccountsLocated, AccountsKept, Ops
<1> QED BY <1>5, <1>6, <1>7, NotCopying DEF LocatedStill

LEMMA DeletionLocated ==
  ASSUME AccountsLocated, TypeOK', Unload \/ \E s \in Slot : DeleteSegment(s)
  PROVE  LocatedStill'
<1>1. PICK s \in Slot : segment[s] # NoSegment /\ DeleteSegmentImpl(s)
  BY OpType DEF Unload, In, DeleteSegment, AccountsLocated, AccountsKept, OnSegment
<1>2. PICK d \in FDs : /\ d = FrameDescOf(pte[s]) /\ RemoveOwner(s, d)
                       /\ \A o \in FDs : s \in fd[o].owners => o = d
  BY <1>1, FoundWhileLocated DEF DeleteSegmentImpl, AccountsLocated
<1>3. \A t \in Slot \ {s} : pte'[t] = pte[t]
  BY <1>2 DEF RemoveOwner, AccountsLocated, AccountsKept, TypeOK, FMTypeOK
<1>4. OwnersLocated'
  BY <1>2, <1>3, AccountsFilled, RemovalKeepsLocated DEF AccountsLocated
<1>5. SharedKnown'
  BY <1>1, DeletionNames DEF AccountsLocated, AccountsKept
<1>6. op'.phase = "idle"
  BY FinishType DEF Unload, DeleteSegment, Idle
<1> QED BY <1>4, <1>5, <1>6, NotCopying DEF LocatedStill

LEMMA SharedSegmentLocated ==
  ASSUME AccountsLocated, TypeOK', NEW x \in SharedNames,
         \/ DeleteSharedSegment(x)
         \/ \E s \in Slot, flags \in Flags : CreateSharedSegment(s, x, flags)
  PROVE  LocatedStill'
<1>1. SharedKnown'
  BY SharedSegmentNames DEF AccountsLocated, AccountsKept
<1>2. op'.phase = "idle"
  BY DEF DeleteSharedSegment, CreateSharedSegment, Idle
<1>3. CASE DeleteSharedSegment(x)
  BY <1>1, <1>2, <1>3, DeleteSharedSegmentKeepsLocated, NotCopying
     DEF LocatedStill, AccountsLocated, AccountsKept
<1>4. CASE \E s \in Slot, flags \in Flags : CreateSharedSegment(s, x, flags)
  <2>1. PICK s \in Slot, flags \in Flags : CreateSharedSegment(s, x, flags)
    BY <1>4
  <2>2. PICK d \in FDs : /\ Joins({s}, [t \in {s} |-> d]) /\ fd'[d].sharedBit
                         /\ pte'[s] = AttachedPTE(flags, d)
    BY <2>1, AttachingJoins DEF AccountsLocated, AccountsKept
  <2> DEFINE page == [t \in {s} |-> d]
  <2>3. Located(pte[s], page[s])'
    <3>1. /\ AgreesWith(AttachedPTE(flags, d), d)
          /\ ~AttachedPTE(flags, d).diskValid =>
               AttachedPTE(flags, d).diskFrameNum \in {d, NoCluster}
      BY AttachedIsLocated DEF AccountsLocated, AccountsKept
    <3> QED BY <2>2, <3>1 DEF Located, AgreesWith, Joins
  <2>4. page \in [{s} -> FDs] /\ Joins({s}, page)
    BY <2>2
  <2> HIDE DEF page
  <2>5. OwnersLocated'
    BY <2>3, <2>4, JoiningLocated
  <2> QED BY <1>1, <1>2, <2>5, NotCopying DEF LocatedStill
<1> QED BY <1>3, <1>4

\* A clone's entries are right if those of its parent are owners' entries.
LEMMA CloneProcessLocated ==
  ASSUME AccountsLocated, TypeOK', NEW p \in Procs, NEW q \in Procs,
         CloneProcess(p, q), ~ClonesStranded
  PROVE  LocatedStill'
<1>1. PICK J \in SUBSET Slot :
        \E page \in [J -> FDs] : Joins(J, page) /\ ClonedFrom(p, J, page)
  BY CloningJoins DEF AccountsLocated, AccountsKept
<1>2. PICK page \in [J -> FDs] : Joins(J, page) /\ ClonedFrom(p, J, page)
  BY <1>1
<1>3. ASSUME NEW s \in Slot, s[1] = p, segment[s] # NoSegment,
             segment[s].name = Private, FrameDescOf(pte[s]) \in FDs
      PROVE  Located(pte[s], FrameDescOf(pte[s]))
  <2>1. PICK v \in VPages : s = <<p, v>>
    BY <1>3 DEF Slot
  <2>2. PICK o \in FDs : s \in fd[o].owners
    BY <1>3, <2>1 DEF ClonesStranded, Stranded
  <2>3. o = FrameDescOf(pte[s])
    BY <1>3, <2>2, FoundWhileLocated, PointersAssumption DEF AccountsLocated
  <2> QED BY <2>2, <2>3 DEF AccountsLocated, OwnersLocated
<1>4. \A t \in J : Located(pte[t], page[t])'
  BY <1>2, <1>3, ClonedIsLocated DEF AccountsLocated, AccountsKept
<1>5. OwnersLocated'
  BY <1>2, <1>4, JoiningLocated
<1>6. SharedKnown'
  BY CloneProcessNames DEF AccountsLocated, AccountsKept
<1>7. op'.phase = "idle"
  BY DEF CloneProcess, Idle
<1> QED BY <1>5, <1>6, <1>7, NotCopying DEF LocatedStill

LEMMA NextLocated ==
  ASSUME AccountsLocated, [Next]_vars, ~SharesStranded
  PROVE  AccountsLocated'
<1>1. TypeOK' /\ AccountsKept'
  BY NextType, NextAccounted DEF AccountsLocated, AccountsKept
<1> SUFFICES LocatedStill'
  BY <1>1 DEF AccountsLocated, LocatedStill
<1>2. CASE UNCHANGED vars
  BY <1>2, StutterLocated DEF vars
<1>3. ASSUME NEW s \in Slot, NEW type \in Accesses, NEW w \in Values,
             Access(s, type, w)
      PROVE LocatedStill'
  BY <1>3, AccessLocated
<1>4. ASSUME NEW s \in Slot, NEW flags \in Flags,
             CreateSegment(s, flags) \/ \E w \in Images : LoadSegment(s, flags, w)
      PROVE LocatedStill'
  BY <1>1, <1>4, NewSegmentLocated
<1>5. ASSUME NEW x \in SharedNames,
             \/ DeleteSharedSegment(x)
             \/ \E s \in Slot, flags \in Flags : CreateSharedSegment(s, x, flags)
      PROVE LocatedStill'
  BY <1>1, <1>5, SharedSegmentLocated
<1>6. CASE Unload \/ \E s \in Slot : DeleteSegment(s)
  BY <1>1, <1>6, DeletionLocated
<1>7. ASSUME NEW p \in Procs, NEW q \in Procs, CloneProcess(p, q)
      PROVE LocatedStill'
  BY <1>1, <1>7, CloneProcessLocated DEF SharesStranded
<1>8. CASE \/ \E s \in Slot : DeleteNull(s)
           \/ \E p, q \in Procs : CloneNull(p, q)
           \/ TouchFree \/ DetachNull
  BY <1>8, StutterLocated DEF DeleteNull, CloneNull, TouchFree, DetachNull, Crash
<1>9. CASE Retry \/ Touch \/ CowCopy \/ Fill
  BY <1>9, InstructionLocated
<1>10. CASE LoadFrame
  BY <1>1, <1>10, LoadFrameLocated
<1>11. CASE CowDetach \/ CowRollback
  BY <1>1, <1>11, CowDetachLocated, CowRollbackLocated DEF SharesStranded
<1>12. CASE Halted
  BY <1>2, <1>12 DEF Halted
<1> QED BY <1>2, <1>3, <1>4, <1>5, <1>6, <1>7, <1>8, <1>9, <1>10, <1>11, <1>12
        DEF Next, CopyOnWrite

\* Whatever reads fail, frames and clusters are accounted for and the entries
\* of owners agree with their pages as long as no page that lost its owner to a
\* failed read (framemanager.cpp:88) is cloned (kernelprocess.cpp) or copied on
\* write: the failed read alone misleads nobody else.
THEOREM AccountedUntilShared ==
  Spec /\ [][~SharesStranded]_vars => [](AccountsKept /\ OwnersLocated)
<1>1. Init => AccountsLocated
  BY AccountedInit, InitBookkeeping
     DEF Bookkeeping, Places, AccountsLocated
<1>2. AccountsLocated /\ [Next]_vars /\ [~SharesStranded]_vars => AccountsLocated'
  <2>1. CASE ~SharesStranded
    BY <2>1, NextLocated
  <2>2. CASE UNCHANGED vars
    <3> SUFFICES ASSUME AccountsLocated PROVE AccountsLocated'
      OBVIOUS
    <3>1. AccountsKept'
      BY <2>2, NextAccounted DEF AccountsLocated
    <3>2. LocatedStill'
      BY <2>2, StutterLocated DEF vars
    <3> QED BY <3>1, <3>2 DEF AccountsLocated, LocatedStill
  <2> QED BY <2>1, <2>2
<1>3. AccountsLocated => AccountsKept /\ OwnersLocated
  BY DEF AccountsLocated
<1> QED BY <1>1, <1>2, <1>3, PTL DEF Spec

---------------------------------------------------------------------------
(* Partitions that can always be read: no page is ever stranded, and that  *)
(* is all that Bookkeeping says besides AccountsLocated.                   *)

NoneStranded == \A s \in Slot : ~Stranded(s)

LEMMA BookkeepingLocated ==
  ASSUME Bookkeeping
  PROVE  AccountsLocated /\ NoneStranded /\ ~SharesStranded
<1>1. OwnersOrStranded /\ NoneStranded
  <2>1. \A d \in FDs : fd[d].owners \subseteq Slot
    BY Parts DEF Bookkeeping
  <2> QED BY <2>1 DEF Bookkeeping, Places, OneDescriptor, OwnersOrStranded,
                      NoneStranded, Stranded
<1>2. AccountsLocated
  BY <1>1 DEF Bookkeeping, Places, CopyPending, AccountsLocated, AccountsKept
<1>3. ~SharesStranded
  <2>1. ~ClonesStranded
    BY <1>1 DEF ClonesStranded, NoneStranded, Slot
  <2>2. CowDetach => op.slot \in Slot
    BY OpType DEF CowDetach, In, Bookkeeping
  <2> QED BY <1>1, <2>1, <2>2 DEF SharesStranded, NoneStranded
<1> QED BY <1>1, <1>2, <1>3

\* Pages of segments keep their owners.
LEMMA OwnersKept ==
  ASSUME NoneStranded, UNCHANGED segment,
         \A o \in FDs : fd[o].owners \subseteq fd'[o].owners
  PROVE  NoneStranded'
BY DEF NoneStranded, Stranded

\* New pages have owners.
LEMMA JoiningStrandsNone ==
  ASSUME NoneStranded, NEW J \in SUBSET Slot, NEW page \in [J -> FDs], Joins(J, page)
  PROVE  NoneStranded'
<1> SUFFICES ASSUME NEW s \in Slot, segment'[s] # NoSegment
             PROVE  \E d \in FDs : s \in fd'[d].owners
  BY DEF NoneStranded, Stranded
<1>1. CASE s \in J
  BY <1>1 DEF Joins
<1>2. CASE s \notin J
  BY <1>2 DEF Joins, NoneStranded, Stranded
<1> QED BY <1>1, <1>2

LEMMA LoadFrameStrandsNone ==
  ASSUME Bookkeeping, TypeOK', LoadFrame, ~ReadMayFail
  PROVE  NoneStranded'
<1>0. NoneStranded /\ AccountsLocated
  BY BookkeepingLocated
<1>1. CASE LoadResident \/ LoadEvictFails \/ LoadEvictCrashes \/ LoadNull
  <2>1. UNCHANGED <<fd, segment>>
    BY <1>1 DEF LoadResident, LoadEvictFails, EvictFails, LoadEvictCrashes,
       LoadNull, Crash, fmVars
  <2> QED BY <1>0, <2>1, OwnersKept
<1>2. CASE LoadEvict
  <2>1. \A o \in FDs : fd'[o].owners = fd[o].owners
    BY <1>2, EvictAccounts DEF LoadEvict, Bookkeeping, Places
  <2> QED BY <1>0, <1>2, <2>1, OwnersKept DEF LoadEvict
<1>3. CASE LoadPlace
  <2>1. PICK s \in Slot : s = op.slot
    BY <1>3, OpType DEF LoadPlace, Absent, Loading, Bookkeeping
  <2>2. PICK d \in FDs : d = FrameDescOf(pte[s])
    BY <1>3, <2>1, FoundIsOwned
       DEF LoadPlace, Place, Absent, Loading, Bookkeeping, OnSegment
  <2>3. \A o \in FDs : fd'[o].owners = fd[o].owners
    BY <1>0, <1>3, <2>1, <2>2, AccountsFilled, PlaceKeepsLocated
       DEF LoadPlace, AccountsLocated
  <2> QED BY <1>0, <1>3, <2>3, OwnersKept DEF LoadPlace
<1>4. CASE LoadPlaceFails
  BY <1>4 DEF LoadPlaceFails, PlaceFails
<1> QED BY <1>1, <1>2, <1>3, <1>4 DEF LoadFrame

\* The page that is copied has the copy's descriptor, and gets its old one back
\* when there is no frame for the copy.
LEMMA CopyStrandsNone ==
  ASSUME Bookkeeping, TypeOK', CowDetach \/ CowRollback
  PROVE  NoneStranded'
<1>0. NoneStranded /\ AccountsLocated /\ UNCHANGED segment
  BY BookkeepingLocated DEF CowDetach, CowRollback
<1> SUFFICES ASSUME NEW t \in Slot, segment[t] # NoSegment
             PROVE  \E o \in FDs : t \in fd'[o].owners
  BY <1>0 DEF NoneStranded, Stranded
<1>1. PICK d \in FDs : t \in fd[d].owners
  BY <1>0 DEF NoneStranded, Stranded
<1>2. CASE CowDetach
  <2>1. PICK slot \in Slot : slot = op.slot
    BY <1>2, OpType DEF CowDetach, In, Bookkeeping
  <2>2. slot \in fd[FrameDescOf(pte[slot])].owners
    BY <1>2, <2>1, FoundIsOwned DEF CowDetach, In, Bookkeeping, OnSegment
  <2>3. FrameDescOf(pte[slot]) # NewFD
    BY <1>2, <2>2, NewFDFact, BlankIsNowhere DEF CowDetach, Unused
  <2>4. /\ TypeOK /\ FrameAccounting /\ ClusterAccounting /\ NoStrayCluster
        /\ FrameDescOf(pte[op.slot]) # NewFD
    BY <2>1, <2>3 DEF Bookkeeping, Places
  <2>5. PICK s \in Slot, parent, child \in FDs :
             /\ fd[child] = BlankFD
             /\ \A o \in FDs \ {parent, child} : fd'[o] = fd[o]
             /\ fd'[parent].owners = fd[parent].owners \ {s}
             /\ fd'[child].owners = {s}
    BY <1>2, <2>4, CowDetachMoves, ZenonT(60)
  <2>6. d # child
    BY <1>1, <2>5, BlankIsNowhere
  <2>7. t = s \/ t \in fd'[d].owners
    BY <1>1, <2>5, <2>6
  <2> QED BY <2>5, <2>7
<1>3. CASE CowRollback
  <2>1. PICK s \in Slot, parent, child \in FDs :
          /\ s = op.slot /\ parent = op.parent /\ child = op.child
          /\ parent # child /\ fd[child].owners = {s}
          /\ ~fd[child].vmValid /\ ~fd[child].diskValid
    BY <1>3, OpType DEF CowRollback, In, Bookkeeping, CopyPending, CopyNowhere
  <2>2. /\ \A o \in FDs \ {parent, child} : fd'[o] = fd[o]
        /\ fd'[parent].owners = fd[parent].owners \cup {s}
    BY <1>3, <2>1, CowRollbackMoves DEF Bookkeeping, Places
  <2>3. d = child => t = s
    BY <1>1, <2>1
  <2>4. t = s \/ t \in fd'[d].owners
    BY <1>1, <2>2, <2>3
  <2> QED BY <2>2, <2>4
<1> QED BY <1>2, <1>3

\* Only the page whose segment goes loses its owner.
LEMMA DeletionStrandsNone ==
  ASSUME Bookkeeping, TypeOK',
         \/ Unload \/ \E s \in Slot : DeleteSegment(s)
         \/ \E x \in SharedNames : DeleteSharedSegment(x)
  PROVE  NoneStranded'
<1>0. NoneStranded
  BY BookkeepingLocated
<1>1. CASE \E x \in SharedNames : DeleteSharedSegment(x)
  <2>1. PICK d \in FDs : fd[d].owners = {} /\ ReleaseFD(d)
    BY <1>1 DEF DeleteSharedSegment, Bookkeeping, TypeOK, PagingTypeOK
  <2>2. \A o \in FDs : fd'[o].owners = fd[o].owners
    BY <2>1, BlankIsNowhere DEF ReleaseFD, Bookkeeping, TypeOK, FMTypeOK
  <2> QED BY <1>0, <1>1, <2>2, OwnersKept DEF DeleteSharedSegment
<1>2. CASE Unload \/ \E s \in Slot : DeleteSegment(s)
  <2>1. PICK s \in Slot : segment[s] # NoSegment /\ DeleteSegmentImpl(s)
    BY <1>2, OpType DEF Unload, In, DeleteSegment, Bookkeeping, OnSegment
  <2>2. PICK d \in FDs : RemoveOwner(s, d)
    BY <2>1, FoundIsOwned DEF DeleteSegmentImpl, Bookkeeping
  <2>3. \A o \in FDs : fd[o].owners \ {s} \subseteq fd'[o].owners
    BY <2>2, RemoveOwnerAccounts DEF Bookkeeping, Places
  <2>4. /\ segment'[s] = NoSegment
        /\ \A t \in Slot \ {s} : segment'[t] = segment[t]
    BY <2>1 DEF DeleteSegmentImpl, Bookkeeping, TypeOK, PagingTypeOK
  <2> QED BY <1>0, <2>3, <2>4 DEF NoneStranded, Stranded
<1> QED BY <1>1, <1>2

\* A new segment's page has a descriptor of its own, an attached one the shared
\* segment's, a cloned one its parent's.
LEMMA NewOwnersStrandNone ==
  ASSUME Bookkeeping,
         \/ \E s \in Slot, flags \in Flags :
              \/ CreateSegment(s, flags)
              \/ \E w \in Images : LoadSegment(s, flags, w)
              \/ \E x \in SharedNames : CreateSharedSegment(s, x, flags)
         \/ \E p, q \in Procs : CloneProcess(p, q)
  PROVE  NoneStranded'
<1>0. NoneStranded /\ TypeOK
  BY BookkeepingLocated DEF Bookkeeping
<1>1. \E J \in SUBSET Slot : \E page \in [J -> FDs] : Joins(J, page)
  <2>1. ASSUME NEW p \in Procs, NEW q \in Procs, CloneProcess(p, q)
        PROVE  \E J \in SUBSET Slot : \E page \in [J -> FDs] : Joins(J, page)
    BY <1>0, <2>1, CloningJoins
  <2>2. ASSUME NEW s \in Slot, NEW flags \in Flags,
               \/ AllocateNewSegment(s, flags)
               \/ \E x \in SharedNames : CreateSharedSegment(s, x, flags)
        PROVE  \E J \in SUBSET Slot : \E page \in [J -> FDs] : Joins(J, page)
    <3>1. PICK d \in FDs : Joins({s}, [t \in {s} |-> d])
      BY <1>0, <2>2, NewSegmentJoins, AttachingJoins
    <3> WITNESS {s} \in SUBSET Slot
    <3> WITNESS [t \in {s} |-> d] \in [{s} -> FDs]
    <3> QED BY <3>1
  <2> QED BY <2>1, <2>2 DEF CreateSegment, LoadSegment
<1> QED BY <1>0, <1>1, JoiningStrandsNone

LEMMA NextBookkeeping ==
  ASSUME Bookkeeping, [Next]_vars, ~ReadMayFail
  PROVE  Bookkeeping'
<1>1. AccountsLocated'
  BY BookkeepingLocated, NextLocated
<1>2. TypeOK'
  BY <1>1 DEF AccountsLocated, AccountsKept
<1>3. NoneStranded'
  <2>1. CASE UNCHANGED <<fd, segment>>
    BY <2>1, BookkeepingLocated, OwnersKept
  <2>2. CASE LoadFrame
    BY <1>2, <2>2, LoadFrameStrandsNone
  <2>3. CASE CowDetach \/ CowRollback
    BY <1>2, <2>3, CopyStrandsNone
  <2>4. CASE \/ Unload \/ \E s \in Slot : DeleteSegment(s)
             \/ \E x \in SharedNames : DeleteSharedSegment(x)
    BY <1>2, <2>4, DeletionStrandsNone
  <2>5. CASE \/ \E s \in Slot, flags \in Flags :
                  \/ CreateSegment(s, flags)
                  \/ \E w \in Images : LoadSegment(s, flags, w)
                  \/ \E x \in SharedNames : CreateSharedSegment(s, x, flags)
             \/ \E p, q \in Procs : CloneProcess(p, q)
    BY <2>5, NewOwnersStrandNone
  <2>6. CASE \/ UNCHANGED vars \/ Halted \/ DetachNull \/ TouchFree
             \/ \E s \in Slot : DeleteNull(s)
             \/ \E p, q \in Procs : CloneNull(p, q)
    BY <2>1, <2>6
       DEF Halted, DetachNull, TouchFree, DeleteNull, CloneNull, Crash, vars, fmVars
  <2>7. CASE \/ Retry \/ Touch \/ Fill \/ CowCopy
             \/ \E s \in Slot, type \in Accesses, w \in Values : Access(s, type, w)
    BY <2>1, <2>7 DEF Retry, Touch, Fill, CowCopy, Access
  <2> QED BY <2>2, <2>3, <2>4, <2>5, <2>6, <2>7 DEF Next, CopyOnWrite
<1>4. OneDescriptor'
  BY <1>1, <1>3 DEF AccountsLocated, AccountsKept, OwnersOrStranded, OneDescriptor,
                    NoneStranded, Stranded
<1> QED BY <1>1, <1>4 DEF AccountsLocated, AccountsKept, Bookkeeping, Places

---------------------------------------------------------------------------
(* The theorems: on a partition whose clusters can be read, whatever       *)
(* operations run, writes fail or the partition is full.                   *)

\* The inductive invariant holds.
THEOREM BookkeepingKept == ASSUME ~ReadMayFail PROVE Spec => []Bookkeeping
<1>1. Init => Bookkeeping
  BY InitBookkeeping
<1>2. Bookkeeping /\ [Next]_vars => Bookkeeping'
  BY NextBookkeeping
<1> QED BY <1>1, <1>2, PTL DEF Spec

\* No frame is lost, free while it is in use, or used for two pages
\* (loadFrameInVM, removeProcessFromFrameOwners).
THEOREM FramesAccounted == ASSUME ~ReadMayFail PROVE Spec => []FrameAccounting
<1>1. Bookkeeping => FrameAccounting
  BY DEF Bookkeeping, Places
<1> QED BY <1>1, BookkeepingKept, PTL

\* No cluster is lost, free while it is in use, or used for two pages, and
\* clusterDescriptors leads back to the page (flushFrame, loadFrameInVM).
THEOREM ClustersAccounted == ASSUME ~ReadMayFail PROVE Spec => []ClusterAccounting
<1>1. Bookkeeping => ClusterAccounting
  BY DEF Bookkeeping, Places
<1> QED BY <1>1, BookkeepingKept, PTL

\* Every owner's page table entry agrees with the frame descriptor (the loops
\* over owners in pmt.cpp, the copies in kernelprocess.cpp).
THEOREM EntriesAlwaysAgree == ASSUME ~ReadMayFail PROVE Spec => []EntriesAgree
<1>1. Bookkeeping => EntriesAgree
  BY DEF Bookkeeping, Places, OwnersLocated, Located, EntriesAgree
<1> QED BY <1>1, BookkeepingKept, PTL

\* frameDescFromPMT2Desc finds the one descriptor of every page of a segment,
\* but for a shared page that a full partition dropped.
THEOREM DescriptorsFound == ASSUME ~ReadMayFail PROVE Spec => []DescriptorFound
<1>1. ASSUME Bookkeeping PROVE DescriptorFound
  <2> SUFFICES ASSUME NEW s \in Slot, segment[s] # NoSegment
      PROVE \E d \in FDs : /\ \A c \in FDs : s \in fd[c].owners <=> c = d
                           /\ \/ FrameDescOf(pte[s]) = d
                              \/ pte[s].diskFrameNum = NoCluster /\ Dropped(d)
    BY DEF DescriptorFound
  <2>1. PICK d \in FDs : s \in fd[d].owners
    BY <1>1 DEF Bookkeeping, Places, OneDescriptor
  <2>2. \A c \in FDs : s \in fd[c].owners <=> c = d
    BY <1>1, <2>1 DEF Bookkeeping, Places, OneDescriptor
  <2> QED BY <1>1, <2>1, <2>2, Found DEF Bookkeeping, Places, OwnersLocated
<1> QED BY <1>1, BookkeepingKept, PTL

---------------------------------------------------------------------------
(* The clock.                                                              *)

\* A frame becomes free by an eviction, or because the last owner of its page
\* or the page of a shared segment goes.
LEMMA FramesFreed ==
  ASSUME Bookkeeping, Next, segment' = segment,
         NEW f \in vmFree' \ vmFree, GetReferenceBit(vmDescriptors[f])
  PROVE  Evict
<1>1. vmFree' # vmFree
  OBVIOUS
<1>2. CASE Unload \/ \E s \in Slot : DeleteSegment(s)
  <2>1. PICK s \in Slot : segment[s] # NoSegment /\ DeleteSegmentImpl(s)
    BY <1>2, OpType DEF Unload, In, DeleteSegment, Bookkeeping, OnSegment
  <2>2. segment'[s] = NoSegment
    BY <2>1 DEF DeleteSegmentImpl, Bookkeeping, TypeOK, PagingTypeOK
  <2> QED BY <2>1, <2>2
<1>3. ASSUME NEW x \in SharedNames, DeleteSharedSegment(x) PROVE FALSE
  <2>1. PICK d \in FDs : fd[d].owners = {} /\ ReleaseFD(d)
    BY <1>3 DEF DeleteSharedSegment, Bookkeeping, TypeOK, PagingTypeOK
  <2>2. fd[d].vmValid /\ f = fd[d].vmFrameNum
    BY <2>1 DEF ReleaseFD, FreedFrame
  <2>3. vmDescriptors[f] = d
    BY <2>2 DEF Bookkeeping, Places, FrameAccounting
  <2> QED BY <2>1, <2>3 DEF GetReferenceBit
<1>4. CASE LoadFrame
  <2>1. CASE LoadEvict
    BY <2>1 DEF LoadEvict
  <2>2. CASE LoadPlace
    BY <1>1, <2>2 DEF LoadPlace, Place
  <2>3. CASE LoadResident \/ LoadEvictFails \/ LoadPlaceFails \/ LoadEvictCrashes \/ LoadNull
    BY <1>1, <2>3 DEF LoadResident, LoadEvictFails, EvictFails, LoadPlaceFails, PlaceFails,
       LoadEvictCrashes, LoadNull, Crash, fmVars
  <2> QED BY <1>4, <2>1, <2>2, <2>3 DEF LoadFrame
<1>5. CASE CopyOnWrite \/ Fill \/ Retry \/ Touch \/ TouchFree \/ Halted
  BY <1>1, <1>5 DEF CopyOnWrite, CowDetach, DetachNull, CowCopy, CowRollback, Fill, Retry,
     Touch, TouchFree, Halted, Crash, vars, fmVars
<1>6. /\ \A s, type, w : ~Access(s, type, w)
      /\ \A s, flags : ~CreateSegment(s, flags)
      /\ \A s, flags, w : ~LoadSegment(s, flags, w)
      /\ \A s, x, flags : ~CreateSharedSegment(s, x, flags)
      /\ \A s : ~DeleteNull(s)
      /\ \A p, q : ~CloneProcess(p, q) /\ ~CloneNull(p, q)
  BY <1>1 DEF Access, CreateSegment, LoadSegment, AllocateNewSegment, CreateSharedSegment,
     DeleteNull, CloneProcess, CloneNull, Crash, fmVars
<1> QED BY <1>2, <1>3, <1>4, <1>5, <1>6 DEF Next

\* A page that was accessed since the hand passed it is evicted only when all
\* were, and then the hand has moved on (findFrameToFlush).
THEOREM SecondChanceGiven == ASSUME ~ReadMayFail PROVE Spec => SecondChance
<1>1. ASSUME Bookkeeping, [Next]_vars,
             NEW f \in vmFree' \ vmFree,
             vmFree = {}, segment' = segment, GetReferenceBit(vmDescriptors[f])
      PROVE  /\ \A g \in Frames : GetReferenceBit(vmDescriptors[g])
             /\ NumFrames > 1 => clockHand # NextHand(f)
  <2>1. Next
    BY <1>1 DEF vars, fmVars
  <2>2. Evict
    BY <1>1, <2>1, FramesFreed
  <2>3. PICK victim \in Frames, passed \in SUBSET Frames :
          FindFrameToFlush(victim, passed) /\ vmFree' = vmFree \cup {victim}
    <3>1. PICK victim \in Frames, passed \in SUBSET Frames :
            /\ FindFrameToFlush(victim, passed)
            /\ LET d == vmDescriptors[victim]
               IN  \/ SaveToNewCluster(d, victim, passed)
                   \/ DropUnsaved(d, victim, passed)
                   \/ SaveToOwnCluster(d, victim, passed)
      BY <2>2 DEF Evict
    <3>2. ASSUME NEW d, NEW c, NEW clean, PageOut(d, victim, passed, c, clean)
          PROVE  vmFree' = vmFree \cup {victim}
      BY <3>2 DEF PageOut
    <3>3. vmFree' = vmFree \cup {victim}
      BY <3>1, <3>2 DEF SaveToNewCluster, DropUnsaved, SaveToOwnCluster
    <3> QED BY <3>1, <3>3
  <2>4. victim = f
    BY <1>1, <2>3
  <2>5. (\A g \in Frames : GetReferenceBit(vmDescriptors[g])) /\ f = clockHand
    BY <1>1, <2>3, <2>4 DEF FindFrameToFlush
  <2>6. clockHand \in 0 .. (NumFrames - 1) /\ NumFrames \in Nat
    BY <1>1, FramesAssumption DEF Bookkeeping, TypeOK, FMTypeOK, Frames
  <2>7. NumFrames > 1 => clockHand # (clockHand + 1) % NumFrames
    BY <2>6
  <2> QED BY <2>5, <2>7 DEF NextHand
<1>2. Bookkeeping /\ [Next]_vars =>
        [\A f \in vmFree' \ vmFree :
           vmFree = {} /\ segment' = segment /\ GetReferenceBit(vmDescriptors[f]) =>
             /\ \A g \in Frames : GetReferenceBit(vmDescriptors[g])
             /\ NumFrames > 1 => clockHand # NextHand(f)]_vars
  BY <1>1
<1> QED BY <1>2, BookkeepingKept, PTL DEF Spec, SecondChance

===========================================================================
