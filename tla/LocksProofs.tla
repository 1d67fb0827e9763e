---------------------------- MODULE LocksProofs ----------------------------
(***************************************************************************)
(* For any number of threads and processes: the mutexes are taken in one   *)
(* order, so no threads wait in a circle, and a round of processThrashing  *)
(* has the processes for itself.                                           *)
(*                                                                         *)
(* Each mutex has a rank: the test's global mutex, ksMutex, the kpMutexes  *)
(* in the order in which their processes were made, the mutex of the       *)
(* shared segments manager, framesMutex, and last those under which no     *)
(* other is taken.  Ceil is the highest rank a thread can hold when it     *)
(* makes a call.  A call takes a mutex of a higher rank, or one of rank    *)
(* Ceil, which is the same mutex; the exception is the removal from        *)
(* processMap, under a kpMutex, whose ksMutex the thread is sure to hold.  *)
(***************************************************************************)
EXTENDS Locks, TLAPS, SequenceTheorems, WellFoundedInduction

ksMutex == Mutex("ksMutex", 0)

RankOf(c) ==
  CASE c.fn = "doInstruction" -> 1
    [] c.fn \in ksMutexFunctions -> 2
    [] c.fn \in kpMutexFunctions -> 2 + c.of
    [] c.fn \in myMutexFunctions -> NumProcs + 3
    [] c.fn \in framesMutexFunctions -> NumProcs + 4
    [] c.fn \in thrashingMutexFunctions \cup allocatorFunctions -> NumProcs + 5
    [] OTHER -> 0

Ceil(c) ==
  CASE c.fn \in {"createProcess", "cloneProcess", "periodicJob", "doInstruction"} -> 0
    [] c.fn \in {"systemAccess", "pageFault"} -> 1
    [] c.fn \in {"createKernelProcess", "destroyKernelProcess", "clone", "cloneAllSegments",
                 "processThrashing", "perProcess"} -> 2
    [] c.fn \in (kpMutexFunctions \ {"cloneAllSegments", "perProcess"})
                 \cup {"eraseFromMap", "createSegment", "loadSegment", "cloneOneSegment",
                       "createSharedSegment", "disconnectSharedSegment"} -> 2 + c.of
    [] c.fn \in myMutexFunctions \cup {"deleteSharedSegment"} -> NumProcs + 3
    [] OTHER -> NumProcs + 4

\* Functions that run under ksMutex whoever calls them
UnderKs ==
  {"KernelProcess", "~KernelProcess", "access", "processThrashing", "perProcess", "notify",
   "eraseFromMap"}

OfProcess ==
  NeedsProcess \cup {"clone", "createSegment", "loadSegment", "cloneOneSegment", "pageFault",
                     "createSharedSegment", "disconnectSharedSegment", "doInstruction"}

\* The processes of a call are there, and a clone is younger than its parent.
Proper(c) ==
  /\ c \in Call
  /\ c.fn \in OfProcess => c.of \in Procs
  /\ c.fn = "createProcess" => c.child \in Procs
  /\ c.fn \in {"cloneProcess", "clone", "cloneAllSegments"} => c.child \in Procs /\ c.of < c.child

\* c can be made by a thread whose first n calls are those of s.
FitsAt(s, n, c) ==
  /\ Proper(c)
  /\ \A k \in 1 .. n : RankOf(s[k]) <= Ceil(c)
  /\ c.fn \in UnderKs => \E k \in 1 .. n : MutexOf(s[k]) = ksMutex

StackOK(s) == \A i \in 1 .. Len(s) : FitsAt(s, i - 1, s[i])

Typed ==
  /\ stack \in [Threads -> Seq(Call)]
  /\ next \in [Threads -> Call \cup {NoCall}]
  /\ life \in [Procs -> Stages]

\* The inductive invariant
Ordered ==
  /\ Typed
  /\ \A t \in Threads : /\ StackOK(stack[t])
                        /\ next[t] # NoCall => FitsAt(stack[t], Len(stack[t]), next[t])
  /\ \A t, u \in Threads : t # u => Holds(t) \cap Holds(u) = {}

---------------------------------------------------------------------------
(* The call graph.                                                         *)

\* Ranks and mutexes of the functions, class by class
LEMMA Classes ==
  ASSUME NEW c, Proper(c)
  PROVE  \/ c.fn = "doInstruction" /\ MutexOf(c) = Mutex("globalMutex", 0) /\ RankOf(c) = 1
         \/ c.fn \in ksMutexFunctions /\ MutexOf(c) = ksMutex /\ RankOf(c) = 2
         \/ c.fn \in kpMutexFunctions /\ MutexOf(c) = Mutex("kpMutex", c.of) /\ RankOf(c) = 2 + c.of
         \/ c.fn \in myMutexFunctions /\ MutexOf(c) = Mutex("myMutex", 0)
              /\ RankOf(c) = NumProcs + 3
         \/ c.fn \in framesMutexFunctions /\ MutexOf(c) = Mutex("framesMutex", 0)
              /\ RankOf(c) = NumProcs + 4
         \/ c.fn \in thrashingMutexFunctions /\ MutexOf(c) = Mutex("thrashingMutex", c.of)
              /\ RankOf(c) = NumProcs + 5
         \/ c.fn \in allocatorFunctions /\ MutexOf(c) = Mutex(c.fn, 0) /\ RankOf(c) = NumProcs + 5
         \/ c.fn \in unlockedFunctions /\ MutexOf(c) = NoMutex /\ RankOf(c) = 0
BY SMTT(60) DEF Proper, Call, MutexOf, RankOf, ksMutex, Functions, ksMutexFunctions,
   kpMutexFunctions, myMutexFunctions, framesMutexFunctions, thrashingMutexFunctions,
   allocatorFunctions, unlockedFunctions

\* The edges of the call graph
LEMMA Edges ==
  ASSUME NEW f, NEW g \in Calls(f)
  PROVE  \/ f = "createProcess" /\ g = "createKernelProcess"
         \/ f = "createKernelProcess" /\ g \in {"spaceAllocator", "KernelProcess"}
         \/ f = "destroyKernelProcess" /\ g = "~KernelProcess"
         \/ f = "cloneProcess" /\ g = "clone"
         \/ f = "systemAccess" /\ g = "access"
         \/ f = "periodicJob" /\ g = "processThrashing"
         \/ f = "processThrashing" /\ g \in {"perProcess", "notify"}
         \/ f \in OfProcess \ ({"clone", "createKernelProcess", "destroyKernelProcess"}
                                  \cup thrashingMutexFunctions)
              /\ g \in {"deleteSegmentImpl", "deleteSegmentPrivate", "deleteSegmentShared",
                        "allocateNewSegment", "allocateCloneSegment", "allocateSharedSegment",
                        "allocateEmptySegment", "cloneOneSegment", "createSharedSegment",
                        "disconnectSharedSegment"}
              /\ f \notin {"cloneAllSegments", "perProcess", "doInstruction", "pageFault"}
         \/ f = "~KernelProcess" /\ g = "eraseFromMap"
         \/ f = "clone" /\ g \in {"createKernelProcess", "cloneAllSegments", "destroyKernelProcess"}
         \/ f = "cloneAllSegments" /\ g = "cloneInto"
         \/ f \in OfProcess \ thrashingMutexFunctions
              /\ g \in framesMutexFunctions \cup allocatorFunctions
         \/ f \in OfProcess \ ({"doInstruction"} \cup thrashingMutexFunctions)
              /\ g \in {"managerCreate", "managerDisconnect"}
         \/ f = "deleteSharedSegment" /\ g = "managerDelete"
         \/ f \in myMutexFunctions
              /\ g \in {"managerDisconnectAll", "managerDisconnect", "removeProcessFromFrameOwners"}
         \/ f \in framesMutexFunctions
              /\ g \in {"frameDescFromPMT2Desc", "vmAllocator", "clusterAllocator"}
         \/ f = "doInstruction" /\ g \in {"systemAccess", "pageFault"}
BY SMTT(60) DEF Calls, KernelSystemCalls, KernelProcessCalls, CloneCalls, ManagerCalls, OfProcess,
   NeedsProcess, kpMutexFunctions, thrashingMutexFunctions, myMutexFunctions,
   framesMutexFunctions, allocatorFunctions

\* The function, the process and the condition of a call that c makes
LEMMA Callee ==
  ASSUME NEW c, NEW d \in InnerCalls(c)
  PROVE  /\ d.fn \in Calls(c.fn) /\ Reached(c, d.fn)
         /\ d.of \in Target(c, d.fn)
         /\ d.child = c.child
         /\ d = CallOf(d.fn, d.of, d.child)
<1>1. PICK g \in Calls(c.fn) : Reached(c, g) /\ d \in {CallOf(g, of, c.child) : of \in Target(c, g)}
  BY DEF InnerCalls
<1>2. PICK of \in Target(c, g) : d = CallOf(g, of, c.child)
  BY <1>1
<1>3. d.fn = g /\ d.of = of /\ d.child = c.child
  BY <1>2 DEF CallOf
<1> QED BY <1>1, <1>2, <1>3

\* Functions that are called are functions, and have a process if they need one.
LEMMA CalleeProper ==
  ASSUME Typed, NEW c, Proper(c), NEW d \in InnerCalls(c)
  PROVE  Proper(d)
<1> USE DEF ksMutexFunctions, kpMutexFunctions, myMutexFunctions, framesMutexFunctions,
     thrashingMutexFunctions, allocatorFunctions, unlockedFunctions, OfProcess, NeedsProcess
<1> USE NumProcsAssumption DEF Procs, Pids
<1>1. /\ d.fn \in Calls(c.fn) /\ Reached(c, d.fn) /\ d.of \in Target(c, d.fn)
      /\ d.child = c.child /\ d = CallOf(d.fn, d.of, d.child)
  BY Callee
<1>2. c \in Call /\ c.fn \in Functions /\ c.of \in Pids /\ c.child \in Pids
  BY DEF Proper, Call
<1>3. d.fn \in Functions
  BY <1>1, Edges, SMTT(60) DEF Functions
<1>4. d.of \in Pids
  BY <1>1, <1>2, SMTT(60) DEF Target, processMap
<1>5. d \in Call
  BY <1>1, <1>2, <1>3, <1>4 DEF Call, CallOf
<1>6. d.fn \in OfProcess => d.of \in Procs
  <2> SUFFICES ASSUME d.fn \in OfProcess PROVE d.of \in Procs
    OBVIOUS
  <2>1. CASE c.fn \in {"createProcess", "clone", "cloneAllSegments"}
    BY <1>1, <1>2, <2>1, Edges, SMTT(60) DEF Target, Proper
  <2>2. CASE c.fn \in {"cloneProcess", "systemAccess"}
    BY <1>1, <1>2, <2>2, Edges, SMTT(60) DEF Target, Reached, Found, processMap
  <2>3. CASE c.fn = "processThrashing"
    <3>1. d.of \in processMap
      <4>1. d.fn \in {"perProcess", "notify"}
        BY <1>1, <2>3, Edges, SMTT(60)
      <4> QED BY <1>1, <2>3, <4>1 DEF Target
    <3> QED BY <3>1 DEF processMap
  <2>4. CASE c.fn \in OfProcess \ {"clone", "cloneAllSegments"}
    BY <1>1, <1>2, <2>4, Edges, SMTT(60) DEF Target, Proper
  <2> QED
    BY <1>1, <2>1, <2>2, <2>3, <2>4, Edges, SMTT(60)
<1>7. d.fn # "createProcess" /\ d.fn # "cloneProcess"
  BY <1>1, Edges, SMTT(60)
<1>8. d.fn = "clone" => d.child \in Procs /\ d.of < d.child
  BY <1>1, <1>2, Edges, SMTT(60) DEF Target, Proper
<1>9. d.fn = "cloneAllSegments" => d.child \in Procs /\ d.of < d.child
  BY <1>1, <1>2, Edges, SMTT(60) DEF Target, Proper
<1> QED BY <1>5, <1>6, <1>7, <1>8, <1>9 DEF Proper


\* Ceilings, class by class
LEMMA Ceilings ==
  ASSUME NEW c, Proper(c)
  PROVE  \/ /\ c.fn \in {"createProcess", "cloneProcess", "periodicJob", "doInstruction"}
            /\ Ceil(c) = 0
         \/ c.fn \in {"systemAccess", "pageFault"} /\ Ceil(c) = 1
         \/ /\ c.fn \in {"createKernelProcess", "destroyKernelProcess", "clone",
                         "cloneAllSegments", "processThrashing", "perProcess"}
            /\ Ceil(c) = 2
         \/ /\ c.fn \in (kpMutexFunctions \ {"cloneAllSegments", "perProcess"})
                          \cup {"eraseFromMap", "createSegment", "loadSegment", "cloneOneSegment",
                                "createSharedSegment", "disconnectSharedSegment"}
            /\ Ceil(c) = 2 + c.of
         \/ c.fn \in myMutexFunctions \cup {"deleteSharedSegment"} /\ Ceil(c) = NumProcs + 3
         \/ /\ c.fn \in framesMutexFunctions \cup allocatorFunctions \cup thrashingMutexFunctions
            /\ Ceil(c) = NumProcs + 4
BY SMTT(60) DEF Proper, Call, Ceil, Functions, ksMutexFunctions, kpMutexFunctions, myMutexFunctions,
   framesMutexFunctions, thrashingMutexFunctions, allocatorFunctions, unlockedFunctions

\* Functions below which no call is made take the mutexes of the highest rank.
LEMMA Callers ==
  ASSUME NEW c, Proper(c), Calls(c.fn) # {}
  PROVE  RankOf(c) <= NumProcs + 4 /\ Ceil(c) <= NumProcs + 4
<1> USE DEF ksMutexFunctions, kpMutexFunctions, myMutexFunctions, framesMutexFunctions,
     thrashingMutexFunctions, allocatorFunctions, unlockedFunctions, OfProcess, NeedsProcess
<1> USE NumProcsAssumption DEF Procs, Pids
<1>1. PICK g : g \in Calls(c.fn)
  OBVIOUS
<1>2. c.of \in Pids /\ (c.fn \in OfProcess => c.of \in Procs)
  BY DEF Proper, Call
<1>3. c.fn \notin thrashingMutexFunctions \cup allocatorFunctions
  BY <1>1, Edges, SMTT(60)
<1>4. RankOf(c) <= NumProcs + 4
  BY <1>2, <1>3, Classes, SMTT(60)
<1>5. Ceil(c) <= NumProcs + 4
  BY <1>2, <1>3, Ceilings, SMTT(60)
<1> QED BY <1>4, <1>5

\* A call that c makes comes after c in the order of the mutexes.
LEMMA CalleeInOrder ==
  ASSUME Typed, NEW c, Proper(c), NEW d \in InnerCalls(c)
  PROVE  Ceil(c) <= Ceil(d) /\ RankOf(c) <= Ceil(d)
<1> USE DEF ksMutexFunctions, kpMutexFunctions, myMutexFunctions, framesMutexFunctions,
     thrashingMutexFunctions, allocatorFunctions, unlockedFunctions, OfProcess, NeedsProcess
<1> USE NumProcsAssumption DEF Procs, Pids
<1> DEFINE f == c.fn
           g == d.fn
<1>1. /\ g \in Calls(f) /\ d.of \in Target(c, g)
      /\ d.child = c.child
  BY Callee
<1>2. c \in Call /\ c.fn \in Functions /\ c.of \in Pids /\ c.child \in Pids
  BY DEF Proper, Call
<1>3. Proper(d) /\ d.of \in Pids
  BY CalleeProper DEF Proper, Call
<1>4. RankOf(c) <= NumProcs + 4 /\ Ceil(c) <= NumProcs + 4
  BY <1>1, Callers
<1>5. CASE g \in framesMutexFunctions \cup allocatorFunctions \cup thrashingMutexFunctions
  <2>1. Ceil(d) = NumProcs + 4
    BY <1>3, <1>5, Ceilings, SMTT(60)
  <2> QED BY <1>4, <2>1
<1>6. CASE g \in myMutexFunctions
  <2>1. Ceil(d) = NumProcs + 3
    BY <1>3, <1>6, Ceilings, SMTT(60)
  <2>2. f \in myMutexFunctions \cup {"deleteSharedSegment"}
                \cup (OfProcess \ thrashingMutexFunctions)
    BY <1>1, <1>6, Edges, SMTT(60)
  <2>3. f \notin framesMutexFunctions \cup thrashingMutexFunctions \cup allocatorFunctions
    BY <2>2, SMTT(60)
  <2>4. f \in OfProcess => c.of \in Procs
    BY DEF Proper
  <2>5. Ceil(c) <= NumProcs + 3
    BY <1>2, <2>2, <2>3, <2>4, Ceilings, SMTT(60)
  <2>6. RankOf(c) <= NumProcs + 3
    BY <1>2, <2>2, <2>3, <2>4, Classes, SMTT(60)
  <2> QED BY <2>1, <2>5, <2>6
<1>7. CASE /\ f \in OfProcess \ ({"clone", "createKernelProcess", "destroyKernelProcess",
                                  "cloneAllSegments", "perProcess", "doInstruction", "pageFault"}
                                   \cup thrashingMutexFunctions)
           /\ g \in {"deleteSegmentImpl", "deleteSegmentPrivate", "deleteSegmentShared",
                     "allocateNewSegment", "allocateCloneSegment", "allocateSharedSegment",
                     "allocateEmptySegment", "cloneOneSegment", "createSharedSegment",
                     "disconnectSharedSegment", "eraseFromMap"}
  <2>1. d.of = c.of
    <3>1. /\ f \notin {"processThrashing", "clone"}
          /\ g \notin {"createKernelProcess", "cloneInto"}
      BY <1>7, SMT
    <3> QED BY <1>1, <3>1 DEF Target
  <2>2. Ceil(d) = 2 + c.of
    BY <1>3, <1>7, <2>1, Ceilings, SMTT(60)
  <2>3. f \in (kpMutexFunctions \ {"cloneAllSegments", "perProcess"}) \cup
              {"createSegment", "loadSegment", "cloneOneSegment", "createSharedSegment",
               "disconnectSharedSegment"}
    BY <1>7, SMTT(60)
  <2>4. Ceil(c) = 2 + c.of
    BY <2>3, Ceilings, SMTT(60)
  <2>5. RankOf(c) <= 2 + c.of
    BY <1>2, <2>3, Classes, SMTT(60)
  <2> QED BY <1>2, <2>2, <2>4, <2>5
<1>8. CASE f \in {"createProcess", "cloneProcess", "clone", "cloneAllSegments", "periodicJob",
                  "createKernelProcess", "destroyKernelProcess", "systemAccess",
                  "processThrashing", "doInstruction"}
  <2>1. CASE f = "cloneAllSegments"
    <3>1. CASE g = "cloneInto"
      <4>1. d.of = c.child
        BY <1>1, <2>1, <3>1 DEF Target
      <4>2. c.of \in Procs /\ c.child \in Procs /\ c.of < c.child
        BY <2>1 DEF Proper
      <4>3. RankOf(c) = 2 + c.of /\ Ceil(c) = 2
        BY <2>1, Classes, Ceilings, SMTT(60)
      <4>4. Ceil(d) = 2 + c.child
        BY <1>3, <3>1, <4>1, Ceilings, SMTT(60)
      <4> QED BY <4>2, <4>3, <4>4
    <3>2. CASE g # "cloneInto"
      <4>1. g \in framesMutexFunctions \cup allocatorFunctions \cup myMutexFunctions
        BY <1>1, <2>1, <3>2, Edges, SMTT(60)
      <4> QED BY <1>5, <1>6, <4>1
    <3> QED BY <3>1, <3>2
  <2>2. CASE f = "doInstruction"
    <3>1. RankOf(c) = 1 /\ Ceil(c) = 0
      BY <2>2, Classes, Ceilings, SMTT(60)
    <3>2. g \notin {"createProcess", "cloneProcess", "periodicJob", "doInstruction"}
      BY <1>1, <2>2, Edges, SMTT(60)
    <3>3. 1 <= Ceil(d) /\ Ceil(d) \in Int
      BY <1>3, <3>2, Ceilings, SMTT(60)
    <3> QED BY <3>1, <3>3, SMT
  <2>3. CASE f \notin {"cloneAllSegments", "doInstruction"}
    <3>1. RankOf(c) <= 2 /\ Ceil(c) <= 2 /\ RankOf(c) \in Int /\ Ceil(c) \in Int
      BY <1>8, <2>3, Classes, Ceilings, SMTT(60)
    <3>2. g \notin {"createProcess", "cloneProcess", "periodicJob", "doInstruction",
                    "systemAccess", "pageFault"}
      BY <1>1, <1>8, <2>3, Edges, SMTT(60)
    <3>3. 2 <= Ceil(d) /\ Ceil(d) \in Int
      BY <1>3, <3>2, Ceilings, SMTT(60)
    <3> QED BY <3>1, <3>3, SMT
  <2> QED BY <1>8, <2>1, <2>2, <2>3
<1> QED
  BY <1>1, <1>5, <1>6, <1>7, <1>8, Edges, SMTT(60)

\* What runs under ksMutex whoever calls it is called under ksMutex.
LEMMA CalleeUnderKs ==
  ASSUME NEW c, Proper(c), NEW d \in InnerCalls(c), d.fn \in UnderKs
  PROVE  c.fn \in UnderKs \/ MutexOf(c) = ksMutex
<1> USE DEF ksMutexFunctions, kpMutexFunctions, myMutexFunctions, framesMutexFunctions,
     thrashingMutexFunctions, allocatorFunctions, unlockedFunctions, OfProcess, NeedsProcess
<1>1. d.fn \in Calls(c.fn)
  BY Callee
<1>2. c.fn \in UnderKs \cup ksMutexFunctions
  BY <1>1, Edges, SMTT(60) DEF UnderKs
<1> QED
  BY <1>2, Classes, SMTT(60)

\* The user's calls
LEMMA UserCallsProper ==
  ASSUME Typed, NEW c \in UserCalls
  PROVE  Proper(c) /\ c.fn \notin UnderKs
<1> USE DEF ksMutexFunctions, kpMutexFunctions, myMutexFunctions, framesMutexFunctions,
     thrashingMutexFunctions, allocatorFunctions, unlockedFunctions, OfProcess, NeedsProcess
<1> USE NumProcsAssumption DEF Procs, Pids
<1>1. CASE c = CallOf("periodicJob", 0, 0)
  BY <1>1, SMTT(60) DEF CallOf, Proper, Call, Functions, UnderKs
<1>2. CASE \E pid \in Pids : c = CallOf("systemAccess", pid, 0)
  BY <1>2, SMTT(60) DEF CallOf, Proper, Call, Functions, UnderKs
<1>3. CASE \E p \in Procs : c = CallOf("createProcess", p, p)
  BY <1>3, SMTT(60) DEF CallOf, Proper, Call, Functions, UnderKs
<1>4. CASE \E pid \in Pids, p \in Procs : /\ pid = 0 \/ life[pid] # "unborn"
                                          /\ Unborn(p)
                                          /\ c = CallOf("cloneProcess", pid, p)
  <2>1. PICK pid \in Pids, p \in Procs : /\ pid = 0 \/ life[pid] # "unborn"
                                         /\ Unborn(p)
                                         /\ c = CallOf("cloneProcess", pid, p)
    BY <1>4
  <2>2. pid < p
    BY <2>1 DEF Unborn
  <2> QED
    BY <2>1, <2>2, SMTT(60) DEF CallOf, Proper, Call, Functions, UnderKs
<1>5. CASE \E p, q \in Procs : life[p] = "used" /\ Unborn(q) /\ c = CallOf("clone", p, q)
  <2>1. PICK p, q \in Procs : life[p] = "used" /\ Unborn(q) /\ c = CallOf("clone", p, q)
    BY <1>5
  <2>2. p < q
    BY <2>1 DEF Unborn
  <2> QED
    BY <2>1, <2>2, SMTT(60) DEF CallOf, Proper, Call, Functions, UnderKs
<1>6. CASE \E fn \in ProcessFunctions \cup {"destroyKernelProcess"}, p \in Procs :
             c = CallOf(fn, p, 0)
  BY <1>6, SMTT(60) DEF CallOf, Proper, Call, Functions, UnderKs, ProcessFunctions
<1>7. \/ c = CallOf("periodicJob", 0, 0)
      \/ c \in {CallOf("systemAccess", pid, 0) : pid \in Pids}
      \/ c \in {CallOf("createProcess", p, p) : p \in {q \in Procs : Unborn(q)}}
      \/ c \in {CallOf("cloneProcess", pid, p) : pid \in {q \in Pids : q = 0 \/ life[q] # "unborn"},
                                                 p \in {q \in Procs : Unborn(q)}}
      \/ c \in {CallOf("clone", p, q) : p \in {r \in Procs : life[r] = "used"},
                                        q \in {r \in Procs : Unborn(r)}}
      \/ c \in {CallOf(fn, p, 0) : fn \in ProcessFunctions, p \in {q \in Procs : life[q] = "used"}}
      \/ c \in {CallOf("destroyKernelProcess", p, 0) :
                  p \in {q \in Procs : life[q] = "used" /\ ~Busy(q)}}
  BY DEF UserCalls
<1>8. c \in {CallOf("systemAccess", pid, 0) : pid \in Pids} =>
        \E pid \in Pids : c = CallOf("systemAccess", pid, 0)
  OBVIOUS
<1>9. c \in {CallOf("createProcess", p, p) : p \in {q \in Procs : Unborn(q)}} =>
        \E p \in Procs : c = CallOf("createProcess", p, p)
  OBVIOUS
<1>10. c \in {CallOf("cloneProcess", pid, p) : pid \in {q \in Pids : q = 0 \/ life[q] # "unborn"},
                                               p \in {q \in Procs : Unborn(q)}} =>
         \E pid \in Pids, p \in Procs : /\ pid = 0 \/ life[pid] # "unborn"
                                        /\ Unborn(p)
                                        /\ c = CallOf("cloneProcess", pid, p)
  OBVIOUS
<1>11. c \in {CallOf("clone", p, q) : p \in {r \in Procs : life[r] = "used"},
                                      q \in {r \in Procs : Unborn(r)}} =>
         \E p, q \in Procs : life[p] = "used" /\ Unborn(q) /\ c = CallOf("clone", p, q)
  OBVIOUS
<1>12. c \in {CallOf(fn, p, 0) : fn \in ProcessFunctions, p \in {q \in Procs : life[q] = "used"}} =>
         \E fn \in ProcessFunctions \cup {"destroyKernelProcess"}, p \in Procs :
           c = CallOf(fn, p, 0)
  OBVIOUS
<1>13. c \in {CallOf("destroyKernelProcess", p, 0) :
                p \in {q \in Procs : life[q] = "used" /\ ~Busy(q)}} =>
         \E fn \in ProcessFunctions \cup {"destroyKernelProcess"}, p \in Procs :
           c = CallOf(fn, p, 0)
  OBVIOUS
<1> QED
  BY <1>1, <1>2, <1>3, <1>4, <1>5, <1>6, <1>7, <1>8, <1>9, <1>10, <1>11, <1>12, <1>13

---------------------------------------------------------------------------
(* Stacks.                                                                 *)

LEMMA RankTypes ==
  ASSUME NEW c, Proper(c)
  PROVE  RankOf(c) \in Nat /\ Ceil(c) \in Nat /\ RankOf(c) <= NumProcs + 5
<1> USE NumProcsAssumption DEF Procs, Pids
<1>1. c.of \in Pids /\ (c.fn \in OfProcess => c.of \in Procs)
  BY DEF Proper, Call
<1>2. c.fn \in kpMutexFunctions => c.of \in Procs
  BY <1>1 DEF OfProcess, NeedsProcess
<1>3. RankOf(c) \in Nat /\ RankOf(c) <= NumProcs + 5
  BY <1>1, <1>2, Classes, SMTT(60)
<1>4. Ceil(c) \in Nat
  BY <1>1, Ceilings, SMTT(60)
<1> QED BY <1>3, <1>4

\* Only the calls below n matter to FitsAt.
LEMMA FitsAtSame ==
  ASSUME NEW s, NEW r, NEW n \in Nat, NEW c, FitsAt(s, n, c), \A k \in 1 .. n : r[k] = s[k]
  PROVE  FitsAt(r, n, c)
BY DEF FitsAt

LEMMA Push ==
  ASSUME NEW s \in Seq(Call), NEW c, StackOK(s), FitsAt(s, Len(s), c)
  PROVE  Append(s, c) \in Seq(Call) /\ StackOK(Append(s, c))
<1> DEFINE r == Append(s, c)
<1>1. c \in Call
  BY DEF FitsAt, Proper
<1>2. /\ r \in Seq(Call) /\ Len(r) = Len(s) + 1 /\ Len(s) \in Nat
      /\ \A k \in 1 .. Len(s) : r[k] = s[k]
      /\ r[Len(s) + 1] = c
  BY <1>1, AppendProperties
<1> HIDE DEF r
<1>3. ASSUME NEW i \in 1 .. Len(r) PROVE FitsAt(r, i - 1, r[i])
  <2>1. CASE i = Len(s) + 1
    BY <1>2, <2>1, FitsAtSame
  <2>2. CASE i \in 1 .. Len(s)
    <3>1. FitsAt(s, i - 1, s[i]) /\ r[i] = s[i]
      BY <1>2, <2>2 DEF StackOK
    <3>2. i - 1 \in Nat /\ \A k \in 1 .. (i - 1) : r[k] = s[k]
      BY <1>2, <2>2
    <3> QED BY <3>1, <3>2, FitsAtSame
  <2> QED BY <1>2, <1>3, <2>1, <2>2
<1> QED BY <1>2, <1>3 DEF StackOK, r

LEMMA Prefixes ==
  ASSUME NEW s \in Seq(Call), NEW n \in Nat, n <= Len(s)
  PROVE  /\ SubSeq(s, 1, n) \in Seq(Call)
         /\ Len(SubSeq(s, 1, n)) = n
         /\ \A k \in 1 .. n : SubSeq(s, 1, n)[k] = s[k]
OBVIOUS

LEMMA Pop ==
  ASSUME NEW s \in Seq(Call), s # <<>>, StackOK(s)
  PROVE  LET r == SubSeq(s, 1, Len(s) - 1)
         IN /\ r \in Seq(Call) /\ StackOK(r) /\ Len(r) = Len(s) - 1
            /\ \A k \in 1 .. Len(r) : r[k] = s[k]
<1> DEFINE r == SubSeq(s, 1, Len(s) - 1)
<1>1. Len(s) \in Nat /\ Len(s) > 0
  OBVIOUS
<1>2. /\ r \in Seq(Call) /\ Len(r) = Len(s) - 1
      /\ \A k \in 1 .. Len(r) : r[k] = s[k]
  <2>1. Len(s) - 1 \in Nat /\ Len(s) - 1 <= Len(s)
    BY <1>1
  <2> QED BY <2>1, Prefixes
<1> HIDE DEF r
<1>3. ASSUME NEW i \in 1 .. Len(r) PROVE FitsAt(r, i - 1, r[i])
  <2>1. FitsAt(s, i - 1, s[i]) /\ r[i] = s[i]
    BY <1>1, <1>2, <1>3 DEF StackOK
  <2>2. i - 1 \in Nat /\ \A k \in 1 .. (i - 1) : r[k] = s[k]
    BY <1>1, <1>2, <1>3
  <2> QED BY <2>1, <2>2, FitsAtSame
<1> QED BY <1>2, <1>3 DEF StackOK, r

\* A call made by the innermost call fits.
LEMMA InnerFits ==
  ASSUME Typed, NEW s \in Seq(Call), s # <<>>, StackOK(s), NEW d \in InnerCalls(s[Len(s)])
  PROVE  FitsAt(s, Len(s), d)
<1> DEFINE n == Len(s)
           c == s[n]
<1>1. n \in Nat /\ n > 0 /\ n \in 1 .. n
  OBVIOUS
<1>2. FitsAt(s, n - 1, c)
  BY <1>1 DEF StackOK
<1>3. Proper(c)
  BY <1>2 DEF FitsAt
<1> HIDE DEF c
<1>4. Proper(d) /\ Ceil(c) <= Ceil(d) /\ RankOf(c) <= Ceil(d)
  BY <1>3, CalleeProper, CalleeInOrder DEF c
<1>5. ASSUME NEW k \in 1 .. n PROVE RankOf(s[k]) <= Ceil(d)
  <2>1. Proper(s[k])
    BY <1>5 DEF StackOK, FitsAt
  <2>2. RankOf(s[k]) \in Nat /\ Ceil(c) \in Nat /\ Ceil(d) \in Nat
    BY <1>3, <1>4, <2>1, RankTypes
  <2>3. CASE k = n
    BY <1>4, <2>3 DEF c
  <2>4. CASE k # n
    <3>1. RankOf(s[k]) <= Ceil(c)
      BY <1>1, <1>2, <1>5, <2>4 DEF FitsAt
    <3> QED BY <1>4, <2>2, <3>1
  <2> QED BY <2>3, <2>4
<1>6. ASSUME d.fn \in UnderKs PROVE \E k \in 1 .. n : MutexOf(s[k]) = ksMutex
  <2>1. c.fn \in UnderKs \/ MutexOf(c) = ksMutex
    BY <1>3, <1>6, CalleeUnderKs DEF c
  <2>2. CASE c.fn \in UnderKs
    <3>1. PICK k \in 1 .. (n - 1) : MutexOf(s[k]) = ksMutex
      BY <1>2, <2>2 DEF FitsAt
    <3> QED BY <1>1, <3>1
  <2>3. CASE MutexOf(c) = ksMutex
    BY <1>1, <2>3 DEF c
  <2> QED BY <2>1, <2>2, <2>3
<1> QED BY <1>4, <1>5, <1>6 DEF FitsAt

---------------------------------------------------------------------------
(* The order is kept.                                                      *)

HeldBy(s) == {MutexOf(s[i]) : i \in DOMAIN s} \ {NoMutex}

LEMMA HeldAfterPush ==
  ASSUME NEW s \in Seq(Call), NEW c \in Call
  PROVE  HeldBy(Append(s, c)) \subseteq HeldBy(s) \cup ({MutexOf(c)} \ {NoMutex})
<1> DEFINE r == Append(s, c)
<1>1. /\ DOMAIN r = 1 .. (Len(s) + 1) /\ DOMAIN s = 1 .. Len(s) /\ Len(s) \in Nat
      /\ \A k \in 1 .. Len(s) : r[k] = s[k]
      /\ r[Len(s) + 1] = c
  BY AppendProperties
<1> HIDE DEF r
<1>2. ASSUME NEW m \in HeldBy(r) PROVE m \in HeldBy(s) \cup ({MutexOf(c)} \ {NoMutex})
  <2>1. PICK k \in 1 .. (Len(s) + 1) : m = MutexOf(r[k])
    BY <1>1, <1>2 DEF HeldBy
  <2>2. m # NoMutex
    BY <1>2 DEF HeldBy
  <2>3. CASE k = Len(s) + 1
    BY <1>1, <2>1, <2>2, <2>3
  <2>4. CASE k \in 1 .. Len(s)
    BY <1>1, <2>1, <2>2, <2>4 DEF HeldBy
  <2> QED BY <1>1, <2>1, <2>3, <2>4
<1> QED BY <1>2 DEF r

LEMMA HeldAfterPop ==
  ASSUME NEW s \in Seq(Call), s # <<>>, StackOK(s)
  PROVE  HeldBy(SubSeq(s, 1, Len(s) - 1)) \subseteq HeldBy(s)
<1> DEFINE r == SubSeq(s, 1, Len(s) - 1)
<1>1. r \in Seq(Call) /\ Len(r) = Len(s) - 1 /\ \A k \in 1 .. Len(r) : r[k] = s[k]
  BY Pop
<1> HIDE DEF r
<1>2. DOMAIN r = 1 .. Len(r) /\ DOMAIN s = 1 .. Len(s) /\ Len(s) \in Nat
  BY <1>1
<1>3. \A k \in DOMAIN r : k \in DOMAIN s /\ r[k] = s[k]
  BY <1>1, <1>2
<1>4. HeldBy(r) \subseteq HeldBy(s)
  BY <1>3 DEF HeldBy
<1> QED BY <1>4 DEF r

LEMMA LifeTyped ==
  ASSUME Typed, NEW c
  PROVE  Announced(c) \in [Procs -> Stages] /\ Begun(c) \in [Procs -> Stages]
<1>1. life \in [Procs -> Stages]
  BY DEF Typed
<1>2. Announced(c) \in [Procs -> Stages]
  BY <1>1 DEF Announced, Stages
<1>3. Begun(c) \in [Procs -> Stages]
  BY <1>1 DEF Begun, Stages
<1> QED BY <1>2, <1>3

\* t begins a call that fits and whose mutex is free.
LEMMA BeginKeepsOrder ==
  ASSUME Ordered, NEW t \in Threads, NEW c, FitsAt(stack[t], Len(stack[t]), c),
         Free(t, MutexOf(c)),
         stack' = [stack EXCEPT ![t] = Append(@, c)],
         next' = [next EXCEPT ![t] = NoCall],
         life' \in [Procs -> Stages]
  PROVE  Ordered'
<1>1. c \in Call
  BY DEF FitsAt, Proper
<1>2. stack[t] \in Seq(Call) /\ StackOK(stack[t])
  BY DEF Ordered, Typed
<1>3. /\ stack'[t] = Append(stack[t], c) /\ \A u \in Threads \ {t} : stack'[u] = stack[u]
      /\ next'[t] = NoCall /\ \A u \in Threads \ {t} : next'[u] = next[u]
  BY DEF Ordered, Typed
<1>4. stack'[t] \in Seq(Call) /\ StackOK(stack'[t])
  BY <1>2, <1>3, Push
<1>5. Typed'
  BY <1>3, <1>4 DEF Ordered, Typed
<1>6. ASSUME NEW u \in Threads
      PROVE  /\ StackOK(stack'[u])
             /\ next'[u] # NoCall => FitsAt(stack'[u], Len(stack'[u]), next'[u])
  BY <1>3, <1>4 DEF Ordered
<1>7. HeldBy(stack'[t]) \subseteq HeldBy(stack[t]) \cup ({MutexOf(c)} \ {NoMutex})
  BY <1>1, <1>2, <1>3, HeldAfterPush
<1>8. \A u \in Threads \ {t} :
        HeldBy(stack'[u]) = HeldBy(stack[u]) /\ MutexOf(c) \notin HeldBy(stack[u])
  <2> SUFFICES ASSUME NEW u \in Threads \ {t} PROVE MutexOf(c) \notin HeldBy(stack[u])
    BY <1>3
  <2> QED BY DEF Free, Holds, HeldBy
<1>9. \A u, v \in Threads : u # v => HeldBy(stack[u]) \cap HeldBy(stack[v]) = {}
  BY DEF Ordered, Holds, HeldBy
<1>10. \A u, v \in Threads : u # v => HeldBy(stack'[u]) \cap HeldBy(stack'[v]) = {}
  BY <1>7, <1>8, <1>9
<1>11. (\A u, v \in Threads : u # v => Holds(u) \cap Holds(v) = {})'
  BY <1>10 DEF Holds, HeldBy
<1> QED BY <1>5, <1>6, <1>11 DEF Ordered

\* The calls that t can make fit.
LEMMA NextCallFits ==
  ASSUME Ordered, NEW t \in Threads,
         NEW c \in IF stack[t] = <<>> THEN UserCalls ELSE InnerCalls(Top(t))
  PROVE  FitsAt(stack[t], Len(stack[t]), c)
<1>1. Typed /\ stack[t] \in Seq(Call) /\ StackOK(stack[t])
  BY DEF Ordered, Typed
<1>2. CASE stack[t] = <<>>
  <2>1. Proper(c) /\ c.fn \notin UnderKs
    BY <1>1, <1>2, UserCallsProper
  <2>2. 1 .. Len(stack[t]) = {}
    BY <1>2
  <2> QED BY <2>1, <2>2 DEF FitsAt
<1>3. CASE stack[t] # <<>>
  <2>1. c \in InnerCalls(stack[t][Len(stack[t])])
    BY <1>3 DEF Top
  <2> QED BY <1>1, <1>3, <2>1, InnerFits
<1> QED BY <1>2, <1>3

LEMMA InitOrdered == Init => Ordered
<1> SUFFICES ASSUME Init PROVE Ordered
  OBVIOUS
<1>1. Typed
  BY DEF Init, Typed, Stages
<1>2. ASSUME NEW t \in Threads PROVE stack[t] = <<>> /\ next[t] = NoCall /\ Holds(t) = {}
  BY DEF Init, Holds
<1>3. StackOK(<<>>)
  BY DEF StackOK
<1> QED BY <1>1, <1>2, <1>3 DEF Ordered

LEMMA MakeCallKeepsOrder ==
  ASSUME Ordered, NEW t \in Threads, MakeCall(t)
  PROVE  Ordered'
<1>1. PICK c \in IF stack[t] = <<>> THEN UserCalls ELSE InnerCalls(Top(t)) :
        \/ /\ Free(t, MutexOf(c))
           /\ stack' = [stack EXCEPT ![t] = Append(@, c)]
           /\ life' = IF c.fn \in {"KernelProcess", "eraseFromMap"} THEN Begun(c) ELSE Announced(c)
           /\ UNCHANGED next
        \/ /\ ~Free(t, MutexOf(c))
           /\ next' = [next EXCEPT ![t] = c]
           /\ life' = Announced(c)
           /\ UNCHANGED stack
  BY DEF MakeCall
<1>2. Typed /\ next[t] = NoCall
  BY DEF Ordered, MakeCall
<1>3. FitsAt(stack[t], Len(stack[t]), c)
  BY <1>1, NextCallFits
<1>4. life' \in [Procs -> Stages]
  BY <1>1, <1>2, LifeTyped
<1>5. CASE Free(t, MutexOf(c)) /\ stack' = [stack EXCEPT ![t] = Append(@, c)] /\ UNCHANGED next
  <2>1. next' = [next EXCEPT ![t] = NoCall]
    BY <1>2, <1>5 DEF Typed
  <2> QED BY <1>3, <1>4, <1>5, <2>1, BeginKeepsOrder
<1>6. CASE next' = [next EXCEPT ![t] = c] /\ UNCHANGED stack
  <2>1. c \in Call
    BY <1>3 DEF FitsAt, Proper
  <2>2. Typed'
    BY <1>2, <1>4, <1>6, <2>1 DEF Typed
  <2>3. next'[t] = c /\ \A u \in Threads \ {t} : next'[u] = next[u]
    BY <1>2, <1>6 DEF Typed
  <2>4. ASSUME NEW u \in Threads
        PROVE  /\ StackOK(stack'[u])
               /\ next'[u] # NoCall => FitsAt(stack'[u], Len(stack'[u]), next'[u])
    BY <1>3, <1>6, <2>3 DEF Ordered
  <2>5. (\A u, v \in Threads : u # v => Holds(u) \cap Holds(v) = {})'
    BY <1>6 DEF Ordered, Holds
  <2> QED BY <2>2, <2>4, <2>5 DEF Ordered
<1> QED BY <1>1, <1>5, <1>6

LEMMA TakeMutexKeepsOrder ==
  ASSUME Ordered, NEW t \in Threads, TakeMutex(t)
  PROVE  Ordered'
<1>1. FitsAt(stack[t], Len(stack[t]), next[t]) /\ Free(t, MutexOf(next[t]))
  BY DEF TakeMutex, Ordered
<1>2. life' \in [Procs -> Stages]
  BY LifeTyped DEF TakeMutex, Ordered
<1> QED BY <1>1, <1>2, BeginKeepsOrder DEF TakeMutex

LEMMA ReturnKeepsOrder ==
  ASSUME Ordered, NEW t \in Threads, Return(t)
  PROVE  Ordered'
<1>1. Typed /\ stack[t] \in Seq(Call) /\ stack[t] # <<>> /\ StackOK(stack[t]) /\ next[t] = NoCall
  BY DEF Ordered, Typed, Return
<1>2. stack' = [stack EXCEPT ![t] = SubSeq(@, 1, Len(@) - 1)] /\ UNCHANGED next
  BY DEF Return
<1>3. /\ stack'[t] = SubSeq(stack[t], 1, Len(stack[t]) - 1)
      /\ \A u \in Threads \ {t} : stack'[u] = stack[u]
  BY <1>1, <1>2 DEF Typed
<1>4. stack'[t] \in Seq(Call) /\ StackOK(stack'[t])
  BY <1>1, <1>3, Pop
<1>5. life' \in [Procs -> Stages]
  BY <1>1 DEF Return, Typed, Stages
<1>6. Typed'
  BY <1>1, <1>2, <1>3, <1>4, <1>5 DEF Typed
<1>7. ASSUME NEW u \in Threads
      PROVE  /\ StackOK(stack'[u])
             /\ next'[u] # NoCall => FitsAt(stack'[u], Len(stack'[u]), next'[u])
  BY <1>1, <1>2, <1>3, <1>4 DEF Ordered
<1>8. HeldBy(stack'[t]) \subseteq HeldBy(stack[t])
  BY <1>1, <1>3, HeldAfterPop
<1>9. \A u, v \in Threads : u # v => HeldBy(stack[u]) \cap HeldBy(stack[v]) = {}
  BY DEF Ordered, Holds, HeldBy
<1>10. \A u, v \in Threads : u # v => HeldBy(stack'[u]) \cap HeldBy(stack'[v]) = {}
  BY <1>3, <1>8, <1>9
<1>11. (\A u, v \in Threads : u # v => Holds(u) \cap Holds(v) = {})'
  BY <1>10 DEF Holds, HeldBy
<1> QED BY <1>6, <1>7, <1>11 DEF Ordered

\* In every state, each thread has taken its mutexes in the one order, and no
\* mutex is held twice.
THEOREM OrderKept == Spec => []Ordered
<1>1. Init => Ordered
  BY InitOrdered
<1>2. Ordered /\ [Next]_vars => Ordered'
  <2> SUFFICES ASSUME Ordered, [Next]_vars PROVE Ordered'
    OBVIOUS
  <2>1. ASSUME NEW t \in Threads, MakeCall(t) PROVE Ordered'
    BY <2>1, MakeCallKeepsOrder
  <2>2. ASSUME NEW t \in Threads, TakeMutex(t) PROVE Ordered'
    BY <2>2, TakeMutexKeepsOrder
  <2>3. ASSUME NEW t \in Threads, Return(t) PROVE Ordered'
    BY <2>3, ReturnKeepsOrder
  <2>4. CASE UNCHANGED vars
    <3>1. stack' = stack /\ next' = next /\ life' = life
      BY <2>4 DEF vars
    <3>2. Typed'
      BY <3>1 DEF Ordered, Typed
    <3>4. \A t \in Threads : Holds(t)' = Holds(t)
      BY <3>1 DEF Holds
    <3>5. (\A t, u \in Threads : t # u => Holds(t) \cap Holds(u) = {})'
      BY <3>4 DEF Ordered
    <3>3. ASSUME NEW t \in Threads
          PROVE  /\ StackOK(stack'[t])
                 /\ next'[t] # NoCall => FitsAt(stack'[t], Len(stack'[t]), next'[t])
      BY <3>1 DEF Ordered
    <3> QED BY <3>2, <3>3, <3>5 DEF Ordered
  <2> QED BY <2>1, <2>2, <2>3, <2>4 DEF Next
<1> QED BY <1>1, <1>2, PTL DEF Spec

\* Threads are in calls of the program, and none that works on a process runs for
\* pid 0: a clone is used only where cloneProcess has made one.  It says nothing
\* of the stage the process is in, which is LivesKept.
THEOREM TypeCorrect == Spec => []TypeOK
<1>1. Ordered => TypeOK
  <2> SUFFICES ASSUME Ordered PROVE TypeOK
    OBVIOUS
  <2>1. ASSUME NEW t \in Threads, NEW i \in DOMAIN stack[t], stack[t][i].fn \in NeedsProcess
        PROVE  stack[t][i].of \in Procs
    <3>1. stack[t] \in Seq(Call) /\ StackOK(stack[t]) /\ i \in 1 .. Len(stack[t])
      BY <2>1 DEF Ordered, Typed
    <3>2. Proper(stack[t][i])
      BY <3>1 DEF StackOK, FitsAt
    <3> QED BY <2>1, <3>2 DEF Proper, OfProcess
  <2> QED BY <2>1 DEF Ordered, Typed, TypeOK
<1> QED BY <1>1, OrderKept, PTL

---------------------------------------------------------------------------
(* Rounds.                                                                 *)

LEMMA UnderKsHolds ==
  ASSUME Ordered, NEW t \in Threads, NEW i \in DOMAIN stack[t], stack[t][i].fn \in UnderKs
  PROVE  ksMutex \in Holds(t)
<1>1. stack[t] \in Seq(Call) /\ StackOK(stack[t]) /\ i \in 1 .. Len(stack[t])
  BY DEF Ordered, Typed
<1>2. PICK k \in 1 .. (i - 1) : MutexOf(stack[t][k]) = ksMutex
  BY <1>1 DEF StackOK, FitsAt
<1>3. k \in DOMAIN stack[t]
  BY <1>1, <1>2
<1>4. ksMutex # NoMutex
  BY DEF ksMutex, Mutex, NoMutex
<1> QED BY <1>2, <1>3, <1>4 DEF Holds

\* Two threads under ksMutex would both hold it: while one is in a round of
\* processThrashing, no other changes an access history or processMap.
THEOREM RoundsAlone == Spec => []RoundAlone
<1>1. Ordered => RoundAlone
  <2> SUFFICES ASSUME Ordered, NEW t \in Threads, NEW u \in Threads, t # u,
                      Inside(t, {"processThrashing"}),
                      Inside(u, {"processThrashing", "access", "KernelProcess", "~KernelProcess"})
               PROVE  FALSE
    BY DEF RoundAlone
  <2>1. ksMutex \in Holds(t)
    BY UnderKsHolds DEF Inside, UnderKs
  <2>2. ksMutex \in Holds(u)
    BY UnderKsHolds DEF Inside, UnderKs
  <2> QED BY <2>1, <2>2 DEF Ordered
<1> QED BY <1>1, OrderKept, PTL

---------------------------------------------------------------------------
(* Circles.                                                                *)

LEMMA SameMutexSameRank ==
  ASSUME NEW c, NEW d, Proper(c), Proper(d), MutexOf(c) = MutexOf(d), MutexOf(c) # NoMutex
  PROVE  RankOf(c) = RankOf(d)
<1> DEFINE k == MutexOf(c).mutex
<1>1. \/ k = "globalMutex" /\ RankOf(c) = 1
      \/ k = "ksMutex" /\ RankOf(c) = 2
      \/ k = "kpMutex" /\ RankOf(c) = 2 + MutexOf(c).of
      \/ k = "myMutex" /\ RankOf(c) = NumProcs + 3
      \/ k = "framesMutex" /\ RankOf(c) = NumProcs + 4
      \/ k \in {"thrashingMutex"} \cup allocatorFunctions /\ RankOf(c) = NumProcs + 5
  BY Classes, SMTT(60) DEF Mutex, ksMutex
<1>2. \/ k = "globalMutex" /\ RankOf(d) = 1
      \/ k = "ksMutex" /\ RankOf(d) = 2
      \/ k = "kpMutex" /\ RankOf(d) = 2 + MutexOf(c).of
      \/ k = "myMutex" /\ RankOf(d) = NumProcs + 3
      \/ k = "framesMutex" /\ RankOf(d) = NumProcs + 4
      \/ k \in {"thrashingMutex"} \cup allocatorFunctions /\ RankOf(d) = NumProcs + 5
  BY Classes, SMTT(60) DEF Mutex, ksMutex
<1> HIDE DEF k
<1> QED BY <1>1, <1>2, SMTT(60) DEF allocatorFunctions

LEMMA SameRankSameMutex ==
  ASSUME NEW c, NEW d, Proper(c), Proper(d), MutexOf(c) # NoMutex, MutexOf(d) # NoMutex,
         RankOf(c) = RankOf(d), RankOf(c) <= NumProcs + 4
  PROVE  MutexOf(c) = MutexOf(d)
<1> USE NumProcsAssumption DEF Procs, Pids
<1>1. /\ c.fn \in kpMutexFunctions => c.of \in Procs
      /\ d.fn \in kpMutexFunctions => d.of \in Procs
  BY DEF Proper, OfProcess, NeedsProcess
<1>2. \/ MutexOf(c) = Mutex("globalMutex", 0) /\ RankOf(c) = 1
      \/ MutexOf(c) = ksMutex /\ RankOf(c) = 2
      \/ \E p \in Procs : MutexOf(c) = Mutex("kpMutex", p) /\ RankOf(c) = 2 + p
      \/ MutexOf(c) = Mutex("myMutex", 0) /\ RankOf(c) = NumProcs + 3
      \/ MutexOf(c) = Mutex("framesMutex", 0) /\ RankOf(c) = NumProcs + 4
  BY <1>1, Classes, SMTT(60)
<1>3. \/ MutexOf(d) = Mutex("globalMutex", 0) /\ RankOf(d) = 1
      \/ MutexOf(d) = ksMutex /\ RankOf(d) = 2
      \/ \E p \in Procs : MutexOf(d) = Mutex("kpMutex", p) /\ RankOf(d) = 2 + p
      \/ MutexOf(d) = Mutex("myMutex", 0) /\ RankOf(d) = NumProcs + 3
      \/ MutexOf(d) = Mutex("framesMutex", 0) /\ RankOf(d) = NumProcs + 4
  BY <1>1, Classes, SMTT(60)
<1> QED BY <1>2, <1>3, SMTT(60)

\* A call takes a mutex at or above its ceiling, except to change processMap.
LEMMA RankAboveCeil ==
  ASSUME NEW c, Proper(c), MutexOf(c) # NoMutex, c.fn # "eraseFromMap"
  PROVE  /\ Ceil(c) <= RankOf(c)
         /\ ~Recursive(MutexOf(c)) \/ RankOf(c) = NumProcs + 5 => Ceil(c) < RankOf(c)
<1> USE DEF ksMutexFunctions, kpMutexFunctions, myMutexFunctions, framesMutexFunctions,
     thrashingMutexFunctions, allocatorFunctions, unlockedFunctions, OfProcess, NeedsProcess
<1> USE NumProcsAssumption DEF Procs, Pids
<1>1. c.of \in Pids /\ (c.fn \in kpMutexFunctions => c.of \in Procs)
  BY DEF Proper, Call
<1>2. CASE c.fn = "doInstruction"
  BY <1>1, <1>2, Classes, Ceilings, SMTT(60)
<1>3. CASE c.fn \in ksMutexFunctions
  <2>1. RankOf(c) = 2 /\ MutexOf(c) = ksMutex
    BY <1>3, Classes, SMTT(60)
  <2>2. Ceil(c) \in {0, 1, 2}
    BY <1>3, Ceilings, SMTT(60)
  <2>3. Recursive(MutexOf(c))
    BY <2>1 DEF Recursive, ksMutex, Mutex
  <2> QED BY <2>1, <2>2, <2>3
<1>4. CASE c.fn \in kpMutexFunctions
  <2>1. RankOf(c) = 2 + c.of /\ MutexOf(c) = Mutex("kpMutex", c.of)
    BY <1>4, Classes, SMTT(60)
  <2>2. Ceil(c) \in {2, 2 + c.of}
    BY <1>4, Ceilings, SMTT(60)
  <2>3. Recursive(MutexOf(c))
    BY <2>1 DEF Recursive, Mutex
  <2> QED BY <1>1, <1>4, <2>1, <2>2, <2>3
<1>5. CASE c.fn \in myMutexFunctions \cup framesMutexFunctions
  <2>1. /\ MutexOf(c) \in {Mutex("myMutex", 0), Mutex("framesMutex", 0)}
        /\ \/ RankOf(c) = NumProcs + 3 /\ Ceil(c) = NumProcs + 3
           \/ RankOf(c) = NumProcs + 4 /\ Ceil(c) = NumProcs + 4
    BY <1>5, Classes, Ceilings, SMTT(60)
  <2>2. Recursive(MutexOf(c))
    BY <2>1 DEF Recursive, Mutex
  <2> QED BY <2>1, <2>2
<1>6. CASE c.fn \in thrashingMutexFunctions \cup allocatorFunctions
  <2>1. RankOf(c) = NumProcs + 5 /\ Ceil(c) = NumProcs + 4
    BY <1>6, Classes, Ceilings, SMTT(60)
  <2> QED BY <2>1
<1> QED BY <1>2, <1>3, <1>4, <1>5, <1>6, Classes

\* A thread that waits for a mutex does not hold it.
LEMMA NotHeldByWaiter ==
  ASSUME Ordered, NEW t \in Threads, next[t] # NoCall, ~Free(t, MutexOf(next[t]))
  PROVE  MutexOf(next[t]) # NoMutex /\ MutexOf(next[t]) \notin Holds(t)
<1> USE DEF ksMutexFunctions, kpMutexFunctions, myMutexFunctions, framesMutexFunctions,
     thrashingMutexFunctions, allocatorFunctions, unlockedFunctions, OfProcess, NeedsProcess
<1> DEFINE c == next[t]
           m == MutexOf(c)
<1>1. /\ stack[t] \in Seq(Call) /\ StackOK(stack[t])
      /\ FitsAt(stack[t], Len(stack[t]), c)
  BY DEF Ordered, Typed
<1>2. Proper(c)
  BY <1>1 DEF FitsAt
<1>3. m # NoMutex
  BY DEF Free
<1> SUFFICES ASSUME m \in Holds(t) PROVE FALSE
  BY <1>3
<1>4. \A u \in Threads : m \in Holds(u) => u = t
  BY DEF Ordered
<1>5. ~Recursive(m)
  BY <1>4 DEF Free
<1>6. PICK k \in 1 .. Len(stack[t]) : MutexOf(stack[t][k]) = m
  BY <1>1 DEF Holds
<1>7. Proper(stack[t][k])
  BY <1>1 DEF StackOK, FitsAt
<1>8. RankOf(stack[t][k]) = RankOf(c)
  BY <1>2, <1>3, <1>6, <1>7, SameMutexSameRank
<1>9. RankOf(c) <= Ceil(c)
  BY <1>1, <1>8 DEF FitsAt
<1>10. c.fn # "eraseFromMap"
  <2> SUFFICES ASSUME c.fn = "eraseFromMap" PROVE Recursive(m)
    BY <1>5
  <2>1. m = ksMutex
    BY <1>2, Classes, SMTT(60)
  <2> QED BY <2>1 DEF Recursive, ksMutex, Mutex
<1>11. Ceil(c) < RankOf(c)
  BY <1>2, <1>3, <1>5, <1>10, RankAboveCeil
<1>12. RankOf(c) \in Nat /\ Ceil(c) \in Nat
  BY <1>2, RankTypes
<1> QED BY <1>9, <1>11, <1>12

\* If t waits for a mutex that u holds, and u waits as well, u waits for a
\* mutex of a higher rank.
LEMMA WaitsForHigher ==
  ASSUME Ordered, NEW t \in Threads, NEW u \in Threads,
         next[t] # NoCall, ~Free(t, MutexOf(next[t])), MutexOf(next[t]) \in Holds(u),
         next[u] # NoCall, ~Free(u, MutexOf(next[u]))
  PROVE  RankOf(next[t]) < RankOf(next[u])
<1> USE DEF ksMutexFunctions, kpMutexFunctions, myMutexFunctions, framesMutexFunctions,
     thrashingMutexFunctions, allocatorFunctions, unlockedFunctions, OfProcess, NeedsProcess
<1> DEFINE c == next[t]
           d == next[u]
<1>1. /\ stack[u] \in Seq(Call) /\ StackOK(stack[u])
      /\ FitsAt(stack[t], Len(stack[t]), c)
      /\ FitsAt(stack[u], Len(stack[u]), d)
  BY DEF Ordered, Typed
<1>2. Proper(c) /\ Proper(d)
  BY <1>1 DEF FitsAt
<1>3. MutexOf(c) # NoMutex /\ MutexOf(d) # NoMutex /\ MutexOf(d) \notin Holds(u)
  BY NotHeldByWaiter
<1>4. PICK k \in 1 .. Len(stack[u]) : MutexOf(stack[u][k]) = MutexOf(c)
  BY <1>1 DEF Holds
<1>5. Proper(stack[u][k])
  BY <1>1 DEF StackOK, FitsAt
<1>6. RankOf(stack[u][k]) = RankOf(c)
  BY <1>2, <1>3, <1>4, <1>5, SameMutexSameRank
<1>7. RankOf(c) <= Ceil(d)
  BY <1>1, <1>6 DEF FitsAt
<1>8. d.fn # "eraseFromMap"
  <2> SUFFICES ASSUME d.fn = "eraseFromMap" PROVE FALSE
    OBVIOUS
  <2>1. MutexOf(d) = ksMutex
    BY <1>2, Classes, SMTT(60)
  <2>2. PICK j \in 1 .. Len(stack[u]) : MutexOf(stack[u][j]) = ksMutex
    BY <1>1 DEF FitsAt, UnderKs
  <2>3. j \in DOMAIN stack[u]
    BY <1>1, <2>2
  <2> QED BY <1>3, <2>1, <2>2, <2>3 DEF Holds
<1>9. /\ Ceil(d) <= RankOf(d)
      /\ RankOf(d) = NumProcs + 5 => Ceil(d) < RankOf(d)
  BY <1>2, <1>3, <1>8, RankAboveCeil
<1>10. /\ RankOf(c) \in Nat /\ RankOf(d) \in Nat /\ Ceil(d) \in Nat
       /\ RankOf(d) <= NumProcs + 5
  BY <1>2, RankTypes
<1>11. RankOf(c) # RankOf(d)
  <2> SUFFICES ASSUME RankOf(c) = RankOf(d) PROVE FALSE
    OBVIOUS
  <2>1. RankOf(c) <= NumProcs + 4
    BY <1>7, <1>9, <1>10, NumProcsAssumption
  <2>2. MutexOf(c) = MutexOf(d)
    BY <1>2, <1>3, <2>1, SameRankSameMutex
  <2> QED BY <1>3, <2>2
<1> QED BY <1>7, <1>9, <1>10, <1>11

\* No threads wait in a circle.  Of those that would, take one that waits for
\* a mutex of the highest rank: the thread that holds it waits for a higher one.
THEOREM NoThreadsWaitInACircle == Spec => []NoCircularWait
<1>1. Ordered => NoCircularWait
  <2> SUFFICES ASSUME Ordered, NEW S \in SUBSET Threads, S # {},
                      \A t \in S : /\ next[t] # NoCall
                                   /\ \E u \in S : MutexOf(next[t]) \in Holds(u)
                                   /\ ~Free(t, MutexOf(next[t]))
               PROVE  FALSE
    BY DEF NoCircularWait
  <2> DEFINE Gap(t) == NumProcs + 5 - RankOf(next[t])
             Gaps == {Gap(t) : t \in S}
  <2>1. ASSUME NEW t \in S PROVE Gap(t) \in Nat /\ RankOf(next[t]) \in Nat
    <3>1. Proper(next[t])
      BY DEF Ordered, FitsAt
    <3>2. RankOf(next[t]) \in Nat /\ RankOf(next[t]) <= NumProcs + 5
      BY <3>1, RankTypes
    <3> QED BY <3>2, NumProcsAssumption
  <2>2. Gaps \subseteq Nat /\ Gaps # {}
    BY <2>1
  <2>3. PICK x \in Gaps : \A y \in Gaps : ~(<<y, x>> \in OpToRel(<, Nat))
    <3> HIDE DEF Gaps
    <3> QED BY <2>2, WFMin, NatLessThanWellFounded, Zenon
  <2>4. \A y \in Gaps : ~(y < x)
    BY <2>2, <2>3, Zenon DEF OpToRel
  <2>5. PICK t \in S : x = Gap(t)
    OBVIOUS
  <2>6. PICK u \in S : MutexOf(next[t]) \in Holds(u)
    OBVIOUS
  <2>7. RankOf(next[t]) < RankOf(next[u])
    BY <2>6, WaitsForHigher
  <2>8. Gap(u) < Gap(t)
    BY <2>1, <2>7, NumProcsAssumption
  <2> QED BY <2>4, <2>5, <2>8
<1> QED BY <1>1, OrderKept, PTL

---------------------------------------------------------------------------
(* The lives of processes.  The first call of a thread says what it may do *)
(* to a process: use it, delete it, or make it.  Only one thread at a time *)
(* deletes or makes a process, and none uses it meanwhile; all others look *)
(* for it in processMap under ksMutex, without which it is not removed.    *)

UserFunctions ==
  ProcessFunctions \cup {"periodicJob", "systemAccess", "createProcess", "cloneProcess", "clone",
                         "destroyKernelProcess"}
LifeFunctions ==
  {"createKernelProcess", "KernelProcess", "destroyKernelProcess", "~KernelProcess",
   "eraseFromMap"}
\* The functions a thread can be in when the process it made or deletes is dead
Ending == {"cloneProcess", "clone", "destroyKernelProcess", "~KernelProcess", "eraseFromMap"}
Known == {"made", "used", "dying"}

Uses(c, p)    == c.fn \in ProcessFunctions \cup {"clone"} /\ c.of = p
Deletes(c, p) == c.fn = "destroyKernelProcess" /\ c.of = p
Makes(c, p)   == c.child = p /\ p # 0
Ends(c, p)    == Deletes(c, p) \/ Makes(c, p)

\* The calls a thread is in, the one it waits for included
Chain(t) == IF next[t] = NoCall THEN stack[t] ELSE Append(stack[t], next[t])

\* The first call of s is the user's, each other is one its caller makes.
Linked(s) ==
  \A i \in 1 .. Len(s) :
    /\ s[i].child = s[1].child
    /\ i = 1 => s[1].fn \in UserFunctions
    /\ i = 1 /\ s[1].child # 0 => s[1].fn \in {"createProcess", "cloneProcess", "clone"}
    /\ i # 1 => s[i].fn \in Calls(s[i - 1].fn)

\* The call c at i of s has to do with its process because of the first call, or
\* has found it in processMap, with the stages l.
Justified(s, i, c, l) ==
  /\ c.fn \in LifeFunctions => Ends(s[1], c.of)
  /\ c.fn \in OfProcess =>
       \/ Uses(s[1], c.of) \/ Ends(s[1], c.of)
       \/ l[c.of] \in Known /\ \E k \in 1 .. i - 1 : MutexOf(s[k]) = ksMutex

\* The stages l of the processes that a thread with chain s uses, deletes or
\* makes while it waits for n
Staged(s, n, l) ==
  \A p \in Procs :
    /\ Uses(s[1], p) => l[p] = "used"
    /\ Deletes(s[1], p) => l[p] \in {"dying", "dead"}
    /\ Makes(s[1], p) => l[p] \in {"reserved", "made", "dying", "dead"}
    /\ Makes(s[1], p) /\ l[p] = "dying" =>
         \E i \in 1 .. Len(s) : s[i].fn = "destroyKernelProcess"
    /\ Ends(s[1], p) /\ l[p] = "dead" =>
         n = NoCall /\ \A i \in 1 .. Len(s) : s[i].fn \in Ending
    /\ n # NoCall /\ n.fn = "KernelProcess" /\ n.of = p => l[p] = "reserved"

ThreadOK(s, n, l) ==
  /\ Linked(s)
  /\ \A i \in 1 .. Len(s) : Justified(s, i, s[i], l)
  /\ Staged(s, n, l)

\* The inductive invariant, beside Ordered
Lives ==
  /\ \A t \in Threads : Chain(t) # <<>> => ThreadOK(Chain(t), next[t], life)
  /\ \A t, u \in Threads : t # u /\ Chain(t) # <<>> /\ Chain(u) # <<>> =>
       \A p \in Procs : ~(Ends(Chain(t)[1], p) /\ Ends(Chain(u)[1], p))

\* A chain is the stack, and after it the call that is waited for.
LEMMA ChainIs ==
  ASSUME Ordered, NEW t \in Threads
  PROVE  /\ Chain(t) \in Seq(Call) /\ Len(Chain(t)) \in Nat
         /\ \A i \in 1 .. Len(Chain(t)) : Proper(Chain(t)[i])
         /\ stack[t] \in Seq(Call) /\ Len(stack[t]) \in Nat
         /\ \A i \in 1 .. Len(stack[t]) : Chain(t)[i] = stack[t][i]
         /\ next[t] = NoCall => Chain(t) = stack[t]
         /\ next[t] # NoCall => /\ Len(Chain(t)) = Len(stack[t]) + 1
                                /\ Chain(t)[Len(stack[t]) + 1] = next[t]
<1>1. /\ stack[t] \in Seq(Call) /\ next[t] \in Call \cup {NoCall}
      /\ \A i \in 1 .. Len(stack[t]) : Proper(stack[t][i])
      /\ next[t] # NoCall => Proper(next[t])
  BY DEF Ordered, Typed, StackOK, FitsAt
<1>2. CASE next[t] = NoCall
  BY <1>1, <1>2 DEF Chain
<1>3. CASE next[t] # NoCall
  <2>1. /\ Chain(t) \in Seq(Call) /\ Len(Chain(t)) = Len(stack[t]) + 1
        /\ \A i \in 1 .. Len(stack[t]) : Chain(t)[i] = stack[t][i]
        /\ Chain(t)[Len(stack[t]) + 1] = next[t]
    BY <1>1, <1>3, AppendProperties DEF Chain
  <2>2. ASSUME NEW i \in 1 .. Len(Chain(t)) PROVE Proper(Chain(t)[i])
    BY <1>1, <1>3, <2>1
  <2> QED BY <1>1, <1>3, <2>1, <2>2
<1> QED BY <1>2, <1>3

\* A thread ends at most one process.
LEMMA EndsOne ==
  ASSUME NEW s \in Seq(Call), s # <<>>, Linked(s), NEW p, NEW q,
         Ends(s[1], p), Ends(s[1], q)
  PROVE  p = q
<1>1. 1 \in 1 .. Len(s)
  OBVIOUS
<1>2. s[1].child # 0 => s[1].fn # "destroyKernelProcess"
  BY <1>1 DEF Linked
<1> QED BY <1>2 DEF Ends, Deletes, Makes

\* What a call at the end of a process's life was made from.
LEMMA CallersAtTheEnd ==
  ASSUME NEW f, NEW g \in Calls(f)
  PROVE  /\ g \notin {"createProcess", "cloneProcess"}
         /\ g = "clone" => f = "cloneProcess"
         /\ g = "destroyKernelProcess" => f = "clone"
         /\ g = "~KernelProcess" => f = "destroyKernelProcess"
         /\ g = "eraseFromMap" => f = "~KernelProcess"
         /\ g = "createKernelProcess" => f \in {"createProcess", "clone"}
         /\ g = "KernelProcess" => f = "createKernelProcess"
         /\ f # "eraseFromMap"
BY Edges, SMTT(60) DEF OfProcess, NeedsProcess, kpMutexFunctions, thrashingMutexFunctions,
   myMutexFunctions, framesMutexFunctions, allocatorFunctions

\* Below the removal of a process from processMap are only the calls that end it.
LEMMA EraseAtTheEnd ==
  ASSUME NEW s \in Seq(Call), Linked(s), NEW i \in 1 .. Len(s), s[i].fn = "eraseFromMap"
  PROVE  \A k \in 1 .. i : s[k].fn \in Ending
<1>1. \A k \in 1 .. Len(s) : /\ k = 1 => s[k].fn \in UserFunctions
                             /\ k # 1 => k - 1 \in 1 .. Len(s) /\ s[k].fn \in Calls(s[k - 1].fn)
  BY DEF Linked
<1>2. \A k \in 1 .. Len(s) : k = 1 => s[k].fn \notin {"~KernelProcess", "eraseFromMap"}
  BY <1>1, SMTT(60) DEF UserFunctions, ProcessFunctions
<1>3. i # 1 /\ i - 1 \in 1 .. Len(s) /\ s[i - 1].fn = "~KernelProcess"
  BY <1>1, <1>2, CallersAtTheEnd
<1>4. i - 1 # 1 /\ i - 2 \in 1 .. Len(s) /\ s[i - 2].fn = "destroyKernelProcess"
  <2>1. i - 1 # 1 /\ (i - 1) - 1 \in 1 .. Len(s) /\ s[(i - 1) - 1].fn = "destroyKernelProcess"
    BY <1>1, <1>2, <1>3, CallersAtTheEnd
  <2> QED BY <2>1
<1>5. CASE i - 2 = 1
  BY <1>3, <1>4, <1>5 DEF Ending
<1>6. CASE i - 2 # 1
  <2>1. i - 3 \in 1 .. Len(s) /\ s[i - 3].fn = "clone"
    <3>1. (i - 2) - 1 \in 1 .. Len(s) /\ s[(i - 2) - 1].fn = "clone"
      BY <1>1, <1>4, <1>6, CallersAtTheEnd
    <3> QED BY <3>1
  <2>2. CASE i - 3 = 1
    BY <1>3, <1>4, <2>1, <2>2 DEF Ending
  <2>3. CASE i - 3 # 1
    <3>1. i - 4 \in 1 .. Len(s) /\ s[i - 4].fn = "cloneProcess"
      <4>1. (i - 3) - 1 \in 1 .. Len(s) /\ s[(i - 3) - 1].fn = "cloneProcess"
        BY <1>1, <2>1, <2>3, CallersAtTheEnd
      <4> QED BY <4>1
    <3>2. i - 4 = 1
      BY <1>1, <3>1, CallersAtTheEnd
    <3> QED BY <1>3, <1>4, <2>1, <3>1, <3>2 DEF Ending
  <2> QED BY <2>2, <2>3
<1> QED BY <1>5, <1>6

\* A thread is not disturbed by a step of another that changes the stage of one
\* process p, which the thread neither uses nor ends, and takes p out of
\* processMap only while the thread is not under ksMutex.
LEMMA OthersKept ==
  ASSUME Ordered, NEW u \in Threads, Chain(u) # <<>>, ThreadOK(Chain(u), next[u], life),
         NEW l, NEW p \in Procs,
         \A q \in Procs \ {p} : l[q] = life[q],
         ~Uses(Chain(u)[1], p), ~Ends(Chain(u)[1], p),
         life[p] \in Known => l[p] \in Known \/ ksMutex \notin Holds(u)
  PROVE  ThreadOK(Chain(u), next[u], l)
<1> DEFINE s == Chain(u)
<1>1. /\ s \in Seq(Call) /\ Len(s) \in Nat /\ Len(s) # 0
      /\ \A i \in 1 .. Len(s) : Proper(s[i])
      /\ stack[u] \in Seq(Call) /\ Len(stack[u]) \in Nat
      /\ Len(s) <= Len(stack[u]) + 1
      /\ \A i \in 1 .. Len(stack[u]) : s[i] = stack[u][i]
  BY ChainIs
<1>2. Linked(s) /\ Staged(s, next[u], life)
  BY DEF ThreadOK
<1>3. ASSUME NEW i \in 1 .. Len(s) PROVE Justified(s, i, s[i], l)
  <2>1. Justified(s, i, s[i], life)
    BY <1>3 DEF ThreadOK
  <2>2. ASSUME NEW k \in 1 .. i - 1, MutexOf(s[k]) = ksMutex PROVE ksMutex \in Holds(u)
    <3>1. k \in DOMAIN stack[u] /\ s[k] = stack[u][k]
      BY <1>1, <1>3
    <3>2. ksMutex # NoMutex
      BY DEF ksMutex, Mutex, NoMutex
    <3> QED BY <2>2, <3>1, <3>2 DEF Holds
  <2>3. s[i].fn \in OfProcess => s[i].of \in Procs
    BY <1>1, <1>3 DEF Proper
  <2> HIDE DEF s
  <2>4. s[i].of = p => l[p] \in Known \/ ~(life[p] \in Known) \/ ksMutex \notin Holds(u)
    OBVIOUS
  <2> QED BY <2>1, <2>2, <2>3, <2>4 DEF Justified
<1>4. Staged(s, next[u], l)
  <2>1. next[u] # NoCall /\ next[u].fn = "KernelProcess" => next[u].of # p
    <3> SUFFICES ASSUME next[u] # NoCall, next[u].fn = "KernelProcess" PROVE next[u].of # p
      OBVIOUS
    <3>1. Len(s) \in 1 .. Len(s) /\ s[Len(s)] = next[u]
      BY <1>1, ChainIs
    <3>2. Ends(s[1], next[u].of)
      BY <3>1 DEF ThreadOK, Justified, LifeFunctions
    <3> QED BY <3>2
  <2> HIDE DEF s
  <2>2. ~Uses(s[1], p) /\ ~Deletes(s[1], p) /\ ~Makes(s[1], p)
    BY DEF Ends, s
  <2> QED BY <1>2, <2>1, <2>2 DEF Staged, Ends
<1> QED BY <1>2, <1>3, <1>4 DEF ThreadOK

\* r is s with the call d after it.
Longer(s, r, d) ==
  /\ r \in Seq(Call) /\ Len(r) = Len(s) + 1
  /\ \A i \in 1 .. Len(s) : r[i] = s[i]
  /\ r[Len(s) + 1] = d

\* A call that t makes in a call is linked to the others.
LEMMA PushLinked ==
  ASSUME NEW s \in Seq(Call), s # <<>>, Linked(s), NEW d \in InnerCalls(s[Len(s)]),
         NEW r, Longer(s, r, d)
  PROVE  Linked(r)
<1>1. /\ Len(s) \in Nat /\ Len(s) \in 1 .. Len(s) /\ 1 \in 1 .. Len(s)
      /\ r[1] = s[1] /\ Len(r) = Len(s) + 1
  BY DEF Longer
<1>2. d.fn \in Calls(s[Len(s)].fn) /\ d.child = s[Len(s)].child
  BY Callee
<1>3. s[Len(s)].child = s[1].child
  BY <1>1 DEF Linked
<1>4. ASSUME NEW i \in 1 .. Len(s)
      PROVE  /\ r[i].child = r[1].child
             /\ i = 1 => r[1].fn \in UserFunctions
             /\ i = 1 /\ r[1].child # 0 => r[1].fn \in {"createProcess", "cloneProcess", "clone"}
             /\ i # 1 => r[i].fn \in Calls(r[i - 1].fn)
  <2>1. r[i] = s[i] /\ (i # 1 => r[i - 1] = s[i - 1])
    BY DEF Longer
  <2> QED BY <1>1, <2>1 DEF Linked
<1>5. /\ r[Len(s) + 1].child = r[1].child /\ Len(s) + 1 # 1
      /\ r[Len(s) + 1].fn \in Calls(r[(Len(s) + 1) - 1].fn)
  BY <1>1, <1>2, <1>3 DEF Longer
<1>6. \A i \in 1 .. Len(r) : i \in 1 .. Len(s) \/ i = Len(s) + 1
  BY <1>1
<1> QED BY <1>4, <1>5, <1>6 DEF Linked

\* It has to do with its process for the reason its caller has, or finds it.
LEMMA PushJustified ==
  ASSUME Ordered, NEW t \in Threads, next[t] = NoCall, stack[t] # <<>>,
         ThreadOK(stack[t], NoCall, life),
         NEW d \in InnerCalls(Top(t)), NEW r, Longer(stack[t], r, d)
  PROVE  \A i \in 1 .. Len(r) : Justified(r, i, r[i], life)
<1> DEFINE s == stack[t]
           c == s[Len(s)]
<1>1. /\ s \in Seq(Call) /\ Len(s) \in Nat /\ Len(s) \in 1 .. Len(s) /\ 1 \in 1 .. Len(s)
      /\ Proper(c) /\ Typed
  <2>1. s \in Seq(Call) /\ Len(s) \in Nat /\ Len(s) \in 1 .. Len(s) /\ 1 \in 1 .. Len(s)
    BY DEF Ordered, Typed
  <2> QED BY <2>1, ChainIs DEF Ordered
<1>2. FitsAt(s, Len(s), d)
  BY NextCallFits
<1>3. d \in InnerCalls(c) /\ Proper(d)
  BY <1>2 DEF FitsAt, Top
<1>4. /\ d.fn \in Calls(c.fn) /\ Reached(c, d.fn) /\ d.of \in Target(c, d.fn)
      /\ d.child = c.child
  BY <1>3, Callee
<1>5. Justified(s, Len(s), c, life) /\ Linked(s)
  BY <1>1 DEF ThreadOK
<1>6. c.child = s[1].child
  BY <1>1, <1>5 DEF Linked
<1>7. d.fn \in OfProcess => d.of \in Procs /\ d.of # 0
  BY <1>3 DEF Proper, Procs
<1>8. r[1] = s[1] /\ \A k \in 1 .. Len(s) : r[k] = s[k]
  BY <1>1 DEF Longer
<1>9. /\ d.fn \in {"createKernelProcess", "destroyKernelProcess"}
           /\ c.fn \in {"createProcess", "clone"} => d.of = c.child
      /\ c.fn \in {"systemAccess", "cloneProcess"} => d.of = c.of /\ Found(c.of)
      /\ c.fn = "processThrashing" => d.of \in processMap
      /\ c.fn \in OfProcess \cup {"~KernelProcess"} => d.of = c.of \/ d.of = c.child
      /\ c.fn \in {"createKernelProcess", "destroyKernelProcess", "~KernelProcess"} =>
           d.of = c.of
  <2>1. c.fn \in {"systemAccess", "cloneProcess"} =>
          d.fn \notin {"createKernelProcess", "KernelProcess", "cloneAllSegments", "cloneInto",
                       "destroyKernelProcess"}
    BY <1>4, Edges, SMTT(60) DEF OfProcess, NeedsProcess, kpMutexFunctions,
       thrashingMutexFunctions, myMutexFunctions, framesMutexFunctions, allocatorFunctions
  <2>2. c.fn \in OfProcess \cup {"~KernelProcess"} => c.fn # "processThrashing"
    BY DEF OfProcess, NeedsProcess, kpMutexFunctions, thrashingMutexFunctions
  <2>3. c.fn \in {"createKernelProcess", "destroyKernelProcess", "~KernelProcess"} =>
          d.fn \notin {"createKernelProcess", "cloneInto"}
    BY <1>4, Edges, SMTT(60) DEF OfProcess, NeedsProcess, kpMutexFunctions,
       thrashingMutexFunctions, myMutexFunctions, framesMutexFunctions, allocatorFunctions
  <2> HIDE DEF c
  <2>4. \/ c.fn = "processThrashing" /\ d.of \in processMap
        \/ /\ c.fn # "processThrashing"
           /\ d.fn \in {"createKernelProcess", "cloneInto"} /\ d.of = c.child
        \/ /\ c.fn = "clone" /\ d.fn = "destroyKernelProcess" /\ d.of = c.child
        \/ /\ c.fn # "processThrashing" /\ d.fn \notin {"createKernelProcess", "cloneInto"}
           /\ ~(c.fn = "clone" /\ d.fn = "destroyKernelProcess")
           /\ d.of = c.of
    <3>1. c.fn = "processThrashing" =>
            d.fn \notin {"createKernelProcess", "cloneInto", "destroyKernelProcess"}
      BY <1>4, Edges, SMTT(60) DEF OfProcess, NeedsProcess, kpMutexFunctions,
         thrashingMutexFunctions, myMutexFunctions, framesMutexFunctions, allocatorFunctions
    <3>2. d.of \in Target(c, d.fn)
      BY <1>4
    <3>3. c.fn = "processThrashing" => Target(c, d.fn) = processMap
      BY <3>1 DEF Target
    <3>4. c.fn # "processThrashing" /\ d.fn \in {"createKernelProcess", "cloneInto"} =>
            Target(c, d.fn) = {c.child}
      BY DEF Target
    <3>5. c.fn = "clone" /\ d.fn = "destroyKernelProcess" => Target(c, d.fn) = {c.child}
      BY DEF Target
    <3>6. ASSUME c.fn # "processThrashing", d.fn \notin {"createKernelProcess", "cloneInto"},
                 ~(c.fn = "clone" /\ d.fn = "destroyKernelProcess")
          PROVE  Target(c, d.fn) = {c.of}
      BY <3>6 DEF Target
    <3> HIDE DEF processMap
    <3> QED BY <3>1, <3>2, <3>3, <3>4, <3>5, <3>6
  <2>5. c.fn \in {"systemAccess", "cloneProcess"} => Found(c.of)
    BY <1>4, <2>1, SMTT(60) DEF Reached
  <2>6. d.fn = "destroyKernelProcess" => c.fn = "clone"
    BY <1>4, CallersAtTheEnd
  <2> QED BY <2>1, <2>2, <2>3, <2>4, <2>5, <2>6
<1> HIDE DEF c, s
<1>10. d.fn \in LifeFunctions => Ends(s[1], d.of)
  <2>1. CASE d.fn \in {"createKernelProcess", "destroyKernelProcess"}
    <3>1. c.fn \in {"createProcess", "clone"} /\ d.fn \in OfProcess
      BY <1>4, <2>1, CallersAtTheEnd DEF OfProcess, NeedsProcess
    <3> QED BY <1>6, <1>7, <1>9, <2>1, <3>1 DEF Ends, Makes
  <2>2. CASE d.fn \in {"KernelProcess", "~KernelProcess", "eraseFromMap"}
    <3>1. c.fn \in {"createKernelProcess", "destroyKernelProcess", "~KernelProcess"}
      BY <1>4, <2>2, CallersAtTheEnd
    <3>2. Ends(s[1], c.of)
      BY <1>5, <3>1 DEF Justified, LifeFunctions
    <3>3. d.of = c.of
      BY <1>9, <3>1
    <3> QED BY <3>2, <3>3
  <2> QED BY <2>1, <2>2 DEF LifeFunctions
<1>11. ASSUME d.fn \in OfProcess
       PROVE  \/ Uses(s[1], d.of) \/ Ends(s[1], d.of)
              \/ life[d.of] \in Known /\ \E k \in 1 .. Len(s) : MutexOf(s[k]) = ksMutex
  <2>1. CASE d.of = c.child
    BY <1>6, <1>7, <1>11, <2>1 DEF Ends, Makes
  <2>2. CASE c.fn \in {"systemAccess", "cloneProcess"}
    <3>1. life[d.of] \in Known
      BY <1>9, <2>2 DEF Found, processMap, Known
    <3>2. MutexOf(c) = ksMutex
      BY <2>2, <1>1, Classes, SMTT(60) DEF ksMutexFunctions, kpMutexFunctions,
         thrashingMutexFunctions, myMutexFunctions, framesMutexFunctions, allocatorFunctions,
         unlockedFunctions
    <3> QED BY <1>1, <3>1, <3>2 DEF c
  <2>3. CASE c.fn = "processThrashing"
    <3>1. life[d.of] \in Known
      BY <1>9, <2>3 DEF processMap, Known
    <3>2. d.fn \in UnderKs
      BY <1>4, <2>3, Edges, SMTT(60) DEF UnderKs, OfProcess, NeedsProcess, kpMutexFunctions,
         thrashingMutexFunctions, myMutexFunctions, framesMutexFunctions, allocatorFunctions
    <3> QED BY <1>2, <3>1, <3>2 DEF FitsAt
  <2>4. CASE c.fn \in OfProcess /\ d.of = c.of
    <3>1. \/ Uses(s[1], c.of) \/ Ends(s[1], c.of)
          \/ life[c.of] \in Known /\ \E k \in 1 .. Len(s) - 1 : MutexOf(s[k]) = ksMutex
      BY <1>5, <2>4 DEF Justified
    <3> QED BY <1>1, <2>4, <3>1
  <2>5. \/ c.fn \in {"systemAccess", "cloneProcess", "processThrashing"}
        \/ c.fn \in OfProcess \/ d.of = c.child
    BY <1>4, <1>9, <1>11, Edges, SMTT(60) DEF OfProcess, NeedsProcess, kpMutexFunctions,
       thrashingMutexFunctions, myMutexFunctions, framesMutexFunctions, allocatorFunctions
  <2> QED BY <1>9, <2>1, <2>2, <2>3, <2>4, <2>5
<1>12. Justified(r, Len(s) + 1, d, life)
  BY <1>1, <1>8, <1>10, <1>11 DEF Justified
<1>13. ASSUME NEW i \in 1 .. Len(s) PROVE Justified(r, i, r[i], life)
  <2>1. Justified(s, i, s[i], life)
    BY <1>13 DEF ThreadOK, s
  <2>2. \A k \in 1 .. i : r[k] = s[k]
    BY <1>1, <1>8, <1>13
  <2> QED BY <1>1, <1>8, <1>13, <2>1, <2>2 DEF Justified
<1>14. \A i \in 1 .. Len(r) : i \in 1 .. Len(s) \/ (i = Len(s) + 1 /\ r[i] = d)
  BY <1>1 DEF Longer, s
<1> QED BY <1>12, <1>13, <1>14

\* When the process that a thread made or deletes is dead, the one call it can
\* still make is that of clone in cloneProcess, which does nothing then.
LEMMA PushWhenDead ==
  ASSUME Ordered, NEW t \in Threads, next[t] = NoCall, stack[t] # <<>>,
         ThreadOK(stack[t], NoCall, life), NEW d \in InnerCalls(Top(t)),
         NEW p \in Procs, Ends(stack[t][1], p), life[p] = "dead"
  PROVE  d.fn = "clone"
<1> DEFINE s == stack[t]
           c == s[Len(s)]
<1>1. /\ s \in Seq(Call) /\ Len(s) \in Nat /\ Len(s) \in 1 .. Len(s) /\ 1 \in 1 .. Len(s)
      /\ Proper(c) /\ Linked(s)
  <2>1. s \in Seq(Call) /\ Len(s) \in Nat /\ Len(s) \in 1 .. Len(s) /\ 1 \in 1 .. Len(s)
    BY DEF Ordered, Typed
  <2> QED BY <2>1, ChainIs DEF Ordered, ThreadOK
<1>2. d.fn \in Calls(c.fn) /\ Reached(c, d.fn)
  BY Callee DEF Top
<1>3. c.fn \in Ending
  BY <1>1 DEF ThreadOK, Staged
<1>4. Justified(s, Len(s), c, life) /\ c.child = s[1].child
  BY <1>1 DEF ThreadOK, Linked
<1>5. c.fn \in {"destroyKernelProcess", "~KernelProcess"} => c.of = p
  BY <1>1, <1>4, EndsOne DEF Justified, LifeFunctions
<1>6. c.fn = "clone" => c.child = p
  <2> SUFFICES ASSUME c.fn = "clone" PROVE c.child = p
    OBVIOUS
  <2>1. c.child \in Procs /\ c.child # 0
    BY <1>1 DEF Proper, Procs
  <2>2. Ends(s[1], c.child)
    BY <1>4, <2>1 DEF Ends, Makes
  <2> QED BY <1>1, <2>2, EndsOne
<1> HIDE DEF c
<1>7. CASE c.fn = "clone"
  <2>1. d.fn \in {"createKernelProcess", "cloneAllSegments", "destroyKernelProcess"}
    BY <1>2, <1>7 DEF Calls, KernelSystemCalls, KernelProcessCalls, CloneCalls, ManagerCalls
  <2> QED BY <1>2, <1>6, <1>7, <2>1 DEF Reached
<1>8. CASE c.fn \in {"destroyKernelProcess", "~KernelProcess"}
  <2>1. d.fn \notin {"createKernelProcess", "KernelProcess", "cloneAllSegments"}
    BY <1>2, <1>8, Edges, SMTT(60) DEF OfProcess, NeedsProcess, kpMutexFunctions,
       thrashingMutexFunctions, myMutexFunctions, framesMutexFunctions, allocatorFunctions
  <2> QED BY <1>2, <1>5, <1>8, <2>1 DEF Reached
<1>9. CASE c.fn = "cloneProcess"
  BY <1>2, <1>9, Edges, SMTT(60) DEF OfProcess, NeedsProcess, kpMutexFunctions,
     thrashingMutexFunctions, myMutexFunctions, framesMutexFunctions, allocatorFunctions
<1> QED BY <1>2, <1>3, <1>7, <1>8, <1>9, CallersAtTheEnd DEF Ending

\* The stages once t has made the call d in a call.  r is its chain then; the
\* constructor and the removal from processMap act when they have the mutex.
LEMMA PushAnnounced ==
  ASSUME Ordered, NEW t \in Threads, next[t] = NoCall, stack[t] # <<>>,
         ThreadOK(stack[t], NoCall, life), NEW d \in InnerCalls(Top(t)),
         NEW r, Longer(stack[t], r, d), NEW n \in {NoCall, d}, d.fn = "clone" => n = NoCall
  PROVE  /\ ThreadOK(r, n, Announced(d))
         /\ \/ Announced(d) = life
            \/ /\ d.of \in Procs /\ Ends(stack[t][1], d.of)
               /\ \A q \in Procs \ {d.of} : Announced(d)[q] = life[q]
               /\ Announced(d)[d.of] = "dying"
<1> DEFINE s == stack[t]
<1>1. /\ s \in Seq(Call) /\ Len(s) \in Nat /\ Len(s) \in 1 .. Len(s) /\ 1 \in 1 .. Len(s)
      /\ Linked(s) /\ Staged(s, NoCall, life) /\ life \in [Procs -> Stages] /\ s # <<>>
  <2>1. s \in Seq(Call) /\ Len(s) \in Nat /\ Len(s) \in 1 .. Len(s) /\ 1 \in 1 .. Len(s)
    BY DEF Ordered, Typed
  <2> QED BY <2>1 DEF Ordered, ThreadOK, Typed
<1>2. /\ r[1] = s[1] /\ \A k \in 1 .. Len(s) : r[k] = s[k]
      /\ Len(r) = Len(s) + 1 /\ r[Len(s) + 1] = d /\ r \in Seq(Call)
  BY <1>1 DEF Longer
<1>3. Linked(r) /\ \A i \in 1 .. Len(r) : Justified(r, i, r[i], life)
  BY <1>1, PushLinked, PushJustified DEF Top
<1>4. Proper(d) /\ d.fn \in Calls(s[Len(s)].fn) /\ Reached(s[Len(s)], d.fn)
  BY NextCallFits, Callee DEF FitsAt, Top
<1>5. d.fn \notin {"createProcess", "cloneProcess"}
  BY <1>4, CallersAtTheEnd
<1>6. d.child = s[1].child /\ Len(s) + 1 \in 1 .. Len(r)
  BY <1>1, <1>2, <1>3 DEF Linked
<1>7. d.fn \in LifeFunctions => d.of \in Procs /\ Ends(s[1], d.of)
  <2>1. d.fn \in LifeFunctions => Ends(s[1], d.of)
    BY <1>2, <1>3, <1>6 DEF Justified
  <2>2. d.fn \in LifeFunctions \ {"eraseFromMap"} => d.of \in Procs
    BY <1>4 DEF Proper, OfProcess, NeedsProcess, LifeFunctions, kpMutexFunctions
  <2>3. d.fn = "eraseFromMap" => d.of \in Procs
    <3> SUFFICES ASSUME d.fn = "eraseFromMap" PROVE d.of \in Procs
      OBVIOUS
    <3>1. s[Len(s)].fn = "~KernelProcess"
      BY <1>4, CallersAtTheEnd
    <3>2. d.of \in Target(s[Len(s)], d.fn)
      BY Callee DEF Top
    <3>3. d.of = s[Len(s)].of
      BY <3>1, <3>2, SMTT(30) DEF Target
    <3>4. Proper(s[Len(s)])
      BY <1>1, ChainIs
    <3> QED BY <3>1, <3>3, <3>4 DEF Proper, OfProcess, NeedsProcess, kpMutexFunctions
  <2> QED BY <2>1, <2>2, <2>3
<1>8. d.fn = "clone" => life[d.child] # "unborn"
  <2> SUFFICES ASSUME d.fn = "clone" PROVE life[d.child] # "unborn"
    OBVIOUS
  <2>1. d.child \in Procs /\ d.child # 0
    BY <1>4 DEF Proper, Procs
  <2> QED BY <1>1, <1>6, <2>1 DEF Staged, Makes
<1>9. ASSUME d.fn # "destroyKernelProcess" PROVE Announced(d) = life
  BY <1>5, <1>8, <1>9, SMTT(30) DEF Announced
<1>10. ASSUME d.fn = "KernelProcess" PROVE life[d.of] = "reserved"
  <2>1. s[Len(s)].fn = "createKernelProcess"
    BY <1>4, <1>10, CallersAtTheEnd
  <2>2. d.of \in Target(s[Len(s)], d.fn)
    BY Callee DEF Top
  <2>3. d.of = s[Len(s)].of
    BY <1>10, <2>1, <2>2, SMTT(30) DEF Target
  <2> QED BY <1>4, <1>10, <2>1, <2>3 DEF Reached
<1> HIDE DEF s
<1>11. CASE d.fn # "destroyKernelProcess"
  <2>1. ASSUME NEW p \in Procs, Ends(r[1], p), life[p] = "dead"
        PROVE  n = NoCall /\ \A i \in 1 .. Len(r) : r[i].fn \in Ending
    <3>1. d.fn = "clone"
      BY <1>2, <2>1, PushWhenDead DEF s
    <3>2. \A i \in 1 .. Len(s) : r[i].fn \in Ending
      BY <1>1, <1>2, <2>1 DEF Staged
    <3> QED BY <1>1, <1>2, <3>1, <3>2 DEF Ending
  <2>2. ASSUME NEW p \in Procs, Makes(r[1], p), life[p] = "dying"
        PROVE  \E i \in 1 .. Len(r) : r[i].fn = "destroyKernelProcess"
    <3>1. PICK i \in 1 .. Len(s) : s[i].fn = "destroyKernelProcess"
      BY <1>1, <1>2, <2>2 DEF Staged
    <3>2. i \in 1 .. Len(r) /\ r[i] = s[i]
      BY <1>1, <1>2
    <3> QED BY <3>1, <3>2
  <2>3. Staged(r, n, life)
    BY <1>1, <1>2, <1>10, <2>1, <2>2 DEF Staged
  <2> QED BY <1>3, <1>9, <1>11, <2>3 DEF ThreadOK
<1>12. CASE d.fn = "destroyKernelProcess"
  <2> DEFINE p == d.of
             l == Announced(d)
  <2>1. p \in Procs /\ Ends(s[1], p)
    BY <1>7, <1>12 DEF LifeFunctions
  <2>2. life[p] = "made"
    <3>1. s[Len(s)].fn = "clone"
      BY <1>4, <1>12, CallersAtTheEnd
    <3>2. d.of \in Target(s[Len(s)], d.fn)
      BY Callee DEF Top, s
    <3>3. d.of = s[Len(s)].child
      BY <1>12, <3>1, <3>2, SMTT(30) DEF Target
    <3> QED BY <1>4, <1>12, <3>1, <3>3, SMTT(30) DEF Reached
  <2>3. l = [life EXCEPT ![p] = "dying"]
    BY <1>12, SMTT(30) DEF Announced
  <2>4. l[p] = "dying" /\ \A q \in Procs \ {p} : l[q] = life[q]
    BY <1>1, <2>1, <2>3
  <2> HIDE DEF p, l
  <2>5. ASSUME NEW i \in 1 .. Len(r) PROVE Justified(r, i, r[i], l)
    <3>1. Justified(r, i, r[i], life)
      BY <1>3, <2>5
    <3>2. r[i].fn \in OfProcess => r[i].of \in Procs
      <4>1. Proper(r[i])
        <5>1. i \in 1 .. Len(s) => Proper(s[i])
          BY ChainIs DEF s
        <5> QED BY <1>1, <1>2, <1>4, <2>5, <5>1
      <4> QED BY <4>1 DEF Proper
    <3> QED BY <2>4, <3>1, <3>2 DEF Justified, Known
  <2>6. \E i \in 1 .. Len(r) : r[i].fn = "destroyKernelProcess"
    BY <1>2, <1>6, <1>12
  <2>7. ASSUME NEW q \in Procs, Ends(r[1], q) PROVE q = p
    BY <1>1, <1>2, <2>1, <2>7, EndsOne
  <2>8. n # NoCall => n.fn # "KernelProcess"
    BY <1>12
  <2>9. Staged(r, n, l)
    <3> SUFFICES ASSUME NEW q \in Procs
                 PROVE  /\ Uses(r[1], q) => l[q] = "used"
                        /\ Deletes(r[1], q) => l[q] \in {"dying", "dead"}
                        /\ Makes(r[1], q) => l[q] \in {"reserved", "made", "dying", "dead"}
                        /\ ~(Ends(r[1], q) /\ l[q] = "dead")
      BY <2>6, <2>8 DEF Staged
    <3>1. CASE q = p
      <4>1. ~Uses(r[1], q)
        BY <1>1, <1>2, <2>2, <3>1 DEF Staged
      <4> QED BY <2>4, <3>1, <4>1
    <3>2. CASE q # p
      <4>1. ~Ends(r[1], q)
        BY <2>7, <3>2
      <4> QED BY <1>1, <1>2, <2>4, <3>2, <4>1 DEF Staged, Ends
    <3> QED BY <3>1, <3>2
  <2>10. ThreadOK(r, n, l)
    BY <1>3, <2>5, <2>9 DEF ThreadOK
  <2> QED BY <2>1, <2>4, <2>10 DEF p, l, s
<1> QED BY <1>11, <1>12

\* The constructor puts a process that t makes into processMap, eraseFromMap
\* takes one out that t ends; no other call acts when it has its mutex.
LEMMA BeginKept ==
  ASSUME Ordered, NEW r \in Seq(Call), r # <<>>, \A i \in 1 .. Len(r) : Proper(r[i]),
         NEW d, d = r[Len(r)], d # NoCall, ThreadOK(r, d, life)
  PROVE  /\ ThreadOK(r, NoCall, Begun(d))
         /\ \/ Begun(d) = life
            \/ /\ d.of \in Procs /\ Ends(r[1], d.of)
               /\ \A q \in Procs \ {d.of} : Begun(d)[q] = life[q]
               /\ \/ Begun(d)[d.of] = "made"
                  \/ d.fn = "eraseFromMap" /\ MutexOf(d) = ksMutex
<1> DEFINE l == Begun(d)
           p == d.of
<1>1. /\ Len(r) \in 1 .. Len(r) /\ 1 \in 1 .. Len(r) /\ Len(r) \in Nat
      /\ Proper(d) /\ Proper(r[1]) /\ Linked(r) /\ Staged(r, d, life)
      /\ Justified(r, Len(r), d, life)
      /\ life \in [Procs -> Stages]
  <2>1. Len(r) \in 1 .. Len(r) /\ 1 \in 1 .. Len(r) /\ Len(r) \in Nat
    OBVIOUS
  <2> QED BY <2>1 DEF ThreadOK, Ordered, Typed
<1>2. CASE d.fn \notin {"KernelProcess", "eraseFromMap"}
  <2>1. Begun(d) = life
    BY <1>2, SMTT(30) DEF Begun
  <2>2. Staged(r, NoCall, life)
    BY <1>1 DEF Staged
  <2> QED BY <2>1, <2>2 DEF ThreadOK
<1>3. ASSUME d.fn \in {"KernelProcess", "eraseFromMap"} PROVE p \in Procs /\ Ends(r[1], p)
  <2> HIDE DEF p
  <2>1. Ends(r[1], p)
    BY <1>1, <1>3 DEF Justified, LifeFunctions, p
  <2>2. CASE Deletes(r[1], p)
    <3>1. p \in Procs
      BY <1>1, <2>2 DEF Deletes, Proper, OfProcess, NeedsProcess
    <3> QED BY <2>1, <3>1
  <2>3. CASE Makes(r[1], p)
    <3>1. r[1] \in Call
      BY <1>1
    <3>2. p \in Pids /\ p # 0
      BY <2>3, <3>1 DEF Makes, Call
    <3> QED BY <2>1, <3>2, NumProcsAssumption DEF Pids, Procs
  <2> QED BY <2>1, <2>2, <2>3 DEF Ends
<1>4. \A q \in Procs : Ends(r[1], q) /\ d.fn \in {"KernelProcess", "eraseFromMap"} => q = p
  BY <1>1, <1>3, EndsOne
<1>5. ASSUME NEW i \in 1 .. Len(r), r[i].fn \in OfProcess PROVE r[i].of \in Procs
  BY <1>5 DEF Proper
<1>6. CASE d.fn = "KernelProcess"
  <2>1. life[p] = "reserved"
    BY <1>1, <1>3, <1>6 DEF Staged
  <2>2. l = [life EXCEPT ![p] = "made"]
    BY <1>6, SMTT(30) DEF Begun
  <2>3. l[p] = "made" /\ \A q \in Procs \ {p} : l[q] = life[q]
    BY <1>1, <1>3, <1>6, <2>2
  <2> HIDE DEF l, p
  <2>4. ASSUME NEW i \in 1 .. Len(r) PROVE Justified(r, i, r[i], l)
    <3>1. Justified(r, i, r[i], life)
      BY <2>4 DEF ThreadOK
    <3> QED BY <1>5, <2>3, <2>4, <3>1 DEF Justified, Known
  <2>5. ~Uses(r[1], p)
    BY <1>1, <1>3, <1>6, <2>1 DEF Staged
  <2>6. Staged(r, NoCall, l)
    <3> SUFFICES ASSUME NEW q \in Procs
                 PROVE  /\ Uses(r[1], q) => l[q] = "used"
                        /\ Deletes(r[1], q) => l[q] \in {"dying", "dead"}
                        /\ Makes(r[1], q) => l[q] \in {"reserved", "made", "dying", "dead"}
                        /\ ~(Makes(r[1], q) /\ l[q] = "dying")
                        /\ ~(Ends(r[1], q) /\ l[q] = "dead")
      BY DEF Staged
    <3>1. CASE q = p
      <4>1. ~Deletes(r[1], p)
        BY <1>1, <1>3, <1>6, <2>1 DEF Staged
      <4> QED BY <2>3, <2>5, <3>1, <4>1
    <3>2. CASE q # p
      <4>1. ~Ends(r[1], q)
        BY <1>4, <1>6, <3>2
      <4> QED BY <1>1, <2>3, <3>2, <4>1 DEF Staged, Ends
    <3> QED BY <3>1, <3>2
  <2>7. ThreadOK(r, NoCall, l)
    BY <1>1, <2>4, <2>6 DEF ThreadOK
  <2> QED BY <1>3, <1>6, <2>3, <2>7 DEF l, p
<1>7. CASE d.fn = "eraseFromMap"
  <2>1. l = [life EXCEPT ![p] = "dead"]
    BY <1>7, SMTT(30) DEF Begun
  <2>2. l[p] = "dead" /\ \A q \in Procs \ {p} : l[q] = life[q]
    BY <1>1, <1>3, <1>7, <2>1
  <2>3. \A i \in 1 .. Len(r) : r[i].fn \in Ending
    BY <1>1, <1>7, EraseAtTheEnd
  <2>4. MutexOf(d) = ksMutex
    BY <1>1, <1>7, Classes, SMTT(60) DEF ksMutexFunctions, kpMutexFunctions,
       thrashingMutexFunctions, myMutexFunctions, framesMutexFunctions, allocatorFunctions,
       unlockedFunctions
  <2> HIDE DEF l
  <2>5. ASSUME NEW i \in 1 .. Len(r), r[i].fn = "clone" PROVE r[i].of # p
    <3>1. Proper(r[i]) /\ r[i].child = r[1].child
      BY <1>1, <2>5 DEF Linked
    <3>2. r[i].child \in Procs /\ r[i].of < r[i].child
      BY <2>5, <3>1 DEF Proper
    <3>3. Ends(r[1], r[i].child)
      BY <3>1, <3>2 DEF Ends, Makes, Procs
    <3>4. r[i].child = p
      BY <1>4, <1>7, <3>2, <3>3
    <3> QED BY <3>2, <3>4 DEF Procs
  <2>6. ASSUME NEW i \in 1 .. Len(r) PROVE Justified(r, i, r[i], l)
    <3>1. Justified(r, i, r[i], life) /\ r[i].fn \in Ending
      BY <2>3, <2>6 DEF ThreadOK
    <3>2. r[i].fn \in OfProcess \ LifeFunctions => r[i].of \in Procs \ {p}
      BY <1>5, <2>5, <2>6, <3>1 DEF Ending, OfProcess, NeedsProcess, LifeFunctions,
         kpMutexFunctions, thrashingMutexFunctions
    <3> HIDE DEF p
    <3> QED BY <2>2, <3>1, <3>2 DEF Justified
  <2>7. ~Uses(r[1], p)
    <3> SUFFICES ASSUME Uses(r[1], p) PROVE FALSE
      OBVIOUS
    <3>1. r[1].fn = "clone" /\ r[1].of = p
      BY <1>1, <2>3 DEF Uses, Ending, ProcessFunctions
    <3> QED BY <1>1, <2>5, <3>1
  <2>8. Staged(r, NoCall, l)
    <3> SUFFICES ASSUME NEW q \in Procs
                 PROVE  /\ Uses(r[1], q) => l[q] = "used"
                        /\ Deletes(r[1], q) => l[q] \in {"dying", "dead"}
                        /\ Makes(r[1], q) => l[q] \in {"reserved", "made", "dying", "dead"}
                        /\ ~(Makes(r[1], q) /\ l[q] = "dying")
      BY <2>3 DEF Staged
    <3> HIDE DEF p
    <3>1. CASE q = p
      BY <2>2, <2>7, <3>1
    <3>2. CASE q # p
      <4>1. ~Ends(r[1], q)
        BY <1>4, <1>7, <3>2
      <4> QED BY <1>1, <2>2, <3>2, <4>1 DEF Staged, Ends
    <3> QED BY <3>1, <3>2
  <2>9. ThreadOK(r, NoCall, l)
    BY <1>1, <2>6, <2>8 DEF ThreadOK
  <2> HIDE DEF p
  <2> QED BY <1>3, <1>7, <2>2, <2>4, <2>9 DEF l, p
<1> QED BY <1>2, <1>6, <1>7

\* A call that returns leaves the calls below it as they were; ~KernelProcess
\* does not return before the process is out of processMap.
LEMMA ReturnKept ==
  ASSUME Ordered, NEW s \in Seq(Call), s # <<>>, ThreadOK(s, NoCall, life),
         s[Len(s)].fn = "destroyKernelProcess" => life[s[Len(s)].of] = "dead",
         NEW r, r \in Seq(Call), r # <<>>, Len(r) = Len(s) - 1,
         \A k \in 1 .. Len(r) : r[k] = s[k]
  PROVE  ThreadOK(r, NoCall, life)
<1>1. /\ Len(s) \in Nat /\ Len(r) \in Nat /\ 1 \in 1 .. Len(r) /\ r[1] = s[1]
      /\ Len(s) \in 1 .. Len(s)
      /\ Linked(s) /\ Staged(s, NoCall, life)
  BY DEF ThreadOK
<1>2. ASSUME NEW i \in 1 .. Len(r)
      PROVE  /\ r[i] = s[i] /\ i \in 1 .. Len(s)
             /\ \A k \in 1 .. i - 1 : r[k] = s[k]
             /\ i # 1 => r[i - 1] = s[i - 1]
  BY <1>1, <1>2
<1>3. Linked(r)
  BY <1>1, <1>2 DEF Linked
<1>4. ASSUME NEW i \in 1 .. Len(r) PROVE Justified(r, i, r[i], life)
  <2>1. Justified(s, i, s[i], life)
    BY <1>2, <1>4 DEF ThreadOK
  <2> QED BY <1>1, <1>2, <1>4, <2>1 DEF Justified
<1>5. ASSUME NEW p \in Procs, Makes(r[1], p), life[p] = "dying"
      PROVE  \E i \in 1 .. Len(r) : r[i].fn = "destroyKernelProcess"
  <2>1. PICK i \in 1 .. Len(s) : s[i].fn = "destroyKernelProcess"
    BY <1>1, <1>5 DEF Staged
  <2>2. i # Len(s)
    <3> SUFFICES ASSUME i = Len(s) PROVE FALSE
      OBVIOUS
    <3>1. Justified(s, i, s[i], life)
      BY DEF ThreadOK
    <3>2. Ends(s[1], s[i].of) /\ Ends(s[1], p)
      BY <1>1, <1>5, <2>1, <3>1 DEF Justified, LifeFunctions, Ends
    <3>3. s[i].of = p
      BY <1>1, <3>2, EndsOne
    <3> QED BY <1>5, <2>1, <3>3
  <2>3. i \in 1 .. Len(r)
    BY <1>1, <2>2
  <2> QED BY <1>2, <2>1, <2>3
<1>6. \A p \in Procs : Ends(r[1], p) /\ life[p] = "dead" =>
        \A i \in 1 .. Len(r) : r[i].fn \in Ending
  BY <1>1, <1>2 DEF Staged
<1>7. Staged(r, NoCall, life)
  BY <1>1, <1>5, <1>6 DEF Staged
<1> QED BY <1>3, <1>4, <1>7 DEF ThreadOK

\* The process that the user's call c ends is new, or is not in use by any thread.
LEMMA UserEnds ==
  ASSUME Ordered, NEW c \in UserCalls
  PROVE  /\ c.fn \in UserFunctions
         /\ c.child # 0 => /\ c.fn \in {"createProcess", "cloneProcess", "clone"}
                           /\ c.child \in Procs /\ life[c.child] = "unborn"
         /\ c.fn \in {"createProcess", "cloneProcess", "clone"} => c.child # 0
         /\ c.fn \in ProcessFunctions \cup {"clone"} => life[c.of] = "used"
         /\ c.fn = "destroyKernelProcess" => c.of \in Procs /\ life[c.of] = "used" /\ ~Busy(c.of)
<1> DEFINE Claim == /\ c.fn \in UserFunctions
                    /\ c.child # 0 => /\ c.fn \in {"createProcess", "cloneProcess", "clone"}
                                      /\ c.child \in Procs /\ life[c.child] = "unborn"
                    /\ c.fn \in {"createProcess", "cloneProcess", "clone"} => c.child # 0
                    /\ c.fn \in ProcessFunctions \cup {"clone"} => life[c.of] = "used"
                    /\ c.fn = "destroyKernelProcess" =>
                         c.of \in Procs /\ life[c.of] = "used" /\ ~Busy(c.of)
<1>1. ASSUME NEW q \in Procs, Unborn(q) PROVE life[q] = "unborn" /\ q # 0
  BY <1>1, NumProcsAssumption DEF Unborn, Procs
<1>2. CASE c = CallOf("periodicJob", 0, 0)
  BY <1>2, SMTT(60) DEF CallOf, UserFunctions, ProcessFunctions
<1>3. CASE c \in {CallOf("systemAccess", pid, 0) : pid \in Pids}
  <2>1. c.fn = "systemAccess" /\ c.child = 0
    BY <1>3 DEF CallOf
  <2> QED BY <2>1 DEF UserFunctions, ProcessFunctions
<1>4. CASE c \in {CallOf("createProcess", p, p) : p \in {q \in Procs : Unborn(q)}}
  <2>1. PICK p \in Procs : Unborn(p) /\ c = CallOf("createProcess", p, p)
    BY <1>4
  <2>2. c.fn = "createProcess" /\ c.child = p
    BY <2>1 DEF CallOf
  <2> QED BY <1>1, <2>1, <2>2 DEF UserFunctions, ProcessFunctions
<1>5. CASE c \in {CallOf("cloneProcess", pid, p) :
                    pid \in {q \in Pids : q = 0 \/ life[q] # "unborn"},
                    p \in {q \in Procs : Unborn(q)}}
  <2>1. PICK pid \in Pids, p \in Procs : Unborn(p) /\ c = CallOf("cloneProcess", pid, p)
    BY <1>5
  <2>2. c.fn = "cloneProcess" /\ c.child = p
    BY <2>1 DEF CallOf
  <2> QED BY <1>1, <2>1, <2>2 DEF UserFunctions, ProcessFunctions
<1>6. CASE c \in {CallOf("clone", p, q) : p \in {r \in Procs : life[r] = "used"},
                                          q \in {r \in Procs : Unborn(r)}}
  <2>1. PICK p \in Procs, q \in Procs :
          life[p] = "used" /\ Unborn(q) /\ c = CallOf("clone", p, q)
    BY <1>6
  <2>2. c.fn = "clone" /\ c.child = q /\ c.of = p
    BY <2>1 DEF CallOf
  <2> QED BY <1>1, <2>1, <2>2 DEF UserFunctions, ProcessFunctions
<1>7. CASE c \in {CallOf(fn, p, 0) : fn \in ProcessFunctions, p \in {q \in Procs : life[q] = "used"}}
  <2>1. PICK fn \in ProcessFunctions, p \in Procs : life[p] = "used" /\ c = CallOf(fn, p, 0)
    BY <1>7
  <2>2. c.fn \in ProcessFunctions /\ c.child = 0 /\ c.of = p
    BY <2>1 DEF CallOf
  <2> QED BY <2>1, <2>2 DEF UserFunctions, ProcessFunctions
<1>8. CASE c \in {CallOf("destroyKernelProcess", p, 0) :
                    p \in {q \in Procs : life[q] = "used" /\ ~Busy(q)}}
  <2>1. PICK p \in Procs : life[p] = "used" /\ ~Busy(p) /\ c = CallOf("destroyKernelProcess", p, 0)
    BY <1>8
  <2>2. c.fn = "destroyKernelProcess" /\ c.child = 0 /\ c.of = p
    BY <2>1 DEF CallOf
  <2> QED BY <2>1, <2>2 DEF UserFunctions, ProcessFunctions
<1> QED BY <1>2, <1>3, <1>4, <1>5, <1>6, <1>7, <1>8 DEF UserCalls

\* Whatever the user's call c ends, no other thread uses or ends.
LEMMA UserAlone ==
  ASSUME Ordered, Lives, NEW c \in UserCalls, NEW p \in Procs, Ends(c, p),
         NEW u \in Threads, Chain(u) # <<>>
  PROVE  ~Uses(Chain(u)[1], p) /\ ~Ends(Chain(u)[1], p)
<1> DEFINE b == Chain(u)[1]
<1>1. \/ p = c.child /\ life[p] = "unborn"
      \/ p = c.of /\ life[p] = "used" /\ ~Busy(p)
  BY UserEnds DEF Ends, Deletes, Makes
<1>2. /\ Uses(b, p) => life[p] = "used"
      /\ Deletes(b, p) => life[p] \in {"dying", "dead"}
      /\ Makes(b, p) => life[p] \in {"reserved", "made", "dying", "dead"}
  BY DEF Lives, ThreadOK, Staged
<1>3. Uses(b, p) => Busy(p)
  <2> SUFFICES ASSUME Uses(b, p) PROVE Busy(p)
    OBVIOUS
  <2>1. CASE stack[u] # <<>>
    <3>1. 1 \in 1 .. Len(stack[u])
      BY <2>1, ChainIs
    <3>2. b = stack[u][1]
      BY <3>1, ChainIs
    <3> QED BY <2>1, <3>2 DEF Uses, Busy
  <2>2. CASE stack[u] = <<>>
    <3>1. next[u] # NoCall
      BY <2>2 DEF Chain
    <3>2. b = next[u]
      BY <2>2, <3>1, ChainIs
    <3> QED BY <2>2, <3>1, <3>2 DEF Uses, Busy
  <2> QED BY <2>1, <2>2
<1> HIDE DEF b
<1>4. ~Uses(b, p) /\ ~Ends(b, p)
  BY <1>1, <1>2, <1>3 DEF Ends
<1> QED BY <1>4 DEF b

\* The user's call begins the life of a process or its end, or uses one.
LEMMA UserAnnounced ==
  ASSUME Ordered, NEW c \in UserCalls, NEW r \in Seq(Call), Len(r) = 1, r[1] = c,
         NEW n \in {NoCall, c}
  PROVE  /\ ThreadOK(r, n, Announced(c))
         /\ \/ Announced(c) = life
            \/ \E p \in Procs : /\ Ends(c, p)
                                /\ \A q \in Procs \ {p} : Announced(c)[q] = life[q]
                                /\ life[p] \in Known => Announced(c)[p] \in Known
<1> DEFINE l == Announced(c)
<1>1. Proper(c) /\ life \in [Procs -> Stages] /\ c \in Call
  BY UserCallsProper DEF Ordered, Typed, Proper
<1>2. /\ c.fn \in UserFunctions
      /\ c.child # 0 => /\ c.fn \in {"createProcess", "cloneProcess", "clone"}
                        /\ c.child \in Procs /\ life[c.child] = "unborn"
      /\ c.fn \in {"createProcess", "cloneProcess", "clone"} => c.child # 0
      /\ c.fn \in ProcessFunctions \cup {"clone"} => life[c.of] = "used"
      /\ c.fn = "destroyKernelProcess" => c.of \in Procs /\ life[c.of] = "used"
  BY UserEnds
<1>3. Linked(r)
  BY <1>2 DEF Linked
<1>4. \A i \in 1 .. Len(r) : i = 1 /\ r[i] = c
  OBVIOUS
<1>5. Justified(r, 1, c, l)
  <2>1. c.fn \in LifeFunctions => c.fn = "destroyKernelProcess"
    BY <1>2 DEF UserFunctions, ProcessFunctions, LifeFunctions
  <2>2. c.fn \in OfProcess => c.fn \in ProcessFunctions \cup {"clone", "destroyKernelProcess"}
    BY <1>2, SMTT(60) DEF UserFunctions, OfProcess, NeedsProcess, kpMutexFunctions, thrashingMutexFunctions,
       ProcessFunctions
  <2> QED BY <2>1, <2>2 DEF Justified, Ends, Uses, Deletes
<1>6. CASE c.fn \notin {"createProcess", "cloneProcess", "clone", "destroyKernelProcess"}
  <2>1. l = life
    BY <1>6, SMTT(30) DEF Announced
  <2>2. c.child = 0
    BY <1>2, <1>6
  <2>3. Staged(r, n, l)
    <3>1. c.fn # "KernelProcess"
      BY <1>2 DEF UserFunctions, ProcessFunctions
    <3> HIDE DEF l
    <3>2. ASSUME NEW p \in Procs
          PROVE  /\ Uses(c, p) => l[p] = "used"
                 /\ ~Deletes(c, p) /\ ~Makes(c, p)
      BY <1>2, <1>6, <2>1, <2>2 DEF Uses, Deletes, Makes
    <3> QED BY <3>1, <3>2 DEF Staged, Ends
  <2> QED BY <1>3, <1>4, <1>5, <2>1, <2>3 DEF ThreadOK
<1>7. CASE c.fn \in {"createProcess", "cloneProcess", "clone"}
  <2> DEFINE p == c.child
  <2>1. p # 0 /\ p \in Procs /\ life[p] = "unborn"
    BY <1>2, <1>7
  <2>2. l = [life EXCEPT ![p] = "reserved"]
    BY <1>7, <2>1, SMTT(30) DEF Announced
  <2>3. l[p] = "reserved" /\ \A q \in Procs \ {p} : l[q] = life[q]
    BY <1>1, <2>1, <2>2
  <2> HIDE DEF l
  <2>4. Staged(r, n, l)
    <3> SUFFICES ASSUME NEW q \in Procs
                 PROVE  /\ Uses(c, q) => l[q] = "used"
                        /\ ~Deletes(c, q)
                        /\ Makes(c, q) => l[q] = "reserved"
      BY <1>7 DEF Staged, Ends
    <3> QED BY <1>2, <1>7, <2>1, <2>3 DEF Uses, Deletes, Makes
  <2>5. Ends(c, p)
    BY <2>1 DEF Ends, Makes
  <2>6. life[p] \notin Known
    BY <2>1 DEF Known
  <2>7. ThreadOK(r, n, l)
    BY <1>3, <1>4, <1>5, <2>4 DEF ThreadOK
  <2> QED BY <2>1, <2>3, <2>5, <2>6, <2>7 DEF l
<1>8. CASE c.fn = "destroyKernelProcess"
  <2> DEFINE p == c.of
  <2>1. p \in Procs /\ life[p] = "used" /\ c.child = 0
    BY <1>2, <1>8
  <2>2. l = [life EXCEPT ![p] = "dying"]
    BY <1>8, SMTT(30) DEF Announced
  <2>3. l[p] = "dying" /\ \A q \in Procs \ {p} : l[q] = life[q]
    BY <1>1, <2>1, <2>2
  <2> HIDE DEF l
  <2>4. Staged(r, n, l)
    <3> SUFFICES ASSUME NEW q \in Procs
                 PROVE  /\ ~Uses(c, q)
                        /\ Deletes(c, q) => l[q] = "dying"
                        /\ ~Makes(c, q)
      BY <1>8 DEF Staged, Ends
    <3> QED BY <1>8, <2>1, <2>3 DEF Uses, Deletes, Makes, ProcessFunctions
  <2>5. Ends(c, p)
    BY <1>8 DEF Ends, Deletes
  <2>6. l[p] \in Known
    BY <2>3 DEF Known
  <2>7. ThreadOK(r, n, l)
    BY <1>3, <1>4, <1>5, <2>4 DEF ThreadOK
  <2> QED BY <2>1, <2>3, <2>5, <2>6, <2>7 DEF l
<1> QED BY <1>6, <1>7, <1>8

\* A step of t after which its chain is r keeps the invariant if it changes at
\* most the stage of a process p that no other thread uses or ends, and takes p
\* out of processMap only when no other thread is under ksMutex.
LEMMA StepKeepsLives ==
  ASSUME Ordered, Lives, NEW t \in Threads, NEW r,
         Chain(t)' = r,
         \A u \in Threads \ {t} : stack'[u] = stack[u] /\ next'[u] = next[u],
         r # <<>> => ThreadOK(r, next'[t], life'),
         \A u \in Threads \ {t}, p \in Procs :
           r # <<>> /\ Chain(u) # <<>> => ~(Ends(r[1], p) /\ Ends(Chain(u)[1], p)),
         \/ life' = life
         \/ \E p \in Procs :
              /\ \A q \in Procs \ {p} : life'[q] = life[q]
              /\ \A u \in Threads \ {t} : Chain(u) # <<>> =>
                   /\ ~Uses(Chain(u)[1], p) /\ ~Ends(Chain(u)[1], p)
                   /\ life[p] \in Known => life'[p] \in Known \/ ksMutex \notin Holds(u)
  PROVE  Lives'
<1>1. \A u \in Threads \ {t} : Chain(u)' = Chain(u)
  BY DEF Chain
<1>2. ASSUME NEW u \in Threads \ {t}, Chain(u) # <<>> PROVE ThreadOK(Chain(u), next[u], life')
  <2>1. ThreadOK(Chain(u), next[u], life)
    BY <1>2 DEF Lives
  <2>2. CASE life' = life
    BY <2>1, <2>2
  <2>3. CASE \E p \in Procs :
               /\ \A q \in Procs \ {p} : life'[q] = life[q]
               /\ ~Uses(Chain(u)[1], p) /\ ~Ends(Chain(u)[1], p)
               /\ life[p] \in Known => life'[p] \in Known \/ ksMutex \notin Holds(u)
    BY <1>2, <2>1, <2>3, OthersKept
  <2> QED BY <1>2, <2>2, <2>3
<1>3. ASSUME NEW u \in Threads, Chain(u)' # <<>> PROVE ThreadOK(Chain(u)', next'[u], life')
  <2>1. CASE u = t
    BY <1>3, <2>1
  <2>2. CASE u # t
    BY <1>1, <1>2, <1>3, <2>2
  <2> QED BY <2>1, <2>2
<1>4. ASSUME NEW u \in Threads, NEW v \in Threads, u # v, Chain(u)' # <<>>, Chain(v)' # <<>>,
             NEW p \in Procs
      PROVE  ~(Ends((Chain(u)')[1], p) /\ Ends((Chain(v)')[1], p))
  <2>1. CASE u # t /\ v # t
    BY <1>1, <1>4, <2>1 DEF Lives
  <2>2. CASE u = t \/ v = t
    BY <1>1, <1>4, <2>2
  <2> QED BY <2>1, <2>2
<1> QED BY <1>3, <1>4 DEF Lives

\* A process that t ends is neither used nor ended by another thread.
LEMMA EndedAlone ==
  ASSUME Lives, NEW t \in Threads, NEW u \in Threads \ {t}, Chain(t) # <<>>, Chain(u) # <<>>,
         NEW p \in Procs, Ends(Chain(t)[1], p)
  PROVE  ~Uses(Chain(u)[1], p) /\ ~Ends(Chain(u)[1], p)
<1>1. ~Ends(Chain(u)[1], p)
  BY DEF Lives
<1>2. life[p] # "used"
  BY DEF Lives, ThreadOK, Staged, Ends
<1>3. Uses(Chain(u)[1], p) => life[p] = "used"
  BY DEF Lives, ThreadOK, Staged
<1> QED BY <1>1, <1>2, <1>3

\* The call c, with the others below it
LEMMA AppendLonger ==
  ASSUME NEW s \in Seq(Call), NEW c \in Call
  PROVE  /\ Longer(s, Append(s, c), c) /\ Append(s, c) # <<>>
         /\ s # <<>> => Append(s, c)[1] = s[1]
         /\ s = <<>> => Append(s, c)[1] = c /\ Len(Append(s, c)) = 1
<1>1. /\ Append(s, c) \in Seq(Call) /\ Len(Append(s, c)) = Len(s) + 1 /\ Len(s) \in Nat
      /\ \A k \in 1 .. Len(s) : Append(s, c)[k] = s[k]
      /\ Append(s, c)[Len(s) + 1] = c
  BY AppendProperties
<1>2. Longer(s, Append(s, c), c) /\ Append(s, c) # <<>>
  BY <1>1 DEF Longer
<1>3. s # <<>> => 1 \in 1 .. Len(s)
  OBVIOUS
<1>4. s = <<>> => Len(s) = 0
  OBVIOUS
<1> QED BY <1>1, <1>2, <1>3, <1>4

LEMMA MakeCallKeepsLives ==
  ASSUME Ordered, Lives, NEW t \in Threads, MakeCall(t)
  PROVE  Lives'
<1> DEFINE s == stack[t]
<1>1. PICK c \in IF stack[t] = <<>> THEN UserCalls ELSE InnerCalls(Top(t)) :
        \/ /\ Free(t, MutexOf(c))
           /\ stack' = [stack EXCEPT ![t] = Append(@, c)]
           /\ life' = IF c.fn \in {"KernelProcess", "eraseFromMap"} THEN Begun(c) ELSE Announced(c)
           /\ UNCHANGED next
        \/ /\ ~Free(t, MutexOf(c))
           /\ next' = [next EXCEPT ![t] = c]
           /\ life' = Announced(c)
           /\ UNCHANGED stack
  BY DEF MakeCall
<1>2. Typed /\ next[t] = NoCall /\ Chain(t) = s
  BY DEF Ordered, MakeCall, Chain
<1>3. FitsAt(s, Len(s), c) /\ Proper(c) /\ c \in Call /\ c # NoCall
  <2>1. FitsAt(s, Len(s), c)
    BY <1>1, NextCallFits
  <2> QED BY <2>1, NoCallAssumption DEF FitsAt, Proper
<1> DEFINE r == Append(s, c)
<1>4. /\ s \in Seq(Call) /\ r \in Seq(Call) /\ r # <<>> /\ Longer(s, r, c)
      /\ s # <<>> => r[1] = s[1]
      /\ s = <<>> => r[1] = c /\ Len(r) = 1
  <2>1. s \in Seq(Call)
    BY <1>2 DEF Typed
  <2> QED BY <1>3, <2>1, AppendLonger DEF Longer
<1>5. Chain(t)' = r /\ \A u \in Threads \ {t} : stack'[u] = stack[u] /\ next'[u] = next[u]
  <2>1. CASE stack' = [stack EXCEPT ![t] = Append(@, c)] /\ UNCHANGED next
    BY <1>2, <2>1 DEF Chain, Typed
  <2>2. CASE next' = [next EXCEPT ![t] = c] /\ UNCHANGED stack
    BY <1>2, <1>3, <2>2 DEF Chain, Typed
  <2> QED BY <1>1, <2>1, <2>2
<1>6. \/ Free(t, MutexOf(c)) /\ next'[t] = NoCall
         /\ life' = IF c.fn \in {"KernelProcess", "eraseFromMap"} THEN Begun(c) ELSE Announced(c)
      \/ ~Free(t, MutexOf(c)) /\ next'[t] = c /\ life' = Announced(c)
  BY <1>1, <1>2 DEF Typed
<1> HIDE DEF s, r
<1>7. CASE s = <<>>
  <2>1. c \in UserCalls
    BY <1>1, <1>7 DEF s
  <2>2. c.fn \notin {"KernelProcess", "eraseFromMap"}
    BY <2>1, UserEnds DEF UserFunctions, ProcessFunctions
  <2>3. life' = Announced(c) /\ next'[t] \in {NoCall, c}
    BY <1>6, <2>2
  <2>4. /\ ThreadOK(r, next'[t], life')
        /\ \/ life' = life
           \/ \E p \in Procs : /\ Ends(c, p)
                               /\ \A q \in Procs \ {p} : life'[q] = life[q]
                               /\ life[p] \in Known => life'[p] \in Known
    BY <1>4, <1>7, <2>1, <2>3, UserAnnounced
  <2>5. \A u \in Threads \ {t}, p \in Procs : Chain(u) # <<>> /\ Ends(c, p) =>
          ~Uses(Chain(u)[1], p) /\ ~Ends(Chain(u)[1], p)
    BY <2>1, UserAlone
  <2> QED BY <1>4, <1>5, <1>7, <2>4, <2>5, StepKeepsLives
<1>8. CASE s # <<>>
  <2>1. c \in InnerCalls(Top(t)) /\ ThreadOK(s, NoCall, life)
    BY <1>1, <1>2, <1>8 DEF s, Lives
  <2>2. \A u \in Threads \ {t}, p \in Procs : Chain(u) # <<>> /\ Ends(s[1], p) =>
          ~Uses(Chain(u)[1], p) /\ ~Ends(Chain(u)[1], p)
    BY <1>2, <1>8, EndedAlone
  <2>3. ASSUME NEW n \in {NoCall, c}, c.fn = "clone" => n = NoCall
        PROVE  /\ ThreadOK(r, n, Announced(c))
               /\ \/ Announced(c) = life
                  \/ /\ c.of \in Procs /\ Ends(s[1], c.of)
                     /\ \A q \in Procs \ {c.of} : Announced(c)[q] = life[q]
                     /\ Announced(c)[c.of] = "dying"
    BY <1>2, <1>4, <1>8, <2>1, <2>3, PushAnnounced DEF s
  <2>4. CASE /\ Free(t, MutexOf(c)) /\ c.fn \in {"KernelProcess", "eraseFromMap"}
             /\ next'[t] = NoCall /\ life' = Begun(c)
    <3>1. Announced(c) = life
      BY <2>4, SMTT(30) DEF Announced
    <3>2. ThreadOK(r, c, life)
      BY <2>3, <2>4, <3>1
    <3>3. c = r[Len(r)] /\ r \in Seq(Call) /\ \A i \in 1 .. Len(r) : Proper(r[i])
      <4>1. Len(r) = Len(s) + 1 /\ r[Len(s) + 1] = c /\ \A i \in 1 .. Len(s) : r[i] = s[i]
        BY <1>4 DEF Longer
      <4>2. \A i \in 1 .. Len(s) : Proper(s[i])
        BY <1>2, ChainIs
      <4> QED BY <1>3, <1>4, <4>1, <4>2
    <3>4. /\ ThreadOK(r, NoCall, Begun(c))
          /\ \/ Begun(c) = life
             \/ /\ c.of \in Procs /\ Ends(r[1], c.of)
                /\ \A q \in Procs \ {c.of} : Begun(c)[q] = life[q]
                /\ \/ Begun(c)[c.of] = "made"
                   \/ c.fn = "eraseFromMap" /\ MutexOf(c) = ksMutex
      BY <1>3, <1>4, <3>2, <3>3, BeginKept
    <3>5. MutexOf(c) = ksMutex => \A u \in Threads \ {t} : ksMutex \notin Holds(u)
      BY <2>4 DEF Free, ksMutex, Mutex, NoMutex
    <3>6. \/ life' = life
          \/ \E p \in Procs :
               /\ Ends(s[1], p)
               /\ \A q \in Procs \ {p} : life'[q] = life[q]
               /\ life'[p] \in Known \/ \A u \in Threads \ {t} : ksMutex \notin Holds(u)
      BY <1>4, <1>8, <2>4, <3>4, <3>5 DEF Known
    <3> QED BY <1>4, <1>5, <1>8, <2>2, <2>4, <3>4, <3>6, StepKeepsLives
  <2>5. CASE life' = Announced(c) /\ (next'[t] = NoCall \/ ~Free(t, MutexOf(c)))
    <3>1. c.fn = "clone" => next'[t] = NoCall
      <4> SUFFICES ASSUME c.fn = "clone" PROVE Free(t, MutexOf(c))
        BY <2>5
      <4>1. MutexOf(c) = NoMutex
        BY <1>3, Classes, SMTT(60) DEF ksMutexFunctions, kpMutexFunctions,
           thrashingMutexFunctions, myMutexFunctions, framesMutexFunctions, allocatorFunctions
      <4> QED BY <4>1 DEF Free
    <3>2. next'[t] \in {NoCall, c}
      BY <1>6
    <3>3. /\ ThreadOK(r, next'[t], life')
          /\ \/ life' = life
             \/ /\ c.of \in Procs /\ Ends(s[1], c.of)
                /\ \A q \in Procs \ {c.of} : life'[q] = life[q]
                /\ life'[c.of] = "dying"
      BY <2>3, <2>5, <3>1, <3>2
    <3>4. \/ life' = life
          \/ \E p \in Procs : /\ Ends(s[1], p)
                              /\ \A q \in Procs \ {p} : life'[q] = life[q]
                              /\ life'[p] \in Known
      BY <3>3 DEF Known
    <3> QED BY <1>4, <1>5, <1>8, <2>2, <3>3, <3>4, StepKeepsLives
  <2> QED BY <1>6, <2>4, <2>5
<1> QED BY <1>7, <1>8

LEMMA TakeMutexKeepsLives ==
  ASSUME Ordered, Lives, NEW t \in Threads, TakeMutex(t)
  PROVE  Lives'
<1> DEFINE s == stack[t]
           c == next[t]
           r == Append(s, c)
<1>1. /\ c # NoCall /\ Free(t, MutexOf(c)) /\ life' = Begun(c) /\ Typed
      /\ Chain(t) = r /\ c \in Call /\ s \in Seq(Call)
      /\ stack' = [stack EXCEPT ![t] = Append(@, next[t])]
      /\ next' = [next EXCEPT ![t] = NoCall]
  BY DEF TakeMutex, Ordered, Typed, Chain
<1>2. r \in Seq(Call) /\ r # <<>> /\ Longer(s, r, c)
  BY <1>1, AppendLonger DEF Longer
<1>3. /\ stack'[t] = r /\ next'[t] = NoCall
      /\ \A u \in Threads \ {t} : stack'[u] = stack[u] /\ next'[u] = next[u]
  BY <1>1 DEF Typed
<1>4. Chain(t)' = r
  BY <1>3 DEF Chain
<1> HIDE DEF r, s, c
<1>5. ThreadOK(r, c, life) /\ \A i \in 1 .. Len(r) : Proper(r[i])
  BY <1>1, <1>2, ChainIs DEF Lives, c
<1>6. c = r[Len(r)]
  BY <1>2 DEF Longer
<1>7. /\ ThreadOK(r, NoCall, Begun(c))
      /\ \/ Begun(c) = life
         \/ /\ c.of \in Procs /\ Ends(r[1], c.of)
            /\ \A q \in Procs \ {c.of} : Begun(c)[q] = life[q]
            /\ \/ Begun(c)[c.of] = "made"
               \/ c.fn = "eraseFromMap" /\ MutexOf(c) = ksMutex
  BY <1>1, <1>2, <1>5, <1>6, BeginKept
<1>8. MutexOf(c) = ksMutex => \A u \in Threads \ {t} : ksMutex \notin Holds(u)
  BY <1>1 DEF Free, ksMutex, Mutex, NoMutex
<1>9. \A u \in Threads \ {t}, p \in Procs : Chain(u) # <<>> /\ Ends(r[1], p) =>
        ~Uses(Chain(u)[1], p) /\ ~Ends(Chain(u)[1], p)
  BY <1>1, <1>2, EndedAlone
<1>10. \/ life' = life
       \/ \E p \in Procs :
            /\ Ends(r[1], p)
            /\ \A q \in Procs \ {p} : life'[q] = life[q]
            /\ life'[p] \in Known \/ \A u \in Threads \ {t} : ksMutex \notin Holds(u)
  BY <1>1, <1>7, <1>8 DEF Known
<1> QED BY <1>1, <1>3, <1>4, <1>7, <1>9, <1>10, StepKeepsLives

LEMMA ReturnKeepsLives ==
  ASSUME Ordered, Lives, NEW t \in Threads, Return(t)
  PROVE  Lives'
<1> DEFINE s == stack[t]
           r == SubSeq(s, 1, Len(s) - 1)
           c == s[Len(s)]
<1>1. /\ next[t] = NoCall /\ s # <<>> /\ Typed /\ s \in Seq(Call) /\ StackOK(s)
      /\ Chain(t) = s /\ ThreadOK(s, NoCall, life)
      /\ c.fn = "destroyKernelProcess" => life[c.of] = "dead"
      /\ stack' = [stack EXCEPT ![t] = SubSeq(@, 1, Len(@) - 1)] /\ UNCHANGED next
      /\ life' = IF Len(s) = 1 /\ c.child # 0
                 THEN [life EXCEPT ![c.child] = IF @ = "made" THEN "used" ELSE "dead"]
                 ELSE life
  BY DEF Return, Ordered, Typed, Chain, Lives, Top
<1>2. /\ r \in Seq(Call) /\ Len(r) = Len(s) - 1
      /\ \A k \in 1 .. Len(r) : r[k] = s[k]
  BY <1>1, Pop
<1>3. /\ stack'[t] = r /\ next'[t] = NoCall
      /\ \A u \in Threads \ {t} : stack'[u] = stack[u] /\ next'[u] = next[u]
  BY <1>1 DEF Typed
<1>4. Chain(t)' = r
  BY <1>3 DEF Chain
<1>5. \A u \in Threads \ {t}, p \in Procs : Chain(u) # <<>> /\ Ends(s[1], p) =>
        ~Uses(Chain(u)[1], p) /\ ~Ends(Chain(u)[1], p)
  BY <1>1, EndedAlone
<1> HIDE DEF r, c, s
<1>6. Len(s) \in Nat /\ Len(s) # 0
  BY <1>1
<1>7. CASE Len(s) # 1
  <2>1. life' = life /\ r # <<>> /\ r[1] = s[1]
    <3>1. Len(r) \in Nat /\ 1 \in 1 .. Len(r)
      BY <1>2, <1>6, <1>7
    <3> QED BY <1>1, <1>2, <1>7, <3>1
  <2>2. ThreadOK(r, NoCall, life)
    BY <1>1, <1>2, <2>1, ReturnKept DEF c
  <2> QED BY <1>3, <1>4, <1>5, <2>1, <2>2, StepKeepsLives
<1>8. CASE Len(s) = 1
  <2>1. r = <<>> /\ c = s[1]
    BY <1>2, <1>8 DEF c
  <2>2. \/ life' = life
        \/ \E p \in Procs :
             /\ Ends(s[1], p)
             /\ \A q \in Procs \ {p} : life'[q] = life[q]
             /\ life[p] \in Known => life'[p] \in Known
    <3> SUFFICES ASSUME c.child # 0
                 PROVE  LET p == c.child
                        IN  /\ p \in Procs /\ Ends(s[1], p)
                            /\ \A q \in Procs \ {p} : life'[q] = life[q]
                            /\ life[p] \in Known => life'[p] \in Known
      BY <1>1
    <3> DEFINE p == c.child
    <3>1. 1 \in 1 .. Len(s) /\ \A i \in 1 .. Len(s) : i = 1
      BY <1>8
    <3>2. c.fn \in {"createProcess", "cloneProcess", "clone"} /\ Proper(c)
      <4>1. Proper(c)
        BY <1>1, <2>1, <3>1 DEF StackOK, FitsAt
      <4> QED BY <1>1, <2>1, <3>1, <4>1 DEF ThreadOK, Linked
    <3>3. p \in Procs /\ Ends(s[1], p) /\ Makes(s[1], p)
      BY <2>1, <3>2 DEF Proper, Ends, Makes
    <3>4. life[p] # "dying" /\ life[p] # "used"
      BY <1>1, <2>1, <3>1, <3>2, <3>3 DEF ThreadOK, Staged
    <3>5. /\ life'[p] = (IF life[p] = "made" THEN "used" ELSE "dead")
          /\ \A q \in Procs \ {p} : life'[q] = life[q]
      BY <1>1, <1>8, <3>3 DEF Typed
    <3> HIDE DEF p
    <3>6. life[p] \in Known => life'[p] \in Known
      BY <3>4, <3>5 DEF Known
    <3> QED BY <3>3, <3>5, <3>6 DEF p
  <2> QED BY <1>3, <1>4, <1>5, <2>1, <2>2, StepKeepsLives
<1> QED BY <1>7, <1>8

LEMMA InitLives == Init => Lives
<1> SUFFICES ASSUME Init PROVE Lives
  OBVIOUS
<1>1. \A t \in Threads : Chain(t) = <<>>
  BY DEF Init, Chain
<1> QED BY <1>1 DEF Lives

\* In every state, what each thread does to processes fits their stages, and no
\* two threads make or delete the same process.
THEOREM LivesKept == Spec => [](Ordered /\ Lives)
<1>1. Init => Ordered /\ Lives
  BY InitOrdered, InitLives
<1>2. Ordered /\ Lives /\ [Next]_vars => Lives'
  <2> SUFFICES ASSUME Ordered, Lives, [Next]_vars PROVE Lives'
    OBVIOUS
  <2>1. ASSUME NEW t \in Threads, MakeCall(t) PROVE Lives'
    BY <2>1, MakeCallKeepsLives
  <2>2. ASSUME NEW t \in Threads, TakeMutex(t) PROVE Lives'
    BY <2>2, TakeMutexKeepsLives
  <2>3. ASSUME NEW t \in Threads, Return(t) PROVE Lives'
    BY <2>3, ReturnKeepsLives
  <2>4. CASE UNCHANGED vars
    <3>1. stack' = stack /\ next' = next /\ life' = life
      BY <2>4 DEF vars
    <3>2. \A t \in Threads : Chain(t)' = Chain(t)
      BY <3>1 DEF Chain
    <3> QED BY <3>1, <3>2 DEF Lives
  <2> QED BY <2>1, <2>2, <2>3, <2>4 DEF Next
<1> QED BY <1>1, <1>2, OrderKept, PTL DEF Spec

\* A call that takes a mutex of its process, in a chain that fits the stages:
\* if the process is gone, the thread is at the end of deleting it.
LEMMA AtItsEnd ==
  ASSUME NEW s \in Seq(Call), NEW n, NEW i \in 1 .. Len(s), ThreadOK(s, n, life),
         Proper(s[i]), MutexOf(s[i]).mutex \in {"kpMutex", "thrashingMutex"},
         life[s[i].of] = "dead"
  PROVE  n = NoCall /\ s[i].fn = "~KernelProcess"
<1> DEFINE c == s[i]
<1>1. Proper(c) /\ MutexOf(c).mutex \in {"kpMutex", "thrashingMutex"} /\ life[c.of] = "dead"
  OBVIOUS
<1>2. Justified(s, i, c, life) /\ Staged(s, n, life)
  BY DEF ThreadOK
<1> HIDE DEF c
<1>3. c.fn \in kpMutexFunctions \cup thrashingMutexFunctions
  BY <1>1, Classes, SMTT(60) DEF Mutex, ksMutex, NoMutex, allocatorFunctions
<1>4. c.fn \in OfProcess /\ c.of \in Procs
  BY <1>1, <1>3 DEF Proper, OfProcess, NeedsProcess
<1>5. Ends(s[1], c.of)
  <2>1. ~Uses(s[1], c.of)
    BY <1>1, <1>2, <1>4 DEF Staged
  <2>2. life[c.of] \notin Known
    BY <1>1 DEF Known
  <2> QED BY <1>2, <1>4, <2>1, <2>2 DEF Justified
<1>6. n = NoCall /\ c.fn \in Ending
  BY <1>1, <1>2, <1>4, <1>5 DEF Staged, c
<1>7. c.fn = "~KernelProcess"
  BY <1>3, <1>6 DEF Ending, kpMutexFunctions, thrashingMutexFunctions
<1> QED BY <1>6, <1>7 DEF c

\* Nobody takes or waits for a mutex of a KernelProcess that is gone: whoever
\* reaches a process is using it, or has found it in processMap under ksMutex,
\* which the removal takes too, or is the one that makes or deletes it.
THEOREM NoDeadProcessTouched == Spec => []NoDeadProcess
<1>1. Ordered /\ Lives => NoDeadProcess
  <2> SUFFICES ASSUME Ordered, Lives, NEW t \in Threads
               PROVE  /\ next[t] # NoCall =>
                           ~(/\ MutexOf(next[t]).mutex \in {"kpMutex", "thrashingMutex"}
                             /\ life[next[t].of] = "dead")
                      /\ \A i \in DOMAIN stack[t] :
                           (/\ MutexOf(stack[t][i]).mutex \in {"kpMutex", "thrashingMutex"}
                            /\ life[stack[t][i].of] = "dead") => Inside(t, {"~KernelProcess"})
    BY DEF NoDeadProcess
  <2> DEFINE s == Chain(t)
  <2>1. /\ s \in Seq(Call) /\ Len(s) \in Nat
        /\ \A i \in 1 .. Len(s) : Proper(s[i])
        /\ stack[t] \in Seq(Call) /\ Len(stack[t]) \in Nat
        /\ \A i \in 1 .. Len(stack[t]) : s[i] = stack[t][i]
        /\ next[t] = NoCall => s = stack[t]
        /\ next[t] # NoCall => Len(s) = Len(stack[t]) + 1 /\ s[Len(stack[t]) + 1] = next[t]
    BY ChainIs
  <2>2. s # <<>> => ThreadOK(s, next[t], life)
    BY DEF Lives
  <2> HIDE DEF s
  <2>3. ASSUME next[t] # NoCall, MutexOf(next[t]).mutex \in {"kpMutex", "thrashingMutex"},
               life[next[t].of] = "dead"
        PROVE  FALSE
    <3>1. Len(s) \in 1 .. Len(s) /\ s[Len(s)] = next[t] /\ s # <<>>
      BY <2>1, <2>3
    <3> QED BY <2>1, <2>2, <2>3, <3>1, AtItsEnd
  <2>4. ASSUME NEW i \in DOMAIN stack[t],
               MutexOf(stack[t][i]).mutex \in {"kpMutex", "thrashingMutex"},
               life[stack[t][i].of] = "dead"
        PROVE  Inside(t, {"~KernelProcess"})
    <3>1. i \in 1 .. Len(stack[t]) /\ i \in 1 .. Len(s) /\ s[i] = stack[t][i] /\ s # <<>>
      BY <2>1
    <3>2. s[i].fn = "~KernelProcess"
      BY <2>1, <2>2, <2>4, <3>1, AtItsEnd
    <3> QED BY <3>1, <3>2 DEF Inside
  <2> QED BY <2>3, <2>4
<1> QED BY <1>1, LivesKept, PTL

=============================================================================
