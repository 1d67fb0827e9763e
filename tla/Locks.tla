------------------------------- MODULE Locks -------------------------------
(***************************************************************************)
(* The mutexes of the program and the threads that take them.  Every mutex *)
(* is taken by a locker object at the head of a function and given back    *)
(* when the function returns (stdmutexlocker.h), so what a thread holds    *)
(* follows from the functions it is in: a thread is a stack of calls.      *)
(*                                                                         *)
(* Calls lists, for each function, the functions below it that take a      *)
(* mutex.  A function calls them in any order and as often as it likes, or *)
(* not at all: the order inside a function, and the data that decide it,   *)
(* are left out, and what cannot happen here cannot happen in the code.    *)
(* What the calls do is the subject of Paging, Segments and Thrashing,     *)
(* which take for granted that ksMutex and kpMutex keep calls apart; that  *)
(* they do is shown here.                                                  *)
(***************************************************************************)
EXTENDS Naturals, Sequences

CONSTANTS
  Threads,    \* threads of the user
  NumProcs,   \* bound: processes that are ever created
  NoCall      \* the thread is not waiting

ASSUME NumProcsAssumption == NumProcs \in Nat

\* Processes in the order of their creation; 0 stands for a pid that
\* processMap does not hold.
Procs == 1 .. NumProcs
Pids == 0 .. NumProcs

---------------------------------------------------------------------------
(* The functions, by the mutex they take.  A loop body with a locker of    *)
(* its own counts as a function: perProcess and notify in processThrashing,*)
(* eraseFromMap at the end of ~KernelProcess, cloneInto for the second     *)
(* locker of cloneAllSegments.  systemAccess is KernelSystem::access.      *)

\* Mutants: one of these functions runs without ksMutex.
ksMutexNotDestroying ==
  {"createProcess", "createKernelProcess", "periodicJob", "cloneProcess", "systemAccess",
   "eraseFromMap"}
ksMutexNotAccessing ==
  {"createProcess", "createKernelProcess", "destroyKernelProcess", "periodicJob",
   "cloneProcess", "eraseFromMap"}
ksMutexNotPeriodic ==
  {"createProcess", "createKernelProcess", "destroyKernelProcess", "cloneProcess",
   "systemAccess", "eraseFromMap"}
ksMutexFunctions ==
  {"createProcess", "createKernelProcess", "destroyKernelProcess", "periodicJob",
   "cloneProcess", "systemAccess", "eraseFromMap"}
kpMutexFunctions ==
  {"KernelProcess", "~KernelProcess", "access", "deleteSegmentPrivate",
   "deleteSegmentShared", "deleteSegmentImpl", "allocateNewSegment",
   "allocateCloneSegment", "allocateSharedSegment", "allocateEmptySegment",
   "cloneAllSegments", "cloneInto", "perProcess"}
thrashingMutexFunctions == {"notify", "blockIfThrashing"}
myMutexFunctions ==
  {"managerCreate", "managerDisconnect", "managerDisconnectAll", "managerDelete"}
framesMutexFunctions ==
  {"loadFrameInVM", "removeProcessFromFrameOwners", "frameDescFromPMT2Desc"}
allocatorFunctions == {"vmAllocator", "clusterAllocator", "spaceAllocator"}
unlockedFunctions ==
  {"processThrashing", "pageFault", "createSegment", "loadSegment", "clone",
   "cloneOneSegment", "createSharedSegment", "disconnectSharedSegment",
   "deleteSharedSegment"}
Functions ==
  ksMutexFunctions \cup kpMutexFunctions \cup thrashingMutexFunctions
    \cup myMutexFunctions \cup framesMutexFunctions \cup allocatorFunctions
    \cup unlockedFunctions \cup {"doInstruction"}

KernelSystemCalls(fn) ==
  CASE fn = "createProcess" -> {"createKernelProcess"}
    [] fn = "createKernelProcess" -> {"spaceAllocator", "KernelProcess"}
    [] fn = "destroyKernelProcess" -> {"~KernelProcess"}
    [] fn = "cloneProcess" -> {"clone"}
    [] fn = "systemAccess" -> {"access"}
    [] fn = "periodicJob" -> {"processThrashing"}
    [] fn = "processThrashing" -> {"perProcess", "notify"}
    [] OTHER -> {}

KernelProcessCalls(fn) ==
  CASE fn = "~KernelProcess" ->
         {"disconnectSharedSegment", "deleteSegmentPrivate", "spaceAllocator", "eraseFromMap"}
    [] fn = "pageFault" -> {"loadFrameInVM", "frameDescFromPMT2Desc"}
    [] fn = "createSegment" -> {"allocateNewSegment", "deleteSegmentPrivate"}
    [] fn = "loadSegment" -> {"allocateNewSegment", "loadFrameInVM", "deleteSegmentPrivate"}
    [] fn = "allocateNewSegment" -> {"allocateEmptySegment"}
    [] fn = "allocateEmptySegment" -> {"spaceAllocator"}
    [] fn = "deleteSegmentPrivate" -> {"deleteSegmentImpl"}
    [] fn = "deleteSegmentShared" -> {"deleteSegmentImpl"}
    [] fn = "deleteSegmentImpl" ->
         {"frameDescFromPMT2Desc", "removeProcessFromFrameOwners", "spaceAllocator"}
    [] fn = "createSharedSegment" ->
         {"managerCreate", "allocateSharedSegment", "disconnectSharedSegment"}
    [] fn = "allocateSharedSegment" -> {"allocateEmptySegment", "disconnectSharedSegment"}
    [] fn = "disconnectSharedSegment" -> {"managerDisconnect", "deleteSegmentShared"}
    [] fn = "deleteSharedSegment" -> {"managerDelete"}
    [] OTHER -> {}

CloneCalls(fn) ==
  CASE fn = "clone" -> {"createKernelProcess", "cloneAllSegments", "destroyKernelProcess"}
    [] fn = "cloneAllSegments" -> {"cloneInto"}
    [] fn = "cloneInto" ->
         {"cloneOneSegment", "createSharedSegment", "deleteSegmentPrivate",
          "disconnectSharedSegment"}
    [] fn = "cloneOneSegment" -> {"allocateCloneSegment", "deleteSegmentPrivate"}
    [] fn = "allocateCloneSegment" -> {"allocateEmptySegment", "frameDescFromPMT2Desc"}
    [] OTHER -> {}

ManagerCalls(fn) ==
  CASE fn = "managerDelete" -> {"managerDisconnectAll", "removeProcessFromFrameOwners"}
    [] fn = "managerDisconnectAll" -> {"managerDisconnect"}
    [] fn = "loadFrameInVM" -> {"frameDescFromPMT2Desc", "vmAllocator", "clusterAllocator"}
    [] fn = "removeProcessFromFrameOwners" -> {"vmAllocator", "clusterAllocator"}
    [] fn = "doInstruction" -> {"systemAccess", "pageFault"}
    [] OTHER -> {}

Calls(fn) ==
  KernelSystemCalls(fn) \cup KernelProcessCalls(fn) \cup CloneCalls(fn) \cup ManagerCalls(fn)

\* What a user calls on a Process
ProcessFunctions ==
  {"pageFault", "createSegment", "loadSegment", "deleteSegmentPrivate",
   "createSharedSegment", "disconnectSharedSegment", "deleteSharedSegment",
   "blockIfThrashing", "doInstruction"}

---------------------------------------------------------------------------
(* A call: the function, the process whose member it is, and the process   *)
(* that it creates or clones into, if it does.                             *)

Call == [fn : Functions, of : Pids, child : Pids]
CallOf(fn, of, child) == [fn |-> fn, of |-> of, child |-> child]

ASSUME NoCallAssumption == NoCall \notin Call

NoMutex == [mutex |-> "none", of |-> 0]
Mutex(kind, of) == [mutex |-> kind, of |-> of]
MutexOf(c) ==
  CASE c.fn \in ksMutexFunctions -> Mutex("ksMutex", 0)
    [] c.fn \in kpMutexFunctions -> Mutex("kpMutex", c.of)
    [] c.fn \in thrashingMutexFunctions -> Mutex("thrashingMutex", c.of)
    [] c.fn \in myMutexFunctions -> Mutex("myMutex", 0)
    [] c.fn \in framesMutexFunctions -> Mutex("framesMutex", 0)
    [] c.fn \in allocatorFunctions -> Mutex(c.fn, 0)
    [] c.fn = "doInstruction" -> Mutex("globalMutex", 0)
    [] OTHER -> NoMutex
\* std::recursive_mutex, as opposed to std::mutex
Recursive(m) == m.mutex \notin {"thrashingMutex", "globalMutex"}

VARIABLES
  stack,   \* thread -> the calls it is in, the innermost one last
  next,    \* thread -> the call whose mutex it is waiting for
  life     \* process -> its stage

vars == <<stack, next, life>>

\* "reserved": its creation has begun.  "made": it is in processMap and the
\* user does not have it yet.  "used": the user has it.  "dying": the user or
\* a failed clone deletes it.  "dead": its KernelProcess is gone, or never was.
Stages == {"unborn", "reserved", "made", "used", "dying", "dead"}
processMap == {p \in Procs : life[p] \in {"made", "used", "dying"}}
Unborn(p) == p \in Procs /\ \A q \in Procs : life[q] = "unborn" <=> p <= q

Top(t) == stack[t][Len(stack[t])]
Holds(t) == {MutexOf(stack[t][i]) : i \in DOMAIN stack[t]} \ {NoMutex}
\* lock() returns at once
Free(t, m) ==
  m # NoMutex => \A u \in Threads : m \in Holds(u) => u = t /\ Recursive(m)

Init ==
  /\ stack = [t \in Threads |-> <<>>]
  /\ next = [t \in Threads |-> NoCall]
  /\ life = [p \in Procs |-> "unborn"]

---------------------------------------------------------------------------
(* Calls of the user.                                                      *)

\* Mutant: a pid is used without looking whether the map holds it.
FoundUnchecked(pid) == TRUE
Found(pid) == pid \in processMap

\* Some thread is inside a member function that the user called on p.
Busy(p) ==
  \E t \in Threads :
    \/ /\ stack[t] # <<>>
       /\ stack[t][1].fn \in ProcessFunctions \cup {"clone", "destroyKernelProcess"}
       /\ stack[t][1].of = p
    \/ /\ stack[t] = <<>> /\ next[t] # NoCall
       /\ next[t].fn \in ProcessFunctions \cup {"clone", "destroyKernelProcess"}
       /\ next[t].of = p

UserCalls ==
  {CallOf("periodicJob", 0, 0)}
    \cup {CallOf("systemAccess", pid, 0) : pid \in Pids}
    \cup {CallOf("createProcess", p, p) : p \in {q \in Procs : Unborn(q)}}
    \cup {CallOf("cloneProcess", pid, p) : pid \in {q \in Pids : q = 0 \/ life[q] # "unborn"},
                                           p \in {q \in Procs : Unborn(q)}}
    \cup {CallOf("clone", p, q) : p \in {r \in Procs : life[r] = "used"},
                                  q \in {r \in Procs : Unborn(r)}}
    \cup {CallOf(fn, p, 0) : fn \in ProcessFunctions, p \in {q \in Procs : life[q] = "used"}}
    \* The user deletes a Process when no call on it is under way.
    \cup {CallOf("destroyKernelProcess", p, 0) :
            p \in {q \in Procs : life[q] = "used" /\ ~Busy(q)}}

(* Calls of a function.                                                    *)

\* The process that a function below c works on: processThrashing walks over
\* processMap, createKernelProcess and the like take the new process.
Target(c, fn) ==
  CASE c.fn = "processThrashing" -> processMap
    [] fn \in {"createKernelProcess", "cloneInto"} -> {c.child}
    [] c.fn = "clone" /\ fn = "destroyKernelProcess" -> {c.child}
    [] OTHER -> {c.of}

\* What must hold for c to get as far as the call.
Reached(c, fn) ==
  CASE fn = "createKernelProcess" -> life[c.child] = "reserved"
    [] fn = "KernelProcess" -> life[c.of] = "reserved"
    [] fn = "cloneAllSegments" -> life[c.child] = "made"
    [] c.fn = "clone" /\ fn = "destroyKernelProcess" -> life[c.child] = "made"
    [] c.fn \in {"~KernelProcess", "destroyKernelProcess"} -> life[c.of] = "dying"
    [] c.fn \in {"systemAccess", "cloneProcess"} -> Found(c.of)
    [] OTHER -> TRUE

InnerCalls(c) ==
  UNION {{CallOf(fn, of, c.child) : of \in Target(c, fn)} :
           fn \in {g \in Calls(c.fn) : Reached(c, g)}}

---------------------------------------------------------------------------
(* Steps of a thread.                                                      *)

\* What becomes of a process when c is made, and when c has its mutex.
Announced(c) ==
  CASE c.fn \in {"createProcess", "cloneProcess", "clone"} /\ life[c.child] = "unborn"
         -> [life EXCEPT ![c.child] = "reserved"]
    [] c.fn = "destroyKernelProcess" -> [life EXCEPT ![c.of] = "dying"]
    [] OTHER -> life
Begun(c) ==
  CASE c.fn = "KernelProcess" -> [life EXCEPT ![c.of] = "made"]
    [] c.fn = "eraseFromMap" -> [life EXCEPT ![c.of] = "dead"]
    [] OTHER -> life

\* A call with its mutex free begins; otherwise the thread waits.
MakeCall(t) ==
  /\ next[t] = NoCall
  /\ \E c \in IF stack[t] = <<>> THEN UserCalls ELSE InnerCalls(Top(t)) :
       \/ /\ Free(t, MutexOf(c))
          /\ stack' = [stack EXCEPT ![t] = Append(@, c)]
          /\ life' = IF c.fn \in {"KernelProcess", "eraseFromMap"} THEN Begun(c) ELSE Announced(c)
          /\ UNCHANGED next
       \/ /\ ~Free(t, MutexOf(c))
          /\ next' = [next EXCEPT ![t] = c]
          /\ life' = Announced(c)
          /\ UNCHANGED stack

TakeMutex(t) ==
  /\ next[t] # NoCall
  /\ Free(t, MutexOf(next[t]))
  /\ stack' = [stack EXCEPT ![t] = Append(@, next[t])]
  /\ next' = [next EXCEPT ![t] = NoCall]
  /\ life' = Begun(next[t])

\* The call that made a process hands it to the user.  Of the calls of a
\* function only the removal from processMap is sure to have been made.
Return(t) ==
  /\ next[t] = NoCall /\ stack[t] # <<>>
  /\ Top(t).fn \in {"~KernelProcess", "destroyKernelProcess"} => life[Top(t).of] = "dead"
  /\ stack' = [stack EXCEPT ![t] = SubSeq(@, 1, Len(@) - 1)]
  /\ life' = IF Len(stack[t]) = 1 /\ Top(t).child # 0
             THEN [life EXCEPT ![Top(t).child] = IF @ = "made" THEN "used" ELSE "dead"]
             ELSE life
  /\ UNCHANGED next

Next == \E t \in Threads : MakeCall(t) \/ TakeMutex(t) \/ Return(t)

Spec == Init /\ [][Next]_vars
---------------------------------------------------------------------------
(* Properties.                                                             *)

NeedsProcess ==
  kpMutexFunctions \cup thrashingMutexFunctions \cup {"createKernelProcess", "destroyKernelProcess"}

\* Threads are in calls of the program, and a function that works on a process
\* is never entered for pid 0, the clone that cloneProcess did not make.  (That
\* the process is there and alive is the matter of NoDeadProcess.)
TypeOK ==
  /\ stack \in [Threads -> Seq(Call)]
  /\ next \in [Threads -> Call \cup {NoCall}]
  /\ life \in [Procs -> Stages]
  /\ \A t \in Threads : \A i \in DOMAIN stack[t] :
       stack[t][i].fn \in NeedsProcess => stack[t][i].of \in Procs

\* No threads wait in a circle: there is no set of threads each of which waits
\* for a mutex that a thread of the set holds.  (That includes a thread that
\* waits for a mutex it holds itself and that is not recursive.)
NoCircularWait ==
  \A S \in SUBSET Threads :
    (\A t \in S : /\ next[t] # NoCall
                  /\ \E u \in S : MutexOf(next[t]) \in Holds(u)
                  /\ ~Free(t, MutexOf(next[t])))
      => S = {}

\* A round of processThrashing has the processes for itself: nobody else is in
\* access, which adds to accessHistory, in the constructor or destructor, which
\* change processMap, or in another round.  The working sets that are
\* subtracted are those that were summed.
Inside(t, fns) == \E i \in DOMAIN stack[t] : stack[t][i].fn \in fns
RoundAlone ==
  \A t, u \in Threads :
    t # u /\ Inside(t, {"processThrashing"})
      => ~Inside(u, {"processThrashing", "access", "KernelProcess", "~KernelProcess"})

\* Nobody holds or waits for a mutex inside a KernelProcess that is gone; the
\* thread that is deleting it still holds it.
NoDeadProcess ==
  LET dead(c) == /\ MutexOf(c).mutex \in {"kpMutex", "thrashingMutex"}
                 /\ life[c.of] = "dead"
  IN \A t \in Threads :
       /\ next[t] # NoCall => ~dead(next[t])
       /\ \A i \in DOMAIN stack[t] :
            dead(stack[t][i]) => Inside(t, {"~KernelProcess"})
=============================================================================
