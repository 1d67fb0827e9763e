----------------------------- MODULE Thrashing -----------------------------
(***************************************************************************)
(* Thrashing control: KernelSystem::periodicJob with the thrashing manager *)
(* (thrashingmanager.cpp), and KernelProcess::blockIfThrashing, which the  *)
(* thread of a process calls before an instruction.                        *)
(*                                                                         *)
(* periodicJob, System::access and the creation and destruction of a       *)
(* process hold ksMutex from end to end and are one step each.             *)
(* blockIfThrashing holds nothing when it looks at isInThrashing, so the   *)
(* look and the wait are two steps.  A round of the job changes one flag   *)
(* of a process at most once, and the steps of its thread see no other     *)
(* part of the round: a round is atomic to them.                           *)
(*                                                                         *)
(* The unordered map of processes is visited in any order.                 *)
(***************************************************************************)
EXTENDS Naturals, FiniteSets, SequencesExt

CONSTANTS
  Procs,         \* process ids
  VPages,        \* virtual pages of a process
  SizeInFrames,  \* frames of VM memory
  Period         \* calls of periodicJob between two rounds (50)

ASSUME PagesAssumption  == IsFiniteSet(VPages)
ASSUME MemoryAssumption == SizeInFrames \in Nat
ASSUME PeriodAssumption == Period \in Nat \ {0, 1}

VARIABLES
  live,           \* the processes of processMap
  isInThrashing,  \* process -> is it to be blocked?
  accessHistory,  \* process -> the pages it accessed since its last round
  counter,        \* counterForThrashingProcessing
  thread          \* process -> where its thread is

vars == <<live, isInThrashing, accessHistory, counter, thread>>

\* "out": between two instructions, "checked": it saw isInThrashing and is
\* about to wait, "asleep": it waits, "in": blockIfThrashing has returned.
Phases == {"out", "checked", "asleep", "in"}

TypeOK ==
  /\ live \subseteq Procs
  /\ isInThrashing \in [Procs -> BOOLEAN]
  /\ accessHistory \in [Procs -> SUBSET VPages]
  /\ counter \in 1 .. Period
  /\ thread \in [Procs -> Phases]

Init ==
  /\ live = {}
  /\ isInThrashing = [p \in Procs |-> FALSE]
  /\ accessHistory = [p \in Procs |-> {}]
  /\ counter = Period
  /\ thread = [p \in Procs |-> "out"]

---------------------------------------------------------------------------
(* Processes.                                                              *)

CreateProcess(p) ==
  /\ p \notin live
  /\ live' = live \cup {p}
  /\ UNCHANGED <<isInThrashing, accessHistory, counter, thread>>

\* The destructor puts the next round off by a whole period.  Whoever destroys
\* a process has seen to it that its thread is not inside the kernel.
DestroyProcess(p) ==
  /\ p \in live
  /\ thread[p] = "out"
  /\ live' = live \ {p}
  /\ isInThrashing' = [isInThrashing EXCEPT ![p] = FALSE]
  /\ accessHistory' = [accessHistory EXCEPT ![p] = {}]
  /\ counter' = Period
  /\ UNCHANGED thread

CheckThrashing(p) ==
  /\ p \in live
  /\ thread[p] = "out"
  /\ thread' = [thread EXCEPT ![p] = IF isInThrashing[p] THEN "checked" ELSE "in"]
  /\ UNCHANGED <<live, isInThrashing, accessHistory, counter>>

\* condVarThrashingBlock.wait(lck), without a predicate.
Wait(p) ==
  /\ thread[p] = "checked"
  /\ thread' = [thread EXCEPT ![p] = "asleep"]
  /\ UNCHANGED <<live, isInThrashing, accessHistory, counter>>

\* A condition variable may wake a thread up without a notification.
SpuriousWakeup(p) ==
  /\ thread[p] = "asleep"
  /\ thread' = [thread EXCEPT ![p] = "in"]
  /\ UNCHANGED <<live, isInThrashing, accessHistory, counter>>

\* The instruction's accesses: those that are granted enter the history.
Access(p, pages) ==
  /\ thread[p] = "in"
  /\ thread' = [thread EXCEPT ![p] = "out"]
  /\ accessHistory' = [accessHistory EXCEPT ![p] = @ \cup pages]
  /\ UNCHANGED <<live, isInThrashing, counter>>

---------------------------------------------------------------------------
(* A round.                                                                *)

Active  == {p \in live : ~isInThrashing[p]}
Blocked == {p \in live : isInThrashing[p]}

WorkingSet(p) == Cardinality(accessHistory[p])

\* The sum of their working sets, which the code keeps as it goes: a process
\* adds its own to it or takes it away (RunningSum of ThrashingProofs).
Accessed(S) == {e \in S \X VPages : e[2] \in accessHistory[e[1]]}
Needed(S)   == Cardinality(Accessed(S))

FitsWithRoom(needed) == needed < SizeInFrames
Fits(needed)         == needed <= SizeInFrames

Before(order, i) == {order[j] : j \in 1 .. i - 1}

\* Blocked processes are visited in an order.  One is released if it fits beside
\* the active ones and those that were released before it.
ReleasedAlone(order, chosen) ==
  \A i \in DOMAIN order :
    order[i] \in chosen <=> Fits(Needed(Active \cup {order[i]}))
ReleasedToFirstTooLarge(order, chosen) ==
  \A i \in DOMAIN order :
    order[i] \in chosen <=> Fits(Needed(Active \cup Before(order, i) \cup {order[i]}))
Released(order, chosen) ==
  \A i \in DOMAIN order :
    order[i] \in chosen <=>
      Fits(Needed(Active \cup (chosen \cap Before(order, i)) \cup {order[i]}))

\* Active processes are blocked in an order, until those that are left fit.
NewlyBlockedAll(order, chosen) == chosen = ToSet(order)
NewlyBlocked(order, chosen) ==
  \A i \in DOMAIN order :
    order[i] \in chosen <=> ~Fits(Needed(Active \ Before(order, i)))

\* A process that is active after the round starts a new history.
NewHistories ==
  [p \in Procs |-> IF p \in live /\ ~isInThrashing'[p] THEN {}
                   ELSE accessHistory[p]]

NotWoken(chosen) == thread
Woken(chosen) ==
  [p \in Procs |-> IF p \in chosen /\ thread[p] = "asleep" THEN "in"
                   ELSE thread[p]]

ReleaseRound ==
  /\ Fits(Needed(Active))
  /\ \E order \in SetToSeqs(Blocked), chosen \in SUBSET Blocked :
       /\ Released(order, chosen)
       /\ isInThrashing' = [p \in Procs |-> isInThrashing[p] /\ p \notin chosen]
       /\ thread' = Woken(chosen)
  /\ accessHistory' = NewHistories

BlockRound ==
  /\ ~Fits(Needed(Active))
  /\ \E order \in SetToSeqs(Active), chosen \in SUBSET Active :
       /\ NewlyBlocked(order, chosen)
       /\ isInThrashing' = [p \in Procs |-> isInThrashing[p] \/ p \in chosen]
  /\ accessHistory' = NewHistories
  /\ UNCHANGED thread

CounterSpent  == counter - 1
CounterRenewed == Period

\* processThrashing, called by periodicJob while there are processes.
PeriodicJob ==
  /\ live # {}
  /\ \/ /\ counter > 1
        /\ counter' = counter - 1
        /\ UNCHANGED <<isInThrashing, accessHistory, thread>>
     \/ /\ counter = 1
        /\ counter' = CounterRenewed
        /\ ReleaseRound \/ BlockRound
  /\ UNCHANGED live

---------------------------------------------------------------------------
Thread(p) ==
  \/ CheckThrashing(p) \/ Wait(p) \/ SpuriousWakeup(p)
  \/ \E v \in VPages : Access(p, {v})
  \/ Access(p, {})

Next ==
  \/ \E p \in Procs : CreateProcess(p) \/ DestroyProcess(p) \/ Thread(p)
  \/ PeriodicJob

\* The program calls periodicJob as long as there are processes (main.cpp:56),
\* and a thread that is about to wait does so.
Fairness == WF_vars(PeriodicJob) /\ \A p \in Procs : WF_vars(Wait(p))

Spec     == Init /\ [][Next]_vars
FairSpec == Spec /\ Fairness

---------------------------------------------------------------------------
(* Properties.                                                             *)

Round == counter = 1 /\ live' = live /\ counter' # counter

\* After a round the working sets of the processes that may run fit memory:
\* several processes are released or blocked in one round, one after the other
\* (thrashingmanager.cpp:64-103).
ActiveAfter    == {p \in live : ~isInThrashing'[p]}
WorkingSetsFit == [][Round => Needed(ActiveAfter) <= SizeInFrames]_vars

\* A round stops at the right time.  If those who may run fit memory it blocks
\* nobody, and each process that stays blocked is too large for the frames that
\* are left.  If they do not, it releases nobody and blocks no more than it must
\* in its order: the last one it blocked would not fit beside those it spares.
\* It does not look back: of working sets 1, 2, 1 in 2 frames it may block the
\* first two, and the first would fit (thrashingmanager.cpp:92-103).
RoundStopsInTime ==
  [][Round =>
       LET new == {p \in Active : isInThrashing'[p]}
           TooLarge(p) == Needed(ActiveAfter \cup {p}) > SizeInFrames
       IN  IF Fits(Needed(Active))
           THEN new = {} /\ \A p \in live \ ActiveAfter : TooLarge(p)
           ELSE ActiveAfter \subseteq Active /\ \E p \in new : TooLarge(p)]_vars

\* What a round did not look back at a later one makes up for: no process stays
\* blocked for ever while it would fit beside those that may run, unless rounds
\* are put off for ever, as each destruction does (kernelprocess.cpp:67).
WhoFitsRuns ==
  \A p \in Procs :
    <>[](p \in Blocked /\ Fits(Needed(Active \cup {p})))
      => []<><<\E q \in Procs : DestroyProcess(q)>>_vars

\* The system does not stop for thrashing: it does not stay in a state in which
\* every process is to be blocked, provided that each one fits memory alone.
SomeoneMayRun == []<>(live = {} \/ Active # {})

\* A process that waits beside no other is woken up in the end, if its working
\* set fits memory (thrashingmanager.cpp:77-84).
LastIsWoken ==
  \A p \in Procs :
    live = {p} /\ thread[p] = "asleep" /\ isInThrashing[p] /\ Fits(WorkingSet(p))
      ~> live # {p} \/ thread[p] # "asleep"

\* A process that is made active is notified (thrashingmanager.cpp:78-79), so
\* that it does not go on waiting while it may run.
ActiveProcessWakes ==
  \A p \in Procs :
    thread[p] = "asleep" /\ ~isInThrashing[p]
      ~> thread[p] # "asleep" \/ isInThrashing[p]

===========================================================================
