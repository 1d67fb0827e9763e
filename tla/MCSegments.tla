----------------------------- MODULE MCSegments -----------------------------
(* An instance of Segments for TLC, and the address arithmetic against what *)
(* it is to compute.                                                        *)
EXTENDS Segments, TLC

\* What follows the damage of a process is explored while no other process
\* lives, the parent of a running clone apart; what a deletion does to an attach
\* that is under way is followed while the others have done nothing.
DamageBound ==
  spoiled # {} => \E p \in spoiled :
    \/ /\ spoiled = {p}
       /\ Cardinality({q \in Procs : /\ life[q] \in {"live", "cloning", "destroying"}
                                     /\ kpMutexFree(q)}) <= 1
    \/ /\ call[p].op = "attach" /\ AttachedTo(proc[p], call[p].name) = {}
       /\ job = NoJob
       /\ \A q \in Procs \ {p} : proc[q] = NewProcess /\ call[q] = Idle

\* The bounds test of allocateEmptySegment admits exactly the aligned segments
\* that end inside the address space, as long as size * PageSize is below
\* 2^WordBits - MaxVirtualAddress.
ASSUME \A address \in 0 .. MaxVirtualAddress + PageSize, size \in 1 .. 2 * PagesNum :
  segmentFits(address, size)
    <=> address % PageSize = 0 /\ address + size * PageSize <= PagesNum * PageSize

\* The probes of getNumOfPMT2ToBeAllocated meet each table of the segment once.
ASSUME \A start \in PageIds, size \in Sizes :
  start + size <= PagesNum =>
    getNumOfPMT2ToBeAllocated(NewProcess, start, start + size)
      = Cardinality({page1FromPage(i) : i \in SpanOf(start, size)})
=============================================================================
