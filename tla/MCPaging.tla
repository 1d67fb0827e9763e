----------------------------- MODULE MCPaging -----------------------------
(* Instances of Paging for TLC.  The values of the constants are in the    *)
(* configurations; processes and clusters can be exchanged.                *)
EXTENDS PagingProperties, TLC

Exchange == Permutations(Procs) \cup Permutations(Clusters)

Orphans == {d \in FDs : /\ fd[d].owners = {} /\ ~fd[d].sharedBit
                        /\ fd[d].vmValid \/ fd[d].diskValid}
NoOrphans == Orphans = {}
===========================================================================
