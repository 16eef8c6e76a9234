---------------------------- MODULE CriticalPath ----------------------------
(***************************************************************************)
(* get_critical_path_indices of solver/dag.py, called on a state that       *)
(* run_cpm has finished: one action per activity appended to the path.  The *)
(* first critical successor is the first in the order of the request's      *)
(* links, which is left open here.                                          *)
(***************************************************************************)
EXTENDS Cpm, Sequences

VARIABLES path, walk

walkVars == <<vars, path, walk>>

-----------------------------------------------------------------------------
CriticalPreds(i) == {e.from : e \in LinksInto(i)} \cap critical_mask
AnySuccs(i) == {e.to : e \in LinksFrom(i)}
CriticalSuccs(i) == {e.to : e \in LinksFrom(i)} \cap critical_mask

\* The earliest in topological order of the critical activities that have no
\* critical predecessor; if there were none, the smallest critical index.
Starts ==
    LET firsts == {q \in 1..N : /\ topo_order[q] \in critical_mask
                                /\ CriticalPreds(topo_order[q]) = {}}
    IN  IF firsts = {} THEN {i \in critical_mask : IsMin(i, critical_mask)}
                       ELSE {topo_order[q] : q \in {p \in firsts : IsMin(p, firsts)}}

WalkInit == Init /\ path = <<>> /\ walk = "idle"

RunCpm == Next /\ walk = "idle" /\ UNCHANGED <<path, walk>>

Start ==
    /\ pc = "done" /\ walk = "idle"
    /\ IF critical_mask = {} THEN path' = <<>> /\ walk' = "done"
       ELSE /\ \E i \in Starts : path' = <<i>>
            /\ walk' = "walking"
    /\ UNCHANGED vars

PathEnd == path[Len(path)]

AppendSuccessor ==
    /\ walk = "walking"
    /\ \E s \in CriticalSuccs(PathEnd) : path' = Append(path, s)
    /\ UNCHANGED <<vars, walk>>

Stop ==
    /\ walk = "walking" /\ CriticalSuccs(PathEnd) = {}
    /\ walk' = "done"
    /\ UNCHANGED <<vars, path>>

WalkNext == RunCpm \/ Start \/ AppendSuccessor \/ Stop

WalkSpec == /\ WalkInit /\ [][WalkNext]_walkVars
            /\ WF_walkVars(RunCpm) /\ WF_walkVars(Start \/ AppendSuccessor \/ Stop)

-----------------------------------------------------------------------------
(* Properties *)

\* The path reaches from time zero to the makespan: its first activity starts
\* at once and its last ends the project, so it is never empty and the
\* fallback start is never needed.
PathSpansProject ==
    walk = "done" => /\ path # <<>>
                     /\ ES[path[1]] = 0
                     /\ EF[PathEnd] = makespan

\* The path is in topological order: no activity comes before its predecessor.
PathInOrder ==
    \A i, j \in 1..Len(path) : i < j =>
        \E p, q \in 1..N : p < q /\ topo_order[p] = path[i] /\ topo_order[q] = path[j]

\* The path reported spans the project in topological order, over a critical
\* mask that itself forms chains of driving links.
CriticalPathSound == CriticalChains /\ PathInOrder /\ PathSpansProject
=============================================================================
