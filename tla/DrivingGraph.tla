---------------------------- MODULE DrivingGraph ----------------------------
(***************************************************************************)
(* extract_driving_graph of paths/driving_graph.py on the dates that run_cpm *)
(* leaves for the active part of a schedule: chains of driving predecessors  *)
(* are searched backwards from the end, first through critical and then      *)
(* through near-critical activities, and a greedy selection keeps the chains *)
(* that differ enough (selection_mode "outliers"; "raw" shows them all).     *)
(***************************************************************************)
EXTENDS Cpm, Sequences, FiniteSets, SequencesExt

CONSTANTS
    start_idx, end_idx,
    near_critical_float_tol, near_driving_tol,
    max_critical_chains, max_near_critical_chains,
    max_expansions, max_depth_guard,
    max_display_chains,
    min_jaccard_novelty   \* in percent

\* The activities between start and end: what _reachable and _can_reach keep.
Closed(C, ls) == \A e \in ls : e.from \in C => e.to \in C
Active(ls) ==
    {j \in Activities :
        /\ \A C \in SUBSET Activities : start_idx \in C /\ Closed(C, ls) => j \in C
        /\ \A C \in SUBSET Activities : j \in C /\ Closed(C, ls) => end_idx \in C}

\* CPM runs on the schedule filtered to its active part.  (In a schedule with
\* cycles the second build_dag may cut other links than the first one.)
ASSUME ActiveAssumption ==
    /\ start_idx \in Activities /\ end_idx \in Activities /\ start_idx # end_idx
    /\ \A s \in Snapshots : Active(s.links) = Activities
ASSUME ConfigAssumption ==
    /\ near_critical_float_tol \in Nat /\ near_driving_tol \in Nat
    /\ max_critical_chains \in Nat /\ max_near_critical_chains \in Nat
    /\ max_expansions \in Nat /\ max_depth_guard \in Nat /\ max_display_chains \in Nat
    /\ min_jaccard_novelty \in 0..100

VARIABLES
    phase,        \* "cpm", the search ("critical", "near"), "select", "done"
    stack,        \* from the end backwards: a node and the predecessors to try
    expansions,
    out,          \* the chains the search has found
    critical_chains, near_critical_chains,
    edge_index,   \* per hop the link that its duration is computed with
    candidates,   \* the chains still to be looked at
    sel           \* the chains selected

search == <<stack, expansions, out>>
chains == <<critical_chains, near_critical_chains, edge_index>>
selection == <<candidates, sel>>
drivingVars == <<vars, phase, search, chains, selection>>

-----------------------------------------------------------------------------
Greatest(S) == CHOOSE m \in S : \A x \in S : x <= m

\* How far predecessor p was from fixing the start of j; of parallel links the
\* most constraining one counts.
Preds(j) == {e.from : e \in LinksInto(j)}
candidate_es(j, p) == Greatest({ForwardBound(e) : e \in {f \in LinksInto(j) : f.from = p}})
delta(j, p) == Greatest({candidate_es(j, q) : q \in Preds(j)}) - candidate_es(j, p)

\* The predecessors a search follows: driving ones between critical activities,
\* nearly driving ones between nearly critical activities.
Tolerance(ph) == IF ph = "critical" THEN [slack |-> 0, delta |-> 0]
                 ELSE [slack |-> near_critical_float_tol, delta |-> near_driving_tol]
PredSet(ph, j) ==
    {p \in Preds(j) : /\ delta(j, p) <= Tolerance(ph).delta
                      /\ TF[j] <= Tolerance(ph).slack /\ TF[p] <= Tolerance(ph).slack}

Frame(j) == [node |-> j, visited |-> FALSE, preds |-> {}]
Top == Last(stack)
ChainOf(s) == [k \in 1..Len(s) |-> s[Len(s) + 1 - k].node]
Limit == IF phase = "critical" THEN max_critical_chains ELSE max_near_critical_chains

DrivingInit ==
    /\ Init
    /\ phase = "cpm"
    /\ stack = <<>> /\ expansions = 0 /\ out = <<>>
    /\ critical_chains = <<>> /\ near_critical_chains = <<>>
    /\ edge_index = [h \in {} |-> {}]
    /\ candidates = {} /\ sel = <<>>

Compute == Next /\ phase = "cpm" /\ UNCHANGED <<phase, search, chains, selection>>

Begin(ph) ==
    /\ phase' = ph
    /\ stack' = <<Frame(end_idx)>> /\ expansions' = 0 /\ out' = <<>>

SearchCritical ==
    /\ phase = "cpm" /\ pc = "done"
    /\ Begin("critical")
    /\ UNCHANGED <<vars, chains, selection>>

-----------------------------------------------------------------------------
(* enumerate_chains_backwards *)

Searching ==
    /\ phase \in {"critical", "near"}
    /\ stack # <<>> /\ Len(out) < Limit /\ expansions <= max_expansions
TooDeep == Len(stack) > max_depth_guard
Expanded == expansions' = expansions + 1

ReachStart ==
    /\ Searching /\ ~Top.visited /\ ~TooDeep /\ Top.node = start_idx
    /\ Expanded
    /\ out' = Append(out, ChainOf(stack))
    /\ stack' = Front(stack)
    /\ UNCHANGED <<vars, phase, chains, selection>>

DeadEnd ==
    /\ Searching /\ ~Top.visited
    /\ TooDeep \/ (Top.node # start_idx /\ PredSet(phase, Top.node) = {})
    /\ Expanded
    /\ stack' = Front(stack)
    /\ UNCHANGED <<vars, phase, out, chains, selection>>

\* The most driving predecessor left is next.  The code also passes over one
\* that is on the path, which a graph without cycles never has.
FollowAgain(preds) ==
    \E p \in preds :
        /\ \A q \in preds : delta(Top.node, p) <= delta(Top.node, q)
        /\ stack' = Front(stack)
                    \o <<[Top EXCEPT !.visited = TRUE, !.preds = preds], Frame(p)>>
Follow(preds) ==
    \E p \in preds :
        /\ \A q \in preds : delta(Top.node, p) <= delta(Top.node, q)
        /\ stack' = Front(stack)
                    \o <<[Top EXCEPT !.visited = TRUE, !.preds = preds \ {p}], Frame(p)>>

Expand ==
    /\ Searching /\ ~Top.visited /\ ~TooDeep /\ Top.node # start_idx
    /\ Expanded
    /\ Follow(PredSet(phase, Top.node))
    /\ UNCHANGED <<vars, phase, out, chains, selection>>

TryNext ==
    /\ Searching /\ Top.visited
    /\ Follow(Top.preds)
    /\ UNCHANGED <<vars, phase, expansions, out, chains, selection>>

Backtrack ==
    /\ Searching /\ Top.visited /\ Top.preds = {}
    /\ stack' = Front(stack)
    /\ UNCHANGED <<vars, phase, expansions, out, chains, selection>>

SearchNear ==
    /\ phase = "critical" /\ ~Searching
    /\ critical_chains' = out
    /\ Begin("near")
    /\ UNCHANGED <<vars, near_critical_chains, edge_index, selection>>

-----------------------------------------------------------------------------
(* path_duration: each activity starts when the link before it allows, not   *)
(* before time zero; of parallel links the index holds the request's last.   *)
Hops == {<<e.from, e.to>> : e \in links}
Indexes == {ix \in [Hops -> links] : \A h \in Hops : <<ix[h].from, ix[h].to>> = h}

path_duration(p) ==
    LET Asked(s, e) == (IF e.rel \in {"FS", "FF"} THEN s + durations[e.from] ELSE s) + e.lag
                         - (IF e.rel \in {"FF", "SF"} THEN durations[e.to] ELSE 0)
        start[k \in 1..Len(p)] == IF k = 1 THEN 0
            ELSE Greatest({0, Asked(start[k - 1], edge_index[<<p[k - 1], p[k]>>])})
    IN  start[Len(p)] + durations[Last(p)]

\* Both lists merged without repetitions.
Merge ==
    /\ phase = "near" /\ ~Searching
    /\ near_critical_chains' = out
    /\ edge_index' \in Indexes
    /\ candidates' = ToSet(critical_chains) \cup ToSet(out)
    /\ phase' = "select"
    /\ UNCHANGED <<vars, search, critical_chains, sel>>

\* _jaccard on the activities of two chains against 1 - min_jaccard_novelty.
Similar(p, q) ==
    LET a == ToSet(p)  b == ToSet(q) IN
    100 * Cardinality(a \cap b) > (100 - min_jaccard_novelty) * Cardinality(a \cup b)
Novel(p) == \A q \in ToSet(sel) : ~Similar(p, q)

Longest == {p \in candidates : \A q \in candidates : path_duration(q) <= path_duration(p)}

\* One turn of select_outliers_by_novelty, over the chains by falling duration.
Select ==
    /\ phase = "select" /\ Len(sel) < max_display_chains
    /\ \E p \in Longest :
         /\ candidates' = candidates \ {p}
         /\ sel' = IF Novel(p) THEN Append(sel, p) ELSE sel
    /\ UNCHANGED <<vars, phase, search, chains>>

Return ==
    /\ phase = "select" /\ (candidates = {} \/ Len(sel) >= max_display_chains)
    /\ phase' = "done"
    /\ UNCHANGED <<vars, search, chains, selection>>

Extract == \/ SearchCritical \/ ReachStart \/ DeadEnd \/ Expand \/ TryNext \/ Backtrack
           \/ SearchNear \/ Merge \/ Select \/ Return
DrivingNext == Compute \/ Extract

DrivingSpec == /\ DrivingInit /\ [][DrivingNext]_drivingVars
               /\ WF_drivingVars(Compute) /\ WF_drivingVars(Extract)

-----------------------------------------------------------------------------
(* Properties *)

\* Every chain from start to end through the predecessor sets, by definition.
AllChains(ph) ==
    LET before[q \in 1..N] ==  \* the chains that end in the activity at q
          LET j == topo_order[q] IN
          IF j = start_idx THEN {<<j>>}
          ELSE UNION {{Append(c, j) : c \in before[r]} :
                        r \in {r \in 1..(q - 1) : topo_order[r] \in PredSet(ph, j)}}
    IN  before[CHOOSE q \in 1..N : topo_order[q] = end_idx]

\* No chain is found twice and every one found is a chain of driving
\* predecessors from start to end; a search that is not cut by its limit, its
\* budget or the depth guard finds them all.
ChainsExact ==
    phase \in {"critical", "near"} /\ ~Searching =>
        /\ ToSet(out) \subseteq AllChains(phase) /\ IsInjective(out) /\ Len(out) <= Limit
        /\ stack = <<>> /\ max_depth_guard >= N => ToSet(out) = AllChains(phase)

\* No chain lasts longer than the project.  With finish-to-start links that
\* never overlap, one per hop, a chain of critical activities is found and
\* each lasts exactly as long, although the hops of the critical mask alone
\* need not be tight.
Plain == \A e \in links : /\ e.rel = "FS" /\ e.lag >= 0
                          /\ \A f \in links : <<e.from, e.to>> = <<f.from, f.to>> => e = f
ChainsSpanProject ==
    phase = "select" =>
        /\ \A p \in candidates : path_duration(p) <= makespan
        /\ Plain => \A k \in 1..Len(critical_chains) : path_duration(critical_chains[k]) = makespan
        /\ Plain /\ max_critical_chains > 0 /\ max_depth_guard >= N /\ max_expansions >= N
             => critical_chains # <<>>

\* What is shown is a maximal selection that leads with the longest candidate:
\* its chains differ pairwise, and as long as there is room a candidate is left
\* out only for one that it resembles and that lasts as long.
Candidates == ToSet(critical_chains) \cup ToSet(near_critical_chains)
SelectionMaximal ==
    phase = "done" =>
        /\ \A i, j \in 1..Len(sel) : i < j =>
             ~Similar(sel[i], sel[j]) /\ path_duration(sel[i]) >= path_duration(sel[j])
        /\ sel # <<>> => \A p \in Candidates : path_duration(sel[1]) >= path_duration(p)
        /\ Len(sel) < max_display_chains =>
             \A p \in Candidates : \E q \in ToSet(sel) :
                (p = q \/ Similar(p, q)) /\ path_duration(q) >= path_duration(p)

\* The chains found are those there are, last as long as they should, and the
\* ones shown are the longest that differ.
ChainsSound == ChainsExact /\ ChainsSpanProject /\ SelectionMaximal
=============================================================================
