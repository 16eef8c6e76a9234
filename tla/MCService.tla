----------------------------- MODULE MCService -----------------------------
(* The cache of a worker that is replaced by other releases, with more         *)
(* payloads than it holds; sweeps over two disciplines, so that solutions may  *)
(* dominate, equal or be incomparable to each other; runs of the solver over   *)
(* four points, two of them equally good; and path searches on four nodes in   *)
(* topological order, with parallel links and answers of one or two paths.     *)
EXTENDS ResultCache, ParetoSweep, SolverRun, PathSearch

CONSTANTS w1, s1, s2, p1, p2, bad

Graph(p) == [endpoint |-> "graph", payload |-> p]
MCRequests == {Graph(p1), Graph(p2), Graph(bad), [endpoint |-> "package", payload |-> p1]}

MCDisciplines == {"schedule", "cost"}
MCObjectives == [MCDisciplines -> 0..2]

MCPoints == {"x0", "x1", "x2", "x3"}
MCObjective == [p \in MCPoints |-> CASE p = "x0" -> 5 [] p = "x1" -> 3 [] p = "x2" -> 7 [] p = "x3" -> 3]

PathHop(v, w) == [to |-> v, weight |-> w]
PathHops(S, W) == {PathHop(v, w) : v \in S, w \in W}
Requested(succs, starts, ends, limits, large) ==
    {r \in [succ : succs, start_idx : starts, end_idx : ends, max_paths : limits, is_large : {large}] :
        r.start_idx # r.end_idx}

\* The exact search does not look at weights.
Lists(u, most) == BoundedSeq(PathHops((u + 1)..4, {0}), most)
ExactGraphs == {<<a, b, c, <<>>>> : a \in Lists(1, 3), b \in Lists(2, 2), c \in Lists(3, 2)}

\* Parallel links of different weights between 1 and 2 or 3, and on to 4.
Few(S) == BoundedSeq(PathHops(S, {1}), 1) \cup {<<h, k>> : h \in PathHops(S, {0, 1}), k \in PathHops(S, {0, 1})}
LongestGraphs ==
    {<<a, b, c, <<>>>> :
        a \in Few(2..4) \cup {<<PathHop(2, 1), PathHop(3, 1), PathHop(4, 1)>>},
        b \in {<<>>, <<PathHop(3, 0), PathHop(4, 1)>>, <<PathHop(4, 1), PathHop(4, 0)>>, <<PathHop(4, 0), PathHop(3, 1)>>},
        c \in {<<>>, <<PathHop(4, 0)>>, <<PathHop(4, 0), PathHop(4, 1)>>}}

MCPathRequests == Requested(ExactGraphs, {1, 2}, {1, 3, 4}, {2}, FALSE)
                  \cup Requested(LongestGraphs, {1}, {4}, {1, 2}, TRUE)

VARIABLE part
allVars == <<vars, sweepVars, runVars, searchVars, part>>
MCInit ==
    /\ Init /\ SweepInit /\ RunInit /\ part \in {"cache", "sweep", "run", "search"}
    /\ part # "cache" => redis_up /\ \A w \in Workers : release[w] = "v2"
    /\ part # "run" => endpoint = "optimize" /\ ~stochastic /\ ~resources
    /\ pathRequest \in IF part = "search" THEN PathRequests ELSE {CHOOSE r \in PathRequests : ~r.is_large}
    /\ SearchInit
MCNext ==
    /\ part' = part
    /\ \/ part = "cache" /\ Next /\ UNCHANGED <<sweepVars, runVars, searchVars>>
       \/ part = "sweep" /\ SweepNext /\ UNCHANGED <<vars, runVars, searchVars>>
       \/ part = "run" /\ RunNext /\ UNCHANGED <<vars, sweepVars, searchVars>>
       \/ part = "search" /\ SearchNext /\ UNCHANGED <<vars, sweepVars, runVars>>
MCSpec == MCInit /\ [][MCNext]_allVars
=============================================================================
