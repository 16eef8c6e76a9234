-------------------------- MODULE MCRequestGraphs --------------------------
(* What the endpoints make of the graph of a request: every digraph over four *)
(* activities, and links to oneself, unknown ids, parallel links and odd types *)
(* for build_dag; sparse, looped and complete graphs with several milestones  *)
(* for the metrics; active networks and diamonds for the driving chains.  And *)
(* two workers that register outcomes while a report is made.                 *)
EXTENDS DrivingGraph, DagBuild, SanitisedGraph, OutcomeRegistry, FiniteSetsExt

CONSTANTS w1, w2, s1, c1, c2, q1

FS(i, j) == [from |-> i, to |-> j, rel |-> "FS", lag |-> 0]
Loopless == SUBSET {FS(i, j) : <<i, j>> \in {p \in Activities \X Activities : p[1] # p[2]}}
Oddities == SUBSET {FS(1, 1), FS(2, Unknown), FS(Unknown, 3),
                    [FS(1, 2) EXCEPT !.rel = "other"], [FS(1, 2) EXCEPT !.rel = "SS"],
                    [FS(1, 2) EXCEPT !.lag = 1], FS(2, 3), FS(3, 2), FS(3, 1)}
MCRequests == Loopless \cup Oddities

Unlooped == {e \in Hop : e.from # e.to}
SparseGraphs == UNION {kSubset(k, Unlooped) : k \in 0..4}
LoopedGraphs == SUBSET {e \in Hop : e.from < 4 /\ e.to < 4}
MilestoneSets == {{}, {4}, {1, 3}, {3, 4}, {2, 3, 4}}

MCMetricsRequests == [links : SparseGraphs \cup LoopedGraphs \cup {Unlooped}, milestones : MilestoneSets]

Order == <<1, 2, 3, 4>>
Filtered(snapshots) == {s \in snapshots : Active(s.links) = Activities}

\* The links with these relations and lags that go forward in order.
LinksAlong(order, rels, lags) ==
    {e \in [from : 1..N, to : 1..N, rel : rels, lag : lags] :
        \E i, j \in 1..N : i < j /\ order[i] = e.from /\ order[j] = e.to}

\* All snapshots.
AllSnapshots(order, chosen) == {[order |-> order, links |-> ls] : ls \in SUBSET chosen}

\* Every active graph of finish-to-start links, each without lag or with one.
PlainLinks == LinksAlong(Order, {"FS"}, {0, 1})
PlainSnapshots ==
    Filtered({s \in AllSnapshots(Order, PlainLinks) :
                \A e, f \in s.links : <<e.from, e.to>> = <<f.from, f.to>> => e = f})

\* Both ways round a diamond, with a link of any relation and lag and one more
\* along one way or across, which may be parallel to others.
Diamond == {[from |-> h[1], to |-> h[2], rel |-> "FS", lag |-> 0] : h \in {<<1, 2>>, <<1, 3>>, <<2, 4>>, <<3, 4>>}}
MixedSnapshots ==
    Filtered({[order |-> Order, links |-> (Diamond \ {d}) \cup {e, f}] :
                d \in Diamond, e \in LinksAlong(Order, Relations, {-1, 1}),
                f \in {[from |-> h[1], to |-> h[2], rel |-> "FF", lag |-> 0] :
                          h \in {<<1, 2>>, <<2, 3>>, <<2, 4>>}}})

MCSnapshots == PlainSnapshots \cup MixedSnapshots
MCDurations == {1, 2}

MCHandlers == {<<w1, s1>>}

VARIABLE part
allVars == <<drivingVars, dagVars, sanitiseVars, registryVars, part>>
NoSchedule == /\ links = (CHOOSE s \in Snapshots : TRUE).links /\ topo_order = Order
              /\ durations = [j \in Activities |-> 1]
NoMetrics == metricsRequest = [links |-> {}, milestones |-> {}]
AllUp == redis_up /\ \A w \in Workers : redis_client[w]
MCInit ==
    \/ NoMetrics /\ SanitiseInit /\ request = {} /\ DagInit /\ RegistryInit /\ AllUp /\ DrivingInit /\ part = "driving"
    \/ NoSchedule /\ DrivingInit /\ NoMetrics /\ SanitiseInit /\ RegistryInit /\ AllUp /\ DagInit /\ part = "build"
    \/ NoSchedule /\ DrivingInit /\ request = {} /\ DagInit /\ RegistryInit /\ AllUp /\ SanitiseInit /\ part = "metrics"
    \/ NoSchedule /\ DrivingInit /\ request = {} /\ DagInit /\ NoMetrics /\ SanitiseInit /\ RegistryInit /\ part = "outcomes"
MCNext ==
    /\ part' = part
    /\ \/ part = "driving" /\ DrivingNext /\ UNCHANGED <<dagVars, sanitiseVars, registryVars>>
       \/ part = "build" /\ DagNext /\ UNCHANGED <<drivingVars, sanitiseVars, registryVars>>
       \/ part = "metrics" /\ SanitiseNext /\ UNCHANGED <<drivingVars, dagVars, registryVars>>
       \/ part = "outcomes" /\ RegistryNext /\ UNCHANGED <<drivingVars, dagVars, sanitiseVars>>
MCSpec == MCInit /\ [][MCNext]_allVars
=============================================================================
