------------------------------ MODULE DagBuild ------------------------------
(***************************************************************************)
(* build_dag of solver/dag.py up to its call of run_cpm: the adjacency read *)
(* from the request's links, Kahn's topological sort over a FIFO queue, and *)
(* what happens to the activities the sort cannot reach.  The order in      *)
(* which successors enter the queue is the order of the request's links,    *)
(* which is left open here.                                                 *)
(***************************************************************************)
EXTENDS ScheduleGraph, Sequences, FiniteSets

CONSTANT Requests  \* the link sets a request may bring

Unknown == 0  \* an id that no node of the request has
RawLink == [from : Activities \cup {Unknown}, to : Activities \cup {Unknown},
            rel : Relations \cup {"other"}, lag : Int]

ASSUME RequestAssumption ==
    \A r \in Requests : r \subseteq RawLink /\ IsFiniteSet(r)

VARIABLES
    request,  \* the links of the request
    adjacency, \* the adjacency: succ and succ_edges, pred and pred_edges
    in_deg, queue, topo,
    dagStep

dagVars == <<request, adjacency, in_deg, queue, topo, dagStep>>

-----------------------------------------------------------------------------
\* A link whose type is none of the four counts as FS.  Links to oneself and
\* links with an end that is no activity are left out.
Relation(t) == IF t \in Relations THEN t ELSE "FS"
Adjacency(r) ==
    {[e EXCEPT !.rel = Relation(e.rel)] : e \in
        {e \in r : e.from \in Activities /\ e.to \in Activities /\ e.from # e.to}}

Elems(s) == {s[i] : i \in 1..Len(s)}
visited == Elems(topo)
Pending(s) == {e \in adjacency : e.to = s /\ e.from \notin visited}

\* The sequences that list the members of S once, and the one in index order.
Listings(S) == {s \in [1..Cardinality(S) -> S] :
                  \A i, j \in 1..Cardinality(S) : s[i] = s[j] => i = j}
Ascending(S) == {s \in Listings(S) :
                  \A i, j \in 1..Cardinality(S) : i < j => s[i] < s[j]}

\* The links that go forward in order.
ForwardTwo(order, ls) ==
    {e \in ls : \E i, j \in 1..N : order[i] = e.from /\ order[j] = e.to /\ i + 1 < j}
Forward(order, ls) ==
    {e \in ls : \E i, j \in 1..N : order[i] = e.from /\ order[j] = e.to /\ i < j}

-----------------------------------------------------------------------------
DagInit ==
    /\ request \in Requests
    /\ adjacency = {} /\ in_deg = [s \in Activities |-> 0]
    /\ queue = <<>> /\ topo = <<>>
    /\ dagStep = "read"

ReadLinks ==
    /\ dagStep = "read"
    /\ adjacency' = Adjacency(request)
    /\ in_deg' = [s \in Activities |-> Cardinality({e \in adjacency' : e.to = s})]
    /\ queue' \in Ascending({s \in Activities : in_deg'[s] = 0})
    /\ dagStep' = "kahn"
    /\ UNCHANGED <<request, topo>>

\* The successors of node whose count has just reached zero.
Ready(node) == {s \in Activities : /\ \E e \in adjacency : e.from = node /\ e.to = s
                                   /\ in_deg'[s] = 0}

\* One turn of the while loop.  The code skips a node it has visited before;
\* QueuedOnce says that this never happens.
Visit ==
    /\ dagStep = "kahn" /\ queue # <<>>
    /\ LET node == Head(queue) IN
         /\ node \notin visited
         /\ topo' = Append(topo, node)
         /\ in_deg' = [s \in Activities |->
               in_deg[s] - Cardinality({e \in adjacency : e.from = node /\ e.to = s})]
         /\ \E ready \in Listings(Ready(node)) : queue' = Tail(queue) \o ready
    /\ UNCHANGED <<request, adjacency, dagStep>>

FinishAcyclic ==
    /\ dagStep = "kahn" /\ queue = <<>> /\ Len(topo) = N
    /\ dagStep' = "done"
    /\ UNCHANGED <<request, adjacency, in_deg, queue, topo>>

\* The activities that were not reached follow in index order, and every link
\* that then goes backward is pruned.
BreakCycles ==
    /\ dagStep = "kahn" /\ queue = <<>> /\ Len(topo) < N
    /\ \E rest \in Ascending(Activities \ visited) : topo' = topo \o rest
    /\ adjacency' = Forward(topo', adjacency)
    /\ dagStep' = "done"
    /\ UNCHANGED <<request, in_deg, queue>>

DagNext == ReadLinks \/ Visit \/ FinishAcyclic \/ BreakCycles

DagSpec == DagInit /\ [][DagNext]_dagVars /\ WF_dagVars(DagNext)

-----------------------------------------------------------------------------
(* Properties *)

DagTypeOK ==
    /\ request \in Requests
    /\ adjacency \subseteq Link /\ IsFiniteSet(adjacency)
    /\ in_deg \in [Activities -> Nat]
    /\ queue \in Seq(Activities) /\ topo \in Seq(Activities)
    /\ dagStep \in {"read", "kahn", "done"}

\* No activity waits in the queue twice or after its visit, so the visited
\* check of the loop is never taken.
QueuedOnce ==
    /\ \A i, j \in 1..Len(queue) : queue[i] = queue[j] => i = j
    /\ dagStep = "kahn" => Elems(queue) \cap visited = {}

\* Whatever cycles the request has, run_cpm gets a true topological order:
\* every activity once, and every kept link forward.
SnapshotWellFormed ==
    dagStep = "done" => WellFormed([order |-> topo, links |-> adjacency])

\* Breaking cycles costs only links between activities that are on a cycle or
\* downstream of one.  A request without cycles loses no link.
LossOnlyAmongTrapped ==
    dagStep = "done" =>
        \A e \in Adjacency(request) \ adjacency :
            {e.from, e.to} \subseteq Trapped(Adjacency(request))

\* The activities that no cycle reaches come before all the others.
TrappedLast ==
    dagStep = "done" =>
        \A i, j \in 1..N :
            topo[i] \in Trapped(Adjacency(request)) /\ i < j
                => topo[j] \in Trapped(Adjacency(request))

\* What is left of a request, with cycles or without: an order that every kept
\* link follows, no link lost that no cycle reaches, and the activities no
\* cycle reaches placed as they would have been without the cycles.
CyclesBroken == SnapshotWellFormed /\ LossOnlyAmongTrapped /\ TrappedLast
=============================================================================
