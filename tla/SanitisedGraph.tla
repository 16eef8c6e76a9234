--------------------------- MODULE SanitisedGraph ---------------------------
(***************************************************************************)
(* What analyse of app.py does to the graph of a /graph-metrics request     *)
(* before it is analysed, and the analysis that depends on it most:         *)
(* ensure_dag cuts a link per cycle it finds, up to a cap, and ties loose    *)
(* activities to milestones; _risk_propagation passes risk along what is    *)
(* left, component by component where cycles remain.  Indices stand for the *)
(* ids in their lexicographic order.  A risk is known by the activities it   *)
(* comes from: averaging over predecessors becomes their union.             *)
(***************************************************************************)
EXTENDS ScheduleGraph, FiniteSets

CONSTANT MetricsRequests  \* links, and the activities that are milestones

Hop == [from : Activities, to : Activities]

ASSUME MetricsRequestAssumption ==
    \A r \in MetricsRequests : /\ r.links \subseteq Hop /\ r.milestones \subseteq Activities

VARIABLES
    metricsRequest,
    edges,               \* G.edges
    removed_edges, cycles_remaining,
    tied,                \* the milestones chosen as start and end: <<>> if none
    prop,                \* by activity: where its propagated risk comes from
    settled,             \* the activities whose risk has been computed
    not_converged,       \* the components that fell back to their own risk
    sanitiseStep

sanitiseVars == <<metricsRequest, edges, removed_edges, cycles_remaining, tied, prop, settled, not_converged, sanitiseStep>>
risk == <<prop, settled, not_converged>>

-----------------------------------------------------------------------------
hop(u, v) == [from |-> u, to |-> v]
Reaches(es, u, v) == OnCycle(es, hop(v, u))
Cyclic(es) == \E e \in es : OnCycle(es, e)
Into(es, n) == {e.from : e \in {f \in es : f.to = n}}
OutOf(es, n) == {e.to : e \in {f \in es : f.from = n}}

\* _cycle_edge_key: a graph has one edge from u to v, so ids decide.
Before(e, f) == e.from < f.from \/ (e.from = f.from /\ e.to < f.to)

\* The links that are the least of some cycle.  Which cycle find_cycle meets
\* first is the order of the request's links, which is left open.
Cuts(es) == {e \in es : OnCycle({f \in es : Before(e, f)}, e)}

max_cycle_removals ==
    LET half == Cardinality(metricsRequest.links) \div 2 IN IF half > 1 THEN half ELSE 1

-----------------------------------------------------------------------------
SanitiseInit ==
    /\ metricsRequest \in MetricsRequests
    /\ edges = metricsRequest.links
    /\ removed_edges = {} /\ cycles_remaining = FALSE
    /\ tied = <<>>
    /\ prop = [n \in Activities |-> {}] /\ settled = {} /\ not_converged = {}
    /\ sanitiseStep = "remove"

RemoveEdge ==
    /\ sanitiseStep = "remove" /\ Cardinality(removed_edges) < max_cycle_removals
    /\ \E e \in Cuts(edges) :
         /\ edges' = edges \ {e}
         /\ removed_edges' = removed_edges \cup {e}
    /\ UNCHANGED <<metricsRequest, cycles_remaining, tied, risk, sanitiseStep>>

\* No cycle is found, or the cap is reached and one more is looked for.
EndRemoval ==
    /\ sanitiseStep = "remove"
    /\ ~Cyclic(edges) \/ Cardinality(removed_edges) >= max_cycle_removals
    /\ cycles_remaining' = Cyclic(edges)
    /\ sanitiseStep' = "connect"
    /\ UNCHANGED <<metricsRequest, edges, removed_edges, tied, risk>>

\* G lists the activities that the request's links name before the others, so
\* these come first among the milestones; one order lists both kinds.
Named == UNION {{e.from, e.to} : e \in metricsRequest.links}
Preferred(S) == IF S \cap Named = {} THEN S ELSE S \cap Named
start_milestones == {n \in metricsRequest.milestones : Into(edges, n) = {}}
end_milestones == {n \in metricsRequest.milestones : OutOf(edges, n) = {}}
Chosen == {c \in Preferred(start_milestones) \X Preferred(end_milestones) :
              c[1] # c[2] => ~({c[1], c[2]} \subseteq start_milestones \cap end_milestones)}

FromStart(es, s) == es \cup {hop(s, n) : n \in {m \in Activities : Into(es, m) = {} /\ m # s}}
ToEnd(es, e) == es \cup {hop(n, e) : n \in {m \in Activities : OutOf(es, m) = {} /\ m # e}}

Connect ==
    /\ sanitiseStep = "connect"
    /\ \/ Chosen = {} /\ UNCHANGED <<edges, tied>>
       \/ \E c \in Chosen : edges' = ToEnd(FromStart(edges, c[1]), c[2]) /\ tied' = c
    /\ sanitiseStep' = "propagate"
    /\ UNCHANGED <<metricsRequest, removed_edges, cycles_remaining, risk>>

-----------------------------------------------------------------------------
(* _risk_propagation.  In a graph without cycles its topological sort goes  *)
(* from activity to activity as _propagate_with_residual_cycles goes from   *)
(* component to component.                                                   *)

Component(n) == {m \in Activities : Reaches(edges, n, m) /\ Reaches(edges, m, n)}
Components == {Component(n) : n \in Activities}
External(C) == (UNION {Into(edges, n) : n \in C}) \ C
Inherited(C) == UNION {prop[p] : p \in External(C)}

\* The next component in a topological order of those that are left.
DueInAnyOrder(C) == C \cap settled = {}
Due(C) == C \cap settled = {} /\ External(C) \subseteq settled

\* One activity, whose link to itself does not count, or a cyclic component
\* whose iteration converges.
Propagate ==
    /\ sanitiseStep = "propagate"
    /\ \E C \in Components :
         /\ Due(C)
         /\ prop' = [n \in Activities |-> IF n \in C THEN C \cup Inherited(C) ELSE prop[n]]
         /\ settled' = settled \cup C
    /\ UNCHANGED <<metricsRequest, edges, removed_edges, cycles_remaining, tied, not_converged, sanitiseStep>>

\* A cyclic component that the cap of 50 iterations stops.
FallBack ==
    /\ sanitiseStep = "propagate"
    /\ \E C \in Components :
         /\ Due(C) /\ Cardinality(C) > 1
         /\ prop' = [n \in Activities |-> IF n \in C THEN {n} ELSE prop[n]]
         /\ settled' = settled \cup C
         /\ not_converged' = not_converged \cup {C}
    /\ UNCHANGED <<metricsRequest, edges, removed_edges, cycles_remaining, tied, sanitiseStep>>

ReturnMetrics ==
    /\ sanitiseStep = "propagate" /\ settled = Activities
    /\ sanitiseStep' = "done"
    /\ UNCHANGED <<metricsRequest, edges, removed_edges, cycles_remaining, tied, risk>>

SanitiseNext == RemoveEdge \/ EndRemoval \/ Connect \/ Propagate \/ FallBack \/ ReturnMetrics

SanitiseSpec == SanitiseInit /\ [][SanitiseNext]_sanitiseVars /\ WF_sanitiseVars(SanitiseNext)

-----------------------------------------------------------------------------
(* Properties *)

\* When the removal ends, the flag says whether cycles are left, also when the
\* cap was just enough; what was removed closed a cycle of the request.
RemovalIsTold ==
    sanitiseStep = "connect" =>
        /\ cycles_remaining <=> Cyclic(edges)
        /\ \A e \in removed_edges : OnCycle(metricsRequest.links, e)

\* Two different milestones become the one start and the one end: every activity
\* lies between them, and tying the loose ones to them closes no cycle.
BetweenMilestones ==
    /\ sanitiseStep \in {"propagate", "done"} /\ ~cycles_remaining
    /\ tied # <<>> /\ tied[1] # tied[2]
    =>
            /\ ~Cyclic(edges)
            /\ \A n \in Activities : Reaches(edges, tied[1], n) /\ Reaches(edges, n, tied[2])

\* An activity's propagated risk is its own and that of its predecessors, as
\* they are in the answer and not as they were half way; only the members of
\* a component reported as not converged keep to their own.  Without cycles
\* it comes from everything upstream.
RiskFollowsLinks ==
    sanitiseStep = "done" =>
        /\ \A n \in Activities :
             prop[n] = IF n \in UNION not_converged THEN {n}
                       ELSE {n} \cup UNION {prop[p] : p \in Into(edges, n)}
        /\ ~Cyclic(edges) => \A n \in Activities : prop[n] = {m \in Activities : Reaches(edges, m, n)}

\* The graph that is analysed is what the warnings of the answer say it is, and
\* the risk passed along it does not depend on the order of the passing.
MetricsSound == RemovalIsTold /\ BetweenMilestones /\ RiskFollowsLinks
=============================================================================
