-------------------------------- MODULE Cpm --------------------------------
(***************************************************************************)
(* The Critical Path Method engine, run_cpm of solver/dag.py: one action   *)
(* per iteration of the forward and of the backward loop over topo_order,  *)
(* on the snapshot (DAGState) that build_dag hands over, and re-run in     *)
(* place with other durations the way the optimizer, the adjoints and the  *)
(* ensemble do.  The arrays EF, LS, LF and TF are not cleared between runs,*)
(* so a second run starts from the values of the first.                    *)
(*                                                                         *)
(* Dates, durations and lags are integers here and floats in the code.     *)
(***************************************************************************)
EXTENDS ScheduleGraph

CONSTANTS
    Durations,  \* durations an activity may be given
    Snapshots,  \* the [order, links] pairs build_dag hands over
    MaxRuns,    \* bound on the number of runs over one snapshot
    StartDates  \* start dates of the schedules the results are compared with

ASSUME DurationAssumption == Durations \subseteq Nat
ASSUME SnapshotAssumption == \A s \in Snapshots : WellFormed(s)
ASSUME RunsAssumption == MaxRuns \in Nat \ {0}
ASSUME StartDateAssumption == StartDates \subseteq Nat

VARIABLES
    topo_order, links,      \* the snapshot, never changed by run_cpm
    durations,              \* state.durations, swapped between runs
    ES, EF, LS, LF, TF,     \* the date arrays
    critical_mask,          \* the activities whose |TF| is below 1e-9
    makespan,
    pc, pos,                \* which loop runs, and how far it is
    runs

graph == <<topo_order, links>>
early == <<ES, EF>>
late  == <<LS, LF>>
slack == <<TF, critical_mask>>
vars  == <<graph, durations, early, late, slack, makespan, pc, pos, runs>>

-----------------------------------------------------------------------------
(* The four precedence relations. *)

LinksInto(j) == {e \in links : e.to = j}
LinksFrom(i) == {e \in links : e.from = i}

\* The start date of e.to that link e asks for in the forward pass.
ForwardBound(e) ==
    (IF e.rel \in {"FS", "FF"} THEN EF[e.from] ELSE ES[e.from]) + e.lag
      - (IF e.rel \in {"FF", "SF"} THEN durations[e.to] ELSE 0)

\* Mutant: an SS link measured to the successor's finish.
BackwardBoundToFinish(e) ==
    (IF e.rel = "FS" THEN LS[e.to] ELSE LF[e.to]) - e.lag
      + (IF e.rel \in {"SS", "SF"} THEN durations[e.from] ELSE 0)

\* The finish date of e.from that link e allows in the backward pass.
BackwardBound(e) ==
    (IF e.rel \in {"FS", "SS"} THEN LS[e.to] ELSE LF[e.to]) - e.lag
      + (IF e.rel \in {"SS", "SF"} THEN durations[e.from] ELSE 0)

\* What the loops take the maximum and the minimum of.
StartBounds(j) == {0} \cup {ForwardBound(e) : e \in LinksInto(j)}
FinishBounds(i) == {makespan} \cup {BackwardBound(e) : e \in LinksFrom(i)}

IsMax(m, S) == m \in S /\ \A x \in S : x <= m
IsMin(m, S) == m \in S /\ \A x \in S : m <= x

-----------------------------------------------------------------------------
Init ==
    /\ \E s \in Snapshots : topo_order = s.order /\ links = s.links
    /\ durations \in [Activities -> Durations]
    /\ ES = [j \in Activities |-> 0]
    /\ EF = ES /\ LS = ES /\ LF = ES /\ TF = ES
    /\ critical_mask = {}
    /\ makespan = 0
    /\ pc = "forward" /\ pos = 1 /\ runs = 1

ForwardVisit ==
    /\ pc = "forward" /\ pos <= N
    /\ LET j == topo_order[pos] IN
         \E m \in StartBounds(j) :
            /\ IsMax(m, StartBounds(j))
            /\ ES' = [ES EXCEPT ![j] = m]
            /\ EF' = [EF EXCEPT ![j] = m + durations[j]]
    /\ pos' = pos + 1
    /\ UNCHANGED <<graph, durations, late, slack, makespan, pc, runs>>

\* Between the loops: the project's length, and every LF set to it.
TakeMakespan ==
    /\ pc = "forward" /\ pos = N + 1
    /\ \E m \in {EF[j] : j \in Activities} :
          /\ IsMax(m, {EF[j] : j \in Activities})
          /\ makespan' = m
          /\ LF' = [j \in Activities |-> m]
    /\ pc' = "backward" /\ pos' = N
    /\ UNCHANGED <<graph, durations, early, LS, slack, runs>>

BackwardVisit ==
    /\ pc = "backward" /\ pos >= 1
    /\ LET i == topo_order[pos] IN
         \E m \in FinishBounds(i) :
            /\ IsMin(m, FinishBounds(i))
            /\ LF' = [LF EXCEPT ![i] = m]
            /\ LS' = [LS EXCEPT ![i] = m - durations[i]]
    /\ pos' = pos - 1
    /\ UNCHANGED <<graph, durations, early, slack, makespan, pc, runs>>

TakeSlack ==
    /\ pc = "backward" /\ pos = 0
    /\ TF' = [j \in Activities |-> LS[j] - ES[j]]
    /\ critical_mask' = {j \in Activities : TF'[j] = 0}
    /\ pc' = "done"
    /\ UNCHANGED <<graph, durations, early, late, makespan, pos, runs>>

\* A caller runs the same state again with other durations.
Rerun ==
    /\ pc = "done" /\ runs < MaxRuns
    /\ \E d \in [Activities -> Durations] : durations' = d
    /\ ES' = [j \in Activities |-> 0]
    /\ pc' = "forward" /\ pos' = 1 /\ runs' = runs + 1
    /\ UNCHANGED <<graph, EF, late, slack, makespan>>

Next == ForwardVisit \/ TakeMakespan \/ BackwardVisit \/ TakeSlack \/ Rerun

\* The loops run to the end; whether a caller runs the state again is its
\* own business, so Rerun is not fair.
Spec == /\ Init /\ [][Next]_vars
        /\ WF_vars(ForwardVisit \/ TakeMakespan \/ BackwardVisit \/ TakeSlack)

-----------------------------------------------------------------------------
(* Properties *)

TypeOK ==
    /\ WellFormed([order |-> topo_order, links |-> links])
    /\ durations \in [Activities -> Durations]
    /\ ES \in [Activities -> Nat] /\ EF \in [Activities -> Nat]
    /\ LS \in [Activities -> Int] /\ LF \in [Activities -> Int]
    /\ TF \in [Activities -> Int] /\ critical_mask \subseteq Activities
    /\ makespan \in Nat
    /\ pc \in {"forward", "backward", "done"}
    /\ pos \in 0..(N + 1)
    /\ pc = "forward" => pos >= 1
    /\ pc = "backward" => pos <= N
    /\ runs \in 1..MaxRuns

\* Start dates S meet link e, for the durations of this run.
Meets(S, e) ==
    (IF e.rel \in {"FS", "FF"} THEN S[e.from] + durations[e.from] ELSE S[e.from])
      + e.lag
    <= (IF e.rel \in {"FF", "SF"} THEN S[e.to] + durations[e.to] ELSE S[e.to])

Feasible(S) == \A e \in links : Meets(S, e)
Fits(S) == \A j \in Activities : S[j] + durations[j] <= makespan
Schedules == [Activities -> StartDates]

\* The early dates of run_cpm respect every precedence link, whatever its
\* relation and lag and whatever an earlier run left in the arrays.
EarlyDatesFeasible ==
    pc # "forward" => /\ Feasible(ES)
                      /\ \A j \in Activities : EF[j] = ES[j] + durations[j]

\* No schedule that respects the links starts any activity before the ES of
\* the forward pass, nor ends before its makespan.
EarlyDatesLeast ==
    pc = "done" =>
        \A S \in Schedules : Feasible(S) =>
            /\ \A j \in Activities : ES[j] <= S[j]
            /\ \E j \in Activities : makespan <= S[j] + durations[j]

\* Both: ES is the least solution of the precedence links.
EarlyDatesExact == EarlyDatesFeasible /\ EarlyDatesLeast

\* The late dates of the backward pass respect every link and the makespan,
\* so every activity can be put off to its LS at once.
LateDatesFeasible ==
    pc = "done" => /\ Feasible(LS) /\ Fits(LS)
                   /\ \A j \in Activities : LF[j] = LS[j] + durations[j]

\* No schedule of the same length starts an activity after its LS: TF is
\* exactly the delay the links allow, never negative.
LateDatesGreatest ==
    pc = "done" =>
        /\ \A S \in Schedules : Feasible(S) /\ Fits(S) =>
              \A j \in Activities : S[j] <= LS[j]
        /\ \A j \in Activities : TF[j] = LS[j] - ES[j] /\ TF[j] >= 0

\* Both: LS is the greatest solution of the links and the makespan.
LateDatesExact == LateDatesFeasible /\ LateDatesGreatest

\* Both passes: every schedule of least length lies between ES and LS, and no
\* narrower dates enclose them all, however often the arrays were used before.
DatesExact == EarlyDatesExact /\ LateDatesExact

\* Link e leaves its ends no room: the early dates meet it with equality.
Driving(e) == ForwardBound(e) = ES[e.to]

\* The activities of critical_mask form chains that fill the project: one of
\* them starts at time zero and one ends at the makespan, one that starts
\* later is driven by a critical predecessor, and one whose late finish is
\* before the makespan drives a critical successor.
CriticalChains ==
    pc = "done" =>
        /\ \E j \in critical_mask : EF[j] = makespan
        /\ \A j \in critical_mask : ES[j] = 0 \/
              \E e \in LinksInto(j) : Driving(e) /\ e.from \in critical_mask
        /\ \A j \in critical_mask : LF[j] = makespan \/
              \E e \in LinksFrom(j) : Driving(e) /\ e.to \in critical_mask
=============================================================================
