----------------------------- MODULE SolverRun -----------------------------
(***************************************************************************)
(* A run of /solver/sensitivity or /solver/optimize on one DAGState and one *)
(* ActivityParams: optimizer.optimize, the finite differences of adjoints   *)
(* and stochastic.run_ensemble all re-run CPM in place on arrays that       *)
(* dag_state.durations and params.durations may share.  A vector of         *)
(* durations is known by the point L-BFGS-B proposed, the samples of the    *)
(* ensemble it was multiplied by and the activity it is perturbed at (0:    *)
(* none); where the search goes is scipy's business.                        *)
(***************************************************************************)
EXTENDS Integers, FiniteSets

CONSTANTS
    n,               \* activities
    M,               \* samples of the ensemble
    Points, x0,      \* the points L-BFGS-B may propose, the first of them
    w_obj,           \* the scalarised objective at each point
    MaxEvaluations   \* bound: maxfun and maxiter end the search

ASSUME RunAssumption ==
    /\ n \in Nat /\ M \in Nat /\ MaxEvaluations \in Nat \ {0}
    /\ "none" \notin Points /\ x0 \in Points /\ w_obj \in [Points -> Int]

VARIABLES
    endpoint, stochastic, resources, expensive_fd,  \* the request
    arrays,              \* what each numpy array holds
    dag_durations,       \* the array that dag_state.durations is
    params_durations,    \* the array that params.durations is
    resource_counts,     \* params.resource_counts
    cpm,                 \* the vector that ES, EF, ... and makespan belong to
    x, history, best,    \* the point under evaluation, those evaluated, the best
    late,                \* whether the deadline has passed
    original,            \* adjoints: the array to restore
    saved,               \* run_ensemble: the two arrays and the values to restore
    m, i,                \* the loops over samples and over activities
    optimized,           \* the vector that optimize returned (the baseline before)
    runStep, back        \* where it is; where compute_gradients returns to

request == <<endpoint, stochastic, resources, expensive_fd>>
search == <<x, history, best, late, optimized>>
ensemble == <<saved, m>>
runVars == <<request, arrays, dag_durations, params_durations, resource_counts, cpm, search,
          original, ensemble, i, runStep, back>>

-----------------------------------------------------------------------------
Arrays == {"dag", "params", "scratch", "perturbed"}
Vector == [point : Points, draws : SUBSET (1..M), bump : 0..n]
At(y) == [point |-> y, draws |-> {}, bump |-> 0]
None == "none"

\* run_cpm(dag_state, a): the dates of the contents, and an alias of the array.
run_cpm(a) == dag_durations' = a /\ cpm' = arrays'[a]
unpack(y) ==
    /\ arrays' = [arrays EXCEPT ![params_durations] = At(y)]
    /\ resource_counts' = At(y)
Better(y) == best = None \/ w_obj[y] < w_obj[best]

RunInit ==
    /\ endpoint \in {"sensitivity", "optimize"}
    /\ stochastic \in BOOLEAN /\ resources \in BOOLEAN
    /\ expensive_fd \in (IF resources THEN BOOLEAN ELSE {FALSE})
    /\ arrays = [a \in Arrays |-> At(x0)]
    /\ dag_durations = "dag" /\ params_durations = "params"
    /\ resource_counts = At(x0) /\ cpm = At(x0)
    /\ x = x0 /\ history = {} /\ best = None /\ late = FALSE /\ optimized = At(x0)
    /\ original = "dag"
    /\ saved = [dag |-> "dag", params |-> "params", values |-> At(x0)]
    /\ m = 1 /\ i = 1
    /\ runStep = (IF endpoint = "optimize" THEN "search" ELSE "gradients")
    /\ back = "ensemble"

-----------------------------------------------------------------------------
(* optimize *)

DeadlinePasses ==
    /\ ~late /\ late' = TRUE
    /\ UNCHANGED <<request, arrays, dag_durations, params_durations, resource_counts, cpm,
                   x, history, best, optimized, original, ensemble, i, runStep, back>>

\* func_and_grad: L-BFGS-B asks for the objective and the gradient at a point.
Evaluate ==
    /\ runStep = "search" /\ ~late /\ Cardinality(history) < MaxEvaluations
    /\ x' \in (IF history = {} THEN {x0} ELSE Points \ history)
    /\ unpack(x') /\ run_cpm(params_durations)
    /\ history' = history \cup {x'}
    /\ runStep' = "gradients" /\ back' = "record"
    /\ UNCHANGED <<request, params_durations, best, late, optimized, original, ensemble, i>>

Record ==
    /\ runStep = "record"
    /\ best' = IF Better(x) THEN x ELSE best
    /\ runStep' = "search"
    /\ UNCHANGED <<request, arrays, dag_durations, params_durations, resource_counts, cpm,
                   x, history, late, optimized, original, ensemble, i, back>>

\* The search ends at one of the points it evaluated.
Converge ==
    /\ runStep = "search"
    /\ \E y \in history : unpack(y)
    /\ optimized' = arrays'[params_durations]
    /\ run_cpm(params_durations)
    /\ runStep' = "ensemble"
    /\ UNCHANGED <<request, params_durations, x, history, best, late, original, ensemble, i, back>>

\* The next evaluation raises _Timeout: back to the best point, if there is one.
Timeout ==
    /\ runStep = "search" /\ late
    /\ IF best = None THEN UNCHANGED <<arrays, resource_counts>> ELSE unpack(best)
    /\ run_cpm(params_durations)
    /\ optimized' = arrays'[params_durations]
    /\ runStep' = "ensemble"
    /\ UNCHANGED <<request, params_durations, x, history, best, late, original, ensemble, i, back>>

-----------------------------------------------------------------------------
(* compute_gradients: only the resource discipline touches the state. *)

fd == <<request, params_durations, search, ensemble>>
SkipFiniteDifferences ==
    /\ runStep = "gradients" /\ ~(resources /\ ~(expensive_fd /\ back = "sample"))
    /\ runStep' = back
    /\ UNCHANGED <<fd, arrays, dag_durations, resource_counts, cpm, original, i, back>>

\* resource_adj_dur: CPM on a scratch copy, perturbed at one activity at a time.
BeginDurations ==
    /\ runStep = "gradients" /\ resources /\ ~(expensive_fd /\ back = "sample")
    /\ original' = dag_durations
    /\ arrays' = [arrays EXCEPT !.scratch = arrays[dag_durations]]
    /\ i' = 1 /\ runStep' = "durations"
    /\ UNCHANGED <<fd, dag_durations, resource_counts, cpm, back>>
PerturbDuration ==
    /\ runStep = "durations" /\ i <= n
    /\ arrays' = [arrays EXCEPT !.scratch.bump = i]
    /\ run_cpm("scratch")
    /\ i' = i + 1
    /\ UNCHANGED <<fd, resource_counts, original, runStep, back>>
EndDurationsStale ==
    /\ runStep = "durations" /\ i > n
    /\ dag_durations' = original
    /\ i' = 1 /\ runStep' = "counts"
    /\ UNCHANGED <<fd, arrays, resource_counts, cpm, original, back>>
EndDurations ==
    /\ runStep = "durations" /\ i > n
    /\ UNCHANGED arrays
    /\ run_cpm(original)
    /\ i' = 1 /\ runStep' = "counts"
    /\ UNCHANGED <<fd, resource_counts, original, back>>

\* resource_adj_res: the counts themselves, perturbed and put back in turn.
PerturbCount ==
    /\ runStep = "counts" /\ i <= n /\ resource_counts.bump = 0
    /\ resource_counts' = [resource_counts EXCEPT !.bump = i]
    /\ UNCHANGED <<fd, arrays, dag_durations, cpm, original, i, runStep, back>>
RestoreCount ==
    /\ runStep = "counts" /\ resource_counts.bump # 0
    /\ resource_counts' = [resource_counts EXCEPT !.bump = 0]
    /\ i' = i + 1
    /\ UNCHANGED <<fd, arrays, dag_durations, cpm, original, runStep, back>>
EndCounts ==
    /\ runStep = "counts" /\ i > n
    /\ runStep' = back
    /\ UNCHANGED <<fd, arrays, dag_durations, resource_counts, cpm, original, i, back>>

-----------------------------------------------------------------------------
(* run_ensemble *)

Skip ==
    /\ runStep = "ensemble" /\ ~stochastic
    /\ runStep' = "done"
    /\ UNCHANGED <<fd, arrays, dag_durations, resource_counts, cpm, original, i, back>>
Save ==
    /\ runStep = "ensemble" /\ stochastic
    /\ saved' = [dag |-> dag_durations, params |-> params_durations,
                 values |-> arrays[dag_durations]]
    /\ m' = 1 /\ runStep' = "sample"
    /\ UNCHANGED <<request, arrays, dag_durations, params_durations, resource_counts, cpm,
                   search, original, i, back>>

\* A sample: the saved durations times its multipliers, in a fresh array.
Sample ==
    /\ runStep = "sample" /\ m <= M
    /\ arrays' = [arrays EXCEPT !.perturbed = [saved.values EXCEPT !.draws = @ \cup {m}]]
    /\ run_cpm("perturbed") /\ params_durations' = "perturbed"
    /\ m' = m + 1
    /\ runStep' = "gradients" /\ back' = "sample"
    /\ UNCHANGED <<request, resource_counts, search, original, saved, i>>

Restore ==
    /\ runStep = "sample" /\ m > M
    /\ arrays' = [arrays EXCEPT ![saved.dag] = saved.values, ![saved.params] = saved.values]
    /\ run_cpm(saved.dag) /\ params_durations' = saved.params
    /\ runStep' = (IF expensive_fd THEN "gradients" ELSE "done") /\ back' = "done"
    /\ UNCHANGED <<request, resource_counts, search, original, ensemble, i>>

-----------------------------------------------------------------------------
Gradients == SkipFiniteDifferences \/ BeginDurations \/ PerturbDuration \/ EndDurations
             \/ PerturbCount \/ RestoreCount \/ EndCounts
Ensemble == Skip \/ Save \/ Sample \/ Restore
RunTurn == Evaluate \/ Record \/ Converge \/ Timeout \/ Gradients \/ Ensemble
RunNext == DeadlinePasses \/ RunTurn

\* The process goes on, and scipy ends its search; nothing else is assumed of
\* the deadline or of the points it tries.
RunSpec == RunInit /\ [][RunNext]_runVars /\ WF_runVars(RunTurn)

-----------------------------------------------------------------------------
(* Properties *)

RunTypeOK ==
    /\ endpoint \in {"sensitivity", "optimize"}
    /\ stochastic \in BOOLEAN /\ resources \in BOOLEAN /\ expensive_fd \in BOOLEAN
    /\ arrays \in [Arrays -> Vector]
    /\ {dag_durations, params_durations, original} \subseteq Arrays
    /\ resource_counts \in Vector /\ cpm \in Vector
    /\ x \in Points /\ history \subseteq Points /\ best \in history \cup {None}
    /\ late \in BOOLEAN /\ optimized \in Vector
    /\ saved \in [dag : Arrays, params : Arrays, values : Vector]
    /\ m \in 1..(M + 1) /\ i \in 1..(n + 1)
    /\ runStep \in {"search", "gradients", "durations", "counts", "record", "ensemble", "sample", "done"}
    /\ back \in {"record", "ensemble", "sample", "done"}

Clean == /\ cpm = arrays[dag_durations] /\ cpm = arrays[params_durations]
         /\ resource_counts.point = cpm.point /\ resource_counts.bump = 0 /\ cpm.bump = 0

\* Whenever objectives or penalties are read, the dates, both durations and
\* the resource counts are of one and the same unperturbed point or sample,
\* whatever finite differences came before and whichever arrays are shared.
EvaluatedAtOnePoint ==
    /\ runStep \in {"search", "gradients", "record", "ensemble", "done"} => Clean
    /\ runStep = "record" => cpm = At(x)

\* Every sample perturbs the values the ensemble was called with, not those
\* of the sample before.
SamplesIndependent ==
    runStep = "gradients" /\ back = "sample" => cpm = [saved.values EXCEPT !.draws = {m - 1}]

\* What is reported at the end is what the optimiser found (or, for a
\* sensitivity run, the baseline), with dates to match: the ensemble that ran
\* in between on the same arrays has left no trace.
ReportsTheOptimum ==
    runStep = "done" =>
        /\ Clean
        /\ cpm = (IF endpoint = "optimize" THEN optimized ELSE At(x0))

\* A run that the deadline ends answers with the best of the points it had
\* evaluated, and with the baseline when it had no time for any.
TimeoutKeepsTheBest ==
    [][Timeout => /\ history = {} => cpm' = At(x0)
                  /\ \A y \in history : w_obj[cpm'.point] <= w_obj[y]]_runVars

\* Dates, durations and counts are of one point whenever they are read, no
\* sample starts from another, and what is reported is what was found.
StateIsOfOnePoint == EvaluatedAtOnePoint /\ SamplesIndependent /\ ReportsTheOptimum
=============================================================================
