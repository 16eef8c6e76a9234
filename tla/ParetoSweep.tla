---------------------------- MODULE ParetoSweep ----------------------------
(***************************************************************************)
(* run_pareto of solver/pareto.py: a first round of single-discipline runs  *)
(* estimates the utopia point, a sweep optimises once per weight vector     *)
(* until the deadline, and filter_pareto_front keeps what no other solution *)
(* dominates.  The optimiser's answer to a weight vector is any member of   *)
(* Objectives.                                                              *)
(***************************************************************************)
EXTENDS Integers, Sequences, FiniteSets

CONSTANTS
    disciplines,
    Objectives,      \* the objective values an optimisation may reach
    weight_vectors   \* how many weight vectors there are

ASSUME SweepAssumption ==
    /\ Objectives \subseteq [disciplines -> Int]
    /\ weight_vectors \in Nat

VARIABLES
    utopia,         \* the disciplines whose optimum was estimated
    round_late,     \* whether the deadline of the current round has passed
    all_solutions,  \* the objectives reached, one per weight vector tried
    dominated,      \* the solutions filter_pareto_front has marked
    compared,       \* the next solution it compares with the others
    sweepStep

sweepVars == <<utopia, round_late, all_solutions, dominated, compared, sweepStep>>

found == Len(all_solutions)

-----------------------------------------------------------------------------
\* The solutions that solution a is nowhere worse than and somewhere better.
NowhereWorse(a) == {b \in 1..found : b # a /\
    \A d \in disciplines : all_solutions[a][d] <= all_solutions[b][d]}
newly_dominated(a) == {b \in 1..found :
    /\ b # a
    /\ \A d \in disciplines : all_solutions[a][d] <= all_solutions[b][d]
    /\ \E d \in disciplines : all_solutions[a][d] < all_solutions[b][d]}

SweepInit ==
    /\ utopia = {} /\ round_late = FALSE
    /\ all_solutions = <<>>
    /\ dominated = {} /\ compared = 1
    /\ sweepStep = "utopia"

\* Time passes while an optimisation runs; its own deadline ends it.
SweepDeadlinePasses ==
    /\ sweepStep \in {"utopia", "sweep"} /\ ~round_late /\ round_late' = TRUE
    /\ UNCHANGED <<utopia, all_solutions, dominated, compared, sweepStep>>

EstimateUtopia ==
    /\ sweepStep = "utopia" /\ ~round_late
    /\ \E d \in disciplines \ utopia : utopia' = utopia \cup {d}
    /\ UNCHANGED <<round_late, all_solutions, dominated, compared, sweepStep>>

BeginSweep ==
    /\ sweepStep = "utopia" /\ (round_late \/ utopia = disciplines)
    /\ sweepStep' = "sweep" /\ round_late' = FALSE
    /\ UNCHANGED <<utopia, all_solutions, dominated, compared>>

Optimise ==
    /\ sweepStep = "sweep" /\ ~round_late /\ found < weight_vectors
    /\ \E o \in Objectives : all_solutions' = Append(all_solutions, o)
    /\ UNCHANGED <<utopia, round_late, dominated, compared, sweepStep>>

EndSweep ==
    /\ sweepStep = "sweep" /\ (round_late \/ found = weight_vectors)
    /\ sweepStep' = "filter"
    /\ UNCHANGED <<utopia, round_late, all_solutions, dominated, compared>>

\* One turn of the loop of filter_pareto_front: a solution that is marked
\* already is passed over.
Compare ==
    /\ sweepStep = "filter" /\ compared <= found
    /\ dominated' = IF compared \in dominated THEN dominated ELSE dominated \cup newly_dominated(compared)
    /\ compared' = compared + 1
    /\ UNCHANGED <<utopia, round_late, all_solutions, sweepStep>>

Return ==
    /\ sweepStep = "filter" /\ compared > found
    /\ sweepStep' = "done"
    /\ UNCHANGED <<utopia, round_late, all_solutions, dominated, compared>>

SweepTurn == EstimateUtopia \/ BeginSweep \/ Optimise \/ EndSweep \/ Compare \/ Return
SweepNext == SweepDeadlinePasses \/ SweepTurn

SweepSpec == SweepInit /\ [][SweepNext]_sweepVars /\ WF_sweepVars(SweepTurn)

-----------------------------------------------------------------------------
(* Properties *)

frontier == (1..found) \ dominated
Dominates(a, b) ==
    /\ \A d \in disciplines : all_solutions[a][d] <= all_solutions[b][d]
    /\ \E d \in disciplines : all_solutions[a][d] < all_solutions[b][d]

SweepTypeOK ==
    /\ utopia \subseteq disciplines
    /\ round_late \in BOOLEAN
    /\ all_solutions \in Seq(Objectives) /\ found <= weight_vectors
    /\ dominated \subseteq 1..found
    /\ compared \in 1..(found + 1)
    /\ sweepStep \in {"utopia", "sweep", "filter", "done"}

\* The frontier holds exactly the solutions that no solution found dominates,
\* although solutions marked earlier are never compared with the others.
FrontierExact ==
    sweepStep = "done" => frontier = {b \in 1..found : ~\E a \in 1..found : Dominates(a, b)}

\* Nothing is lost without a reason the caller can see: every solution left
\* out is dominated by one that the frontier shows, so a sweep that found
\* anything has a frontier.
FrontierCovers ==
    sweepStep = "done" => \A b \in dominated : \E a \in frontier : Dominates(a, b)

=============================================================================
