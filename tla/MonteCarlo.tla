----------------------------- MODULE MonteCarlo -----------------------------
(***************************************************************************)
(* The Monte Carlo simulator of the page (Scenario_Optimization.js): it     *)
(* draws durations for the activities, passes them through the network and  *)
(* keeps the finish of the project and of every activity per iteration; a    *)
(* run goes batch by batch, giving the page back between two, and ends with   *)
(* the analyses.  The user starts runs and closes the simulator; the          *)
(* constraint optimiser starts a run too, or reads the results as they are.  *)
(* A plan has days (hours) and links (PageNet), staff, percent done, risk     *)
(* and probability of overrun (tenths), the activities that are short of      *)
(* resources or outliers in risk, and the critical and near-critical paths.   *)
(* Of a distribution its two ends and its middle are drawn, of the variation   *)
(* of resources fewer, as many and more; fractions of an hour are dropped.     *)
(***************************************************************************)
EXTENDS PageNet

CONSTANTS
    SimulatedPlans,
    Drawn,             \* which of "low", "mode", "high" are drawn
    Iterations,        \* what the user may ask for, 100 to 100000 in the code
    OptimizerIterations, \* bound for the 1000 iterations of the optimiser's run
    RunBatch,          \* bound for batches of 1000
    WorkingHours,      \* hours of a working day
    MaxRuns            \* bound

ASSUME MonteCarloAssumption ==
    /\ Iterations \cup {OptimizerIterations, RunBatch, WorkingHours} \subseteq Nat \ {0}
    /\ MaxRuns \in Nat

VARIABLES
    simulated,          \* the plan
    open,               \* the simulator is on the page
    isSimulationRunning,
    todo,               \* for each run under way, the iterations it still has to do
    simulationResults,  \* the finish of each iteration
    taskEndDates,       \* for each activity its finish in each iteration
    simulationSummary,  \* <<>> for null
    sensitivityAnalysis, \* for each activity the sign of its correlation, <<>> for null
    asked,              \* the iterations of the latest run
    runs

simulatorState == <<simulated, open, isSimulationRunning, todo, simulationResults, taskEndDates,
                    simulationSummary, sensitivityAnalysis, asked, runs>>

-----------------------------------------------------------------------------
(* What an activity may take.                                                 *)
effectiveRisk(p, i) == IF p.overrun[i] > 0 THEN p.overrun[i] ELSE p.risk[i]
determineDistribution(p, i) ==
    CASE p.done[i] >= 90 -> "triangular_narrow"
      [] effectiveRisk(p, i) > 7 \/ i \in p.outliers -> "birnbaum_saunders"
      [] effectiveRisk(p, i) > 4 -> "pert"
      [] OTHER -> "triangular"

\* The range of a duration, widened by the risk that the page has computed.
LeastDuration(p, i) == IF p.risk[i] = 0 THEN (8 * p.days[i]) \div 10 ELSE (p.days[i] * (20 - p.risk[i])) \div 20
MostDuration(p, i) == IF p.risk[i] = 0 THEN (12 * p.days[i]) \div 10 ELSE (p.days[i] * (20 + 3 * p.risk[i])) \div 20
chooseDistribution(p, i) ==
    LET base == p.days[i]
        risk == effectiveRisk(p, i)
        range(low, high) == [low |-> low, mode |-> base, high |-> high]
        kind == determineDistribution(p, i)
    IN  CASE p.done[i] >= 90 -> range((95 * base) \div 100, (105 * base) \div 100)
          [] kind = "birnbaum_saunders" -> range(0, base + (base * (5 + 2 * risk)) \div 5)
          [] kind = "pert" -> range(LeastDuration(p, i), (MostDuration(p, i) * (10 + risk)) \div 10)
          [] OTHER -> range(LeastDuration(p, i), (MostDuration(p, i) * (20 + risk)) \div 20)

\* More resources shorten what is left to a quarter at best, fewer lengthen it by three quarters at most.
adjustDurationForResources(base, staff, effective, done) ==
    LET more == effective - staff
        finished == (base * done) \div 100
        left == base - finished
        longer == IF staff + more <= 0 THEN (7 * left) \div 4 ELSE Least({(left * staff) \div (staff + more), (7 * left) \div 4})
    IN  IF more = 0 \/ done >= 100 \/ base <= 0 THEN base
        ELSE finished + (IF more > 0 THEN Most({(left * staff) \div (staff + more), left \div 4}) ELSE longer)
\* Resources vary around the staff, unless they are short.
resourcesDrawn(p, i) == IF i \in p.constrained THEN {p.staff[i]} ELSE {p.staff[i]} \cup {p.staff[i] + d : d \in p.variation}

\* Of an activity on a path: what is done stays, the rest is drawn.
sampleDuration(p, i, varied) ==
    IF p.done[i] >= 100 THEN {p.days[i]}
    ELSE LET choice == chooseDistribution(p, i)
             rest(d) == (p.days[i] * p.done[i] + choice[d] * (100 - p.done[i])) \div 100
         IN  IF varied THEN {adjustDurationForResources(rest(d), p.staff[i], r, p.done[i]) : d \in Drawn, r \in resourcesDrawn(p, i)}
             ELSE {rest(d) : d \in Drawn}
\* Of another: five per cent, also when it is finished; the change of resources goes where their number belongs.
sampleBackground(p, i) ==
    LET choice == [low |-> (95 * p.days[i]) \div 100, mode |-> p.days[i], high |-> (105 * p.days[i]) \div 100]
        plain == {choice[d] : d \in Drawn}
    IN  plain \cup (IF i \in p.constrained THEN {}
                    ELSE {adjustDurationForResources(d, p.staff[i], r - p.staff[i], p.done[i]) :
                            d \in plain, r \in resourcesDrawn(p, i) \ {p.staff[i]}})
\* Nearly a third of the short activities are delayed in half of the iterations.
applyResourceConstraintEffects(p, durations) ==
    LET count == (3 * Cardinality(p.constrained) + 9) \div 10
        affected == {S \in SUBSET p.constrained : Cardinality(S) = count}
    IN  {[i \in Ids(p) |-> IF i \in S THEN (11 * durations[i] + 9) \div 10 ELSE durations[i]] : S \in affected}

PathNodes(p) == UNION {ToSet(q) : q \in p.critical \cup p.nearCritical}
DurationMaps(p) ==
    LET samples(i) == IF i \in PathNodes(p) THEN sampleDuration(p, i, TRUE) ELSE sampleBackground(p, i)
        values == [i \in Ids(p) |-> samples(i)] @@ <<>>
        plain == {f \in [Ids(p) -> UNION {values[i] : i \in Ids(p)}] : \A i \in Ids(p) : f[i] \in values[i]}
    IN  plain \cup UNION {applyResourceConstraintEffects(p, f) : f \in plain}

\* Whoever has no predecessor starts at once; the project ends with the last activity that has no successor.
calculateForwardPass(n) ==
    LET begin(dates, i, l) ==
            CASE l.type = "SS" -> dates[l.source].start + l.lag
              [] l.type = "FF" -> dates[l.source].finish + l.lag - n.days[i]
              [] l.type = "SF" -> dates[l.source].start + l.lag - n.days[i]
              [] OTHER -> dates[l.source].finish + l.lag
        pass(dates, i) ==
            LET start == IF Into(n, i) = {} THEN 0 ELSE Floor0(Most({begin(dates, i, l) : l \in Into(n, i)}))
            IN  [dates EXCEPT ![i] = [start |-> start, finish |-> start + n.days[i]]]
    IN  FoldLeft(pass, [i \in Ids(n) |-> [start |-> 0, finish |-> 0]], topologicalSort(n))
computeFinishTime(p, durations) ==
    LET dates == calculateForwardPass([p EXCEPT !.days = durations])
    IN  [hours |-> Most({0} \cup {dates[i].finish : i \in {j \in Ids(p) : OutOf(p, j) = {}}}),
         ends |-> [i \in Ids(p) |-> dates[i].finish]]

-----------------------------------------------------------------------------
(* The analyses at the end of a run.                                          *)
Ascending(results) == SortSeq(results, <)
Percentile(sorted, level) == sorted[1 + Least({Len(sorted) - 1, (level * Len(sorted)) \div 100})]
analyzeResults(results) ==
    IF results = <<>> THEN <<>>
    ELSE LET sorted == Ascending(results)
             n == Len(results)
         IN  <<[count |-> n, least |-> sorted[1], most |-> sorted[n],
                median |-> IF n % 2 = 0 THEN (sorted[n \div 2] + sorted[n \div 2 + 1]) \div 2 ELSE sorted[n \div 2 + 1],
                p80 |-> Percentile(sorted, 80), days |-> Percentile(sorted, 80) \div WorkingHours]>>
\* The sign of n times the covariance, 0 when one of them does not vary.
calculateCorrelation(a, b) ==
    LET n == Least({Len(a), Len(b)})
        total(s) == FoldFunctionOnSet(+, 0, s, 1..n)
        covariance == n * total([k \in 1..n |-> a[k] * b[k]]) - total(a) * total(b)
    IN  IF covariance = 0 THEN 0 ELSE IF covariance > 0 THEN 1 ELSE -1
performSensitivityAnalysis(p, results, ends) ==
    [i \in {j \in Ids(p) : 10 * Len(ends[j]) >= 9 * Len(results)} |-> calculateCorrelation(ends[i], results)]

-----------------------------------------------------------------------------
NoEnds(p) == [i \in Ids(p) |-> <<>>]
SimulatorInit ==
    /\ simulated \in SimulatedPlans
    /\ open = TRUE /\ isSimulationRunning = FALSE /\ todo = <<>>
    /\ simulationResults = <<>> /\ taskEndDates = NoEnds(simulated)
    /\ simulationSummary = <<>> /\ sensitivityAnalysis = <<>>
    /\ asked = 0 /\ runs = 0

\* The summary and the sensitivity of the run before stay until this one ends.
runSimulation(count) ==
    /\ isSimulationRunning' = TRUE
    /\ simulationResults' = <<>> /\ taskEndDates' = NoEnds(simulated)
    /\ todo' = Append(todo, count)
    /\ asked' = count /\ runs' = runs + 1
\* Between two batches the page is given back.
GivenBack == \A k \in DOMAIN todo : todo[k] < asked /\ ((asked - todo[k]) % RunBatch = 0 \/ todo[k] = 0)
MayRun == open /\ GivenBack /\ runs < MaxRuns
\* Mutant: the button does not ask whether a run is under way.
FreeAlways == TRUE
\* The button does not start a second run while one is under way.
Free == ~isSimulationRunning
RunButton ==
    /\ MayRun /\ Free
    /\ \E count \in Iterations : runSimulation(count)
    /\ UNCHANGED <<simulated, open, simulationSummary, sensitivityAnalysis>>
\* The optimiser starts one when there are no results, without waiting for it.
OptimizerRuns ==
    /\ MayRun /\ simulationResults = <<>>
    /\ runSimulation(OptimizerIterations)
    /\ UNCHANGED <<simulated, open, simulationSummary, sensitivityAnalysis>>

\* One iteration.
Iterated(durations) ==
    LET result == computeFinishTime(simulated, durations)
    IN  /\ simulationResults' = Append(simulationResults, result.hours)
        /\ taskEndDates' = [i \in Ids(simulated) |-> Append(taskEndDates[i], result.ends[i])]
UnderWay(k) == k \in DOMAIN todo /\ todo[k] > 0
runSimulationBatch(k) ==
    /\ open /\ UnderWay(k)
    /\ \E durations \in DurationMaps(simulated) : Iterated(durations)
    /\ todo' = [todo EXCEPT ![k] = @ - 1]
    /\ UNCHANGED <<simulated, open, isSimulationRunning, simulationSummary, sensitivityAnalysis, asked, runs>>
RunEnds(k) ==
    /\ open /\ k \in DOMAIN todo /\ todo[k] = 0
    /\ simulationSummary' = analyzeResults(simulationResults)
    /\ sensitivityAnalysis' = performSensitivityAnalysis(simulated, simulationResults, taskEndDates)
    /\ isSimulationRunning' = FALSE
    /\ todo' = RemoveAt(todo, k)
    /\ UNCHANGED <<simulated, open, simulationResults, taskEndDates, asked, runs>>

\* Closing clears everything but stops no run: its next iteration misses the start date and fails.
destroy ==
    /\ open /\ GivenBack
    /\ open' = FALSE /\ isSimulationRunning' = FALSE
    /\ simulationResults' = <<>> /\ taskEndDates' = <<>>
    /\ simulationSummary' = <<>> /\ sensitivityAnalysis' = <<>>
    /\ UNCHANGED <<simulated, todo, asked, runs>>
RunFails ==
    /\ ~open /\ todo # <<>>
    /\ todo' = <<>> /\ isSimulationRunning' = FALSE
    /\ UNCHANGED <<simulated, open, simulationResults, taskEndDates, simulationSummary, sensitivityAnalysis, asked, runs>>

SimulatorNext ==
    \/ RunButton
    \/ OptimizerRuns
    \/ \E k \in DOMAIN todo : runSimulationBatch(k)
    \/ \E k \in DOMAIN todo : RunEnds(k)
    \/ destroy
    \/ RunFails
SimulatorSpec == SimulatorInit /\ [][SimulatorNext]_simulatorState

-----------------------------------------------------------------------------
\* When no run is under way, the results are those of the latest run and of no other: as many as
\* it was asked for, each beside the finishes of all activities of its own iteration, and the
\* summary counts them, whoever started that run and whatever ran before it.
ResultsOfOneRun ==
    open /\ todo = <<>> /\ simulationResults # <<>>
    => /\ Len(simulationResults) = asked /\ simulationSummary[1].count = asked
       /\ \A i \in Ids(simulated) : Len(taskEndDates[i]) = asked
       /\ \A k \in 1..asked :
             simulationResults[k] = Most({0} \cup {taskEndDates[i][k] : i \in {j \in Ids(simulated) : OutOf(simulated, j) = {}}})
=============================================================================
