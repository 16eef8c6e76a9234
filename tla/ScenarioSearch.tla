--------------------------- MODULE ScenarioSearch ---------------------------
(***************************************************************************)
(* The two genetic searches over the schedule optimiser's allocations: its   *)
(* own automatic one and that of the constraint optimiser, which also knows  *)
(* constraints of time, resources and quality extracted from the project,    *)
(* may start from the insights of a Monte Carlo simulation and saves what it *)
(* finds as scenarios.  A search runs to its end within one click; its steps *)
(* here are its generations.  A population is the set of its allocations: an *)
(* elite is any member where the code takes the first of an unsorted list,   *)
(* and a parent is any member, as a tournament may draw one member only.     *)
(* The plan also has milestones (with whether a date is required), required   *)
(* dates and the risk of each activity in tenths.                            *)
(***************************************************************************)
EXTENDS ScenarioDates

CONSTANTS
    SearchPlans,         \* the projects searched
    PopulationSize,      \* bound for 30 and 50
    MaxGenerations,      \* bound for 20 and 30
    MaxMutations,        \* bound for the mutations of one child
    maxResourcesPerTask, \* parameters.maxResourcesPerTask, and what an activity may get
    SeedSpread,          \* bound for the random part of a seed
    DailySavings,        \* the values a day saved may have
    Sensitive,           \* activities that correlate with the end in a simulation
    MaxSearches, MaxScenarios \* bounds

ASSUME ScenarioSearchAssumption ==
    /\ {PopulationSize, MaxGenerations, maxResourcesPerTask} \subseteq Nat \ {0}
    /\ {MaxMutations, SeedSpread, MaxSearches, MaxScenarios} \cup DailySavings \subseteq Nat

VARIABLES
    search,          \* "none", "auto" or "constraint"
    population, generation,
    evaluations,     \* the population with its fitness, {} before it is evaluated
    best,            \* bestSolution with bestFitness, <<>> for null
    constraints,     \* extracted when the optimiser is opened
    saving,          \* dailySavings
    before,          \* originalChanges of the automatic search
    currentSolution, \* of the constraint optimiser
    found,           \* the answer of the constraint optimiser
    scenarios,
    searches

searchState == <<search, population, generation, evaluations, best, constraints, saving, before,
                 currentSolution, found, scenarios, searches>>

-----------------------------------------------------------------------------
(* The nodes as an allocation would date them.                                *)
addWorkTime(hours) == StartHour + 24 * (hours \div HoursPerDay) + (hours % HoursPerDay)
Dated(p) == LET dates == calculateEarlyDates(p)
            IN  [i \in Ids(p) |-> [Start |-> addWorkTime(dates[i].ES), Finish |-> addWorkTime(dates[i].EF)]]
DatedNodes(s) == IF HasChanges(s) THEN Dated(Shortened(s)) ELSE Dated(plan)

(* The constraints of the project: milestones and required dates, the staff at *)
(* work at once and a fifth more, and a resource for critical risky work.      *)
timeConstraints(p) ==
    {[type |-> "deadline", taskId |-> m.task, date |-> Dated(p)[m.task].Finish, hard |-> m.hard] : m \in p.milestones}
    \cup {[type |-> r.kind, taskId |-> r.task, date |-> r.date, hard |-> r.hard] : r \in p.required}
maxConcurrent(p) ==
    LET nodes == Dated(p)
        instant(i) == nodes[i].Start = nodes[i].Finish
        running(t) == {i \in Ids(p) : nodes[i].Start <= t /\ t < nodes[i].Finish}
        earlier(i) == {j \in running(nodes[i].Start) : nodes[j].Start < nodes[i].Start \/ j < i}
        staff(S) == FoldFunctionOnSet(+, 0, p.staff, S)
    IN  Most({staff(IF instant(i) THEN earlier(i) \cup {i} ELSE running(nodes[i].Start)) : i \in Ids(p)})
resourceConstraints(p) == {[type |-> "resource", available |-> Ceil(6 * maxConcurrent(p), 5), hard |-> TRUE]}
qualityConstraints(p, crit) ==
    {[type |-> "risk", taskId |-> i, minAdditionalResources |-> IF i \in crit THEN 1 ELSE 0, hard |-> i \in crit] :
        i \in {j \in Ids(p) : p.risk[j] > 7}}
extractConstraints(p, crit) ==
    [time |-> timeConstraints(p), resource |-> resourceConstraints(p), quality |-> qualityConstraints(p, crit)]

\* Penalties: late days to the power of one and a half, days above the staff available, risky work left alone.
Root(n) == CHOOSE r \in 0..n : r * r <= n /\ n < (r + 1) * (r + 1)
OnDay(nodes, i, d) == d >= nodes[i].Start \div 24 /\ d <= nodes[i].Start \div 24 + (nodes[i].Finish - nodes[i].Start) \div 24
timePenalty(nodes) ==
    LET late(c) == Floor0(Ceil(nodes[c.taskId].Finish - c.date, 24))
    IN  FoldSet(LAMBDA c, sum : sum + Root(late(c) * late(c) * late(c)) * (IF c.hard THEN 10 ELSE 2), 0, constraints.time)
resourcePenalty(s, nodes) ==
    LET available == (CHOOSE c \in constraints.resource : TRUE).available
        usage(d) == FoldSet(LAMBDA i, sum : sum + plan.staff[i] + Given(s, i), 0, {i \in Ids(plan) : OnDay(nodes, i, d)})
        days == 0..Most({nodes[i].Finish \div 24 : i \in Ids(plan)})
        over == {d \in days : usage(d) > available}
    IN  IF over = {} THEN 0
        ELSE (5 * FoldSet(LAMBDA d, sum : sum + (usage(d) - available) * (usage(d) - available), 0, over)) \div Cardinality(over)
qualityPenalty(s) ==
    FoldSet(LAMBDA c, sum : sum + Floor0(c.minAdditionalResources - Given(s, c.taskId)) * plan.risk[c.taskId], 0, constraints.quality)

\* A violated constraint is looked for under names that no constraint has.
checkConstraintViolations(nodes) ==
    LET dated(c) == IF c.type = "finish" THEN nodes[c.taskId].Finish ELSE nodes[c.taskId].Start
    IN  {c \in constraints.time : c.hard /\ c.type \in {"finish", "start"} /\ "deadline" \in DOMAIN c /\ dated(c) > c.deadline}
        \cup {c \in constraints.resource : c.hard /\ c.type \in {"total", "task"} /\ "max" \in DOMAIN c}
        \cup {c \in constraints.quality : c.hard /\ c.type = "minQuality"}

(* How good an allocation is, in thousandths.                                 *)
originalProjectDays == ProjectDays
calculateResults(s) ==
    LET projection == Projection(s)
        path == projection.path
        days == IF path = <<>> THEN originalProjectDays ELSE path[1].duration
        cost == FoldSet(LAMBDA i, sum : sum + s[i] * HoursPerDay * Floor0(plan.days[i] - calculateScheduleImpact(i, s[i])), 0, DOMAIN s)
        nodes == DatedNodes(s)
    IN  [durationReduction |-> Floor0(originalProjectDays - days), cost |-> cost,
         netBenefit |-> saving * Floor0(originalProjectDays - days) - cost, endDate |-> projection.projected,
         time |-> timePenalty(nodes), resource |-> resourcePenalty(s, nodes), quality |-> qualityPenalty(s),
         violations |-> checkConstraintViolations(nodes)]
calculateFitness(r) ==
    LET durationScore == (10000 * r.durationReduction) \div originalProjectDays
        ratio == (1000 * r.netBenefit) \div Larger(r.cost, 1)
        costScore == IF r.netBenefit > 0 THEN Smaller(10000, ratio) ELSE ratio
        resourceScore == Floor0(10000 - 100 * r.resource)
        riskScore == Floor0(10000 - 200 * r.quality)
    IN  (4 * durationScore + 3 * costScore + 2 * resourceScore + riskScore) \div 10 - 50 * r.time
Hopeless == -1000000000
autoFitness(s) ==
    LET reduction == LET paths == getOptimizedPathLengths(pathInfo.critical, s)
                     IN  IF paths[1].duration = 0 THEN 0 ELSE pathInfo.critical[1].duration - paths[1].duration
        cost == AllocationCost(s)
    IN  IF saving > 0 THEN 1000 * (reduction * saving - cost)
        ELSE IF reduction > 0 THEN (-1000 * cost) \div reduction ELSE Hopeless
Fitness(s) == IF search = "auto" THEN autoFitness(s) ELSE calculateFitness(calculateResults(s))

-----------------------------------------------------------------------------
(* Where a search starts.                                                     *)
MayBeGiven == {i \in Ids(plan) : plan.done[i] < 100 /\ i \notin plan.fixed}
AllocationsOf(S, most) == UNION {[D -> 1..most] : D \in SUBSET S}
SomeOf(allocations) == {{drawn[k] : k \in 1..PopulationSize} : drawn \in [1..PopulationSize -> allocations]}
CriticalTasks == NodesOf(pathInfo.critical)
NearCriticalTasks == NodesOf(pathInfo.outlier) \ CriticalTasks

\* Importance and risk of a task, more on critical paths and on several paths, in hundredths.
PathsThrough(list, i) == Cardinality({k \in DOMAIN list : Contains(list[k].nodes, i)})
pathCount(i) == IF i \in CriticalTasks THEN 1 + PathsThrough(pathInfo.critical, i)
                ELSE IF i \in NearCriticalTasks THEN PathsThrough(pathInfo.outlier, i) ELSE 0
pathMultiplier(i) ==
    LET base == IF i \in CriticalTasks THEN 200 + 100 * PathsThrough(pathInfo.critical, i)
                ELSE IF i \in NearCriticalTasks THEN 150 + 25 * PathsThrough(pathInfo.outlier, i) ELSE 100
    IN  IF pathCount(i) > 1 THEN (base * (4 + pathCount(i))) \div 5 ELSE base
combinedScore(i) == LET risk == IF plan.risk[i] = 0 THEN 5 ELSE plan.risk[i]
                    IN  ((15 + 7 * risk) * pathMultiplier(i)) \div 100

\* One seed gives each of its tasks so many or, with some luck, none.
Seeded(S, least(_), most(_)) ==
    {a \in AllocationsOf(S, Most({0} \cup {most(i) : i \in S})) : \A i \in DOMAIN a : least(i) <= a[i] /\ a[i] <= most(i)}
criticalSeeds == LET base(i) == IF combinedScore(i) > 80 THEN 2 ELSE 1
                     upTo(i) == base(i) + SeedSpread
                 IN  Seeded(CriticalTasks \cap MayBeGiven, base, upTo)
multiPathSeeds == LET amount(i) == 1 + Smaller(pathCount(i) \div 2, 3)
                  IN  Seeded({i \in MayBeGiven : pathCount(i) > 1}, amount, amount)
highRiskSeeds == LET amount(i) == 1 + (4 * plan.risk[i]) \div 10
                 IN  Seeded({i \in MayBeGiven : plan.risk[i] > 6}, amount, amount)
randomSeeds == LET least(i) == IF combinedScore(i) > 80 THEN 2 ELSE 1
                   most(i) == least(i) + (IF combinedScore(i) < 30 THEN Smaller(1, SeedSpread) ELSE SeedSpread)
               IN  Seeded((CriticalTasks \cup NearCriticalTasks \cup {j \in Ids(plan) : plan.risk[j] > 7}) \cap MayBeGiven, least, most)
\* The insights of a simulation are not asked whether the task may be given more.
insightSeeds == LET one(i) == 1
                    upTo(i) == 1 + SeedSpread
                IN  Seeded(Sensitive, one, upTo)
generateInitialPopulation == SomeOf(criticalSeeds \cup multiPathSeeds \cup highRiskSeeds \cup randomSeeds \cup insightSeeds)

-----------------------------------------------------------------------------
(* How a generation follows from another.                                     *)
With(a, i, r) == [j \in {i} \cup DOMAIN a |-> IF j = i THEN r ELSE a[j]]
Without(a, i) == [j \in (DOMAIN a) \ {i} |-> a[j]]
Entries(g) == [i \in {j \in DOMAIN g : g[j] > 0} |-> g[i]]
autoCrossover(p, q) ==
    {Entries([i \in Optimizable |-> Given(pick[i], i)]) : pick \in [Optimizable -> {p, q}]}
\* A critical task that both have gets the larger amount.
crossover(p, q) ==
    LET tasks == (DOMAIN p) \cup (DOMAIN q)
        kept(i, from) == IF i \in CriticalTasks /\ i \in (DOMAIN p) \cap (DOMAIN q) THEN Larger(p[i], q[i]) ELSE Given(from, i)
    IN  {Entries([i \in tasks |-> kept(i, pick[i])]) : pick \in [tasks -> {p, q}]}

autoMutate(a) ==
    {Without(a, i) : i \in Optimizable}
    \cup {With(a, i, r) : i \in Optimizable, r \in 1..maxResourcesPerTask}
    \cup {With(a, i, Smaller(a[i] + 1, maxResourcesPerTask)) : i \in DOMAIN a}
    \cup {IF a[i] = 1 THEN Without(a, i) ELSE With(a, i, a[i] - 1) : i \in DOMAIN a}
\* Mutant: the last resource is taken and the entry stays.
LoweredToNone(a) == {With(a, i, a[i] - 1) : i \in {j \in DOMAIN a : a[j] >= 1}}
Lowered(a) == {With(a, i, a[i] - 1) : i \in {j \in DOMAIN a : a[j] > 1}}
mutate(a) ==
    {With(a, i, r) : i \in MayBeGiven \ DOMAIN a, r \in 1..Larger(1, maxResourcesPerTask - 1)}
    \cup {Without(a, i) : i \in DOMAIN a}
    \cup {With(a, i, a[i] + 1) : i \in {j \in DOMAIN a : a[j] < maxResourcesPerTask}}
    \cup Lowered(a)

Children ==
    LET crossed == UNION {{p} \cup (IF search = "auto" THEN autoCrossover(p, q) ELSE crossover(p, q)) : p \in population, q \in population}
        once(S) == UNION {IF search = "auto" THEN autoMutate(a) ELSE mutate(a) : a \in S}
        mutated[k \in 0..MaxMutations] == IF k = 0 THEN crossed ELSE once(mutated[k - 1])
    IN  UNION {mutated[k] : k \in 0..MaxMutations}
Fittest(S) == {e \in S : e.fitness > Hopeless /\ \A f \in S : f.fitness <= e.fitness}
\* The automatic search keeps the best, the constraint optimiser the first it has evaluated.
Elites == IF search = "auto" /\ Fittest(evaluations) # {} THEN Fittest(evaluations) ELSE evaluations
BestNow(evaluated) ==
    LET better == {e \in Fittest(evaluated) : \A f \in ToSet(best) : e.fitness > f.fitness}
    IN  IF better = {} THEN {best} ELSE {<<e>> : e \in better}

-----------------------------------------------------------------------------
(* What the user does; datesIdle is what no search touches.                   *)
datesIdle == <<plan, originals, impacts, pathResults, pathInfo, everCritical, everOutlier, endDate, originalEnd,
               refreshDue, proposal, applies, constraints, saving>>
searchIdle == <<search, population, generation, evaluations, best>>
NoAnswer == [success |-> FALSE, violations |-> {}, late |-> {}]

SearchInit ==
    \E p \in SearchPlans :
        /\ Opened(p)
        /\ search = "none" /\ population = {} /\ generation = 0 /\ evaluations = {} /\ best = <<>>
        /\ constraints = extractConstraints(p, CriticalTasks)
        /\ saving \in DailySavings
        /\ before = <<>> /\ currentSolution = [shared |-> FALSE, given |-> <<>>] /\ found = NoAnswer
        /\ scenarios = <<>> /\ searches = 0

\* The map of the found solution may be the optimiser's own: what changes one changes the other.
SolutionWhen(cleared) == IF currentSolution.shared THEN cleared ELSE currentSolution.given
UserAdds ==
    /\ search = "none" /\ searches < MaxSearches
    /\ \E i \in Optimizable, more \in Levels :
          /\ Given(changes, i) # more
          /\ changes' = (i :> more) @@ changes
          /\ currentSolution' = [currentSolution EXCEPT !.given = SolutionWhen(changes')]
    /\ UNCHANGED <<datesIdle, projectedEnd, controlling, searchIdle, before, found, scenarios, searches>>

Begin(kind, start) ==
    /\ search' = kind
    /\ population' \in start
    /\ generation' = 1 /\ evaluations' = {} /\ best' = <<>>
runScheduleOptimization ==
    /\ search = "none" /\ searches < MaxSearches
    /\ searches' = searches + 1
    /\ before' = changes
    /\ changes' = <<>>
    /\ currentSolution' = [shared |-> FALSE, given |-> SolutionWhen(<<>>)]
    /\ IF Optimizable = {} \/ everCritical = {} \/ pathInfo.critical = <<>>
       THEN UNCHANGED searchIdle
       ELSE Begin("auto", SomeOf(AllocationsOf(Optimizable, maxResourcesPerTask)))
    /\ UNCHANGED <<datesIdle, projectedEnd, controlling, found, scenarios>>
findConstrainedSolution ==
    /\ search = "none" /\ searches < MaxSearches
    /\ searches' = searches + 1
    /\ changes' = IF currentSolution.shared THEN <<>> ELSE changes
    /\ currentSolution' = [currentSolution EXCEPT !.given = <<>>]
    /\ Begin("constraint", generateInitialPopulation)
    /\ UNCHANGED <<datesIdle, projectedEnd, controlling, before, found, scenarios>>

evaluatePopulation ==
    /\ search # "none" /\ evaluations = {}
    /\ evaluations' = {[solution |-> a, fitness |-> Fitness(a)] : a \in population}
    /\ best' \in BestNow(evaluations')
    /\ UNCHANGED <<datesIdle, changes, projectedEnd, controlling, search, population, generation, before,
                   currentSolution, found, scenarios, searches>>
Breed ==
    /\ evaluations # {} /\ generation < MaxGenerations
    /\ generation' = generation + 1
    /\ \E elite \in Elites :
          \E child \in [2..PopulationSize -> Children] :
             population' = {elite.solution} \cup {child[k] : k \in 2..PopulationSize}
    /\ evaluations' = {}
    /\ UNCHANGED <<datesIdle, changes, projectedEnd, controlling, search, best, before, currentSolution, found,
                   scenarios, searches>>

Ending(kind) ==
    /\ search = kind /\ evaluations # {} /\ generation = MaxGenerations
    /\ search' = "none" /\ population' = {} /\ evaluations' = {} /\ generation' = 0 /\ best' = <<>>
\* Without an improvement the user's allocation is restored.
AutoEnds ==
    /\ Ending("auto")
    /\ IF best # <<>> /\ best[1].fitness > 0
       THEN changes' = best[1].solution /\ updateProjectEndDate(changes')
       ELSE changes' = before /\ UNCHANGED <<projectedEnd, controlling>>
    /\ UNCHANGED <<datesIdle, before, currentSolution, found, scenarios, searches>>
ConstrainedEnds ==
    /\ Ending("constraint")
    /\ changes' = best[1].solution
    /\ currentSolution' = [shared |-> TRUE, given |-> changes']
    /\ updateProjectEndDate(changes')
    /\ LET nodes == DatedNodes(changes')
       IN  found' = [success |-> TRUE, violations |-> calculateResults(changes').violations,
                     late |-> {c \in constraints.time : c.hard /\ c.type # "start" /\ nodes[c.taskId].Finish > c.date}]
    /\ UNCHANGED <<datesIdle, before, scenarios, searches>>

saveScenario ==
    /\ search = "none" /\ Len(scenarios) < MaxScenarios
    /\ changes' = currentSolution.given
    /\ currentSolution' = [currentSolution EXCEPT !.shared = TRUE]
    /\ updateProjectEndDate(changes')
    /\ LET r == calculateResults(changes')
       IN  scenarios' = Append(scenarios, [solution |-> changes', netBenefit |-> r.netBenefit, endDate |-> r.endDate])
    /\ UNCHANGED <<datesIdle, searchIdle, before, found, searches>>
loadScenario ==
    /\ search = "none"
    /\ \E k \in DOMAIN scenarios :
          /\ changes' = scenarios[k].solution
          /\ currentSolution' = [shared |-> FALSE, given |-> scenarios[k].solution]
          /\ updateProjectEndDate(changes')
    /\ UNCHANGED <<datesIdle, searchIdle, before, found, scenarios, searches>>

SearchNext ==
    \/ UserAdds
    \/ runScheduleOptimization
    \/ findConstrainedSolution
    \/ evaluatePopulation
    \/ Breed
    \/ AutoEnds
    \/ ConstrainedEnds
    \/ saveScenario
    \/ loadScenario
searchVars == <<datesState, searchState>>
SearchSpec == SearchInit /\ [][SearchNext]_searchVars

-----------------------------------------------------------------------------
\* Through seeds, crossings and mutations of every generation an allocation gives at least one
\* resource to each activity it names, and names none that is finished or fixed but those a
\* simulation has called sensitive.
GivesOnlyWhatMayBeGiven ==
    \A a \in population \cup {best[k].solution : k \in DOMAIN best} :
        \A i \in DOMAIN a : a[i] >= 1 /\ i \in MayBeGiven \cup Sensitive

=============================================================================
