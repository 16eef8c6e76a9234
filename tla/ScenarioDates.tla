--------------------------- MODULE ScenarioDates ---------------------------
(***************************************************************************)
(* The schedule optimiser of the page (Scenario_Optimization.js): the user  *)
(* gives activities more resources, which shortens them and so the critical *)
(* and near-critical paths; asks for the cheapest allocation that saves so  *)
(* many days or ends by a date; applies the changes to the project, resets  *)
(* them or opens the optimiser again.                                       *)
(* A plan has days and links (PageNet), the hours of a unit of duration,    *)
(* the staff, percent done and weight (thousandths of risk and importance)  *)
(* of each activity, and those whose resources are fixed.  A date is the     *)
(* number of hours from the midnight before the project starts, in a        *)
(* calendar that works every day.  Durations are whole units.               *)
(***************************************************************************)
EXTENDS PageNet

CONSTANTS
    Plans,              \* the projects opened
    HoursPerDay,        \* teamCalendar.hoursPerDay
    StartHour,          \* the hour of the day at which the project starts
    Levels,             \* the values of a slider
    DaysWanted,         \* the reductions asked for, in days
    HoursEarlier,       \* the target dates, in hours before the end
    MaxTaskResources,   \* options.maxTaskResources
    ExhaustiveLimit,    \* the most activities that are searched exhaustively
    MaxApplies          \* bound: changes applied, or the optimiser opened again

ASSUME ScenarioDatesAssumption ==
    /\ {HoursPerDay, MaxTaskResources} \subseteq Nat \ {0}
    /\ {StartHour, ExhaustiveLimit, MaxApplies} \cup Levels \subseteq Nat
    /\ DaysWanted \cup HoursEarlier \subseteq Nat \ {0}

VARIABLES
    plan,           \* nodes and links of the page
    originals,      \* originalDurations
    changes,        \* resourceChanges
    impacts,        \* _impactCache
    pathResults,    \* criticalPathResult.paths and outlierPathsResult.paths
    pathInfo,       \* what the optimiser has read of them, with rounded days
    everCritical, everOutlier, \* criticalTasks and outlierTasks
    endDate,        \* cybereumState.endDate
    originalEnd, projectedEnd, \* originalEndDate and projectedEndDate
    controlling,    \* controllingPath, <<>> for null
    refreshDue,     \* _heavyUIUpdateTimer
    proposal,       \* the last answer to a target
    applies

datesState == <<plan, originals, changes, impacts, pathResults, pathInfo, everCritical, everOutlier, endDate,
                originalEnd, projectedEnd, controlling, refreshDue, proposal, applies>>

-----------------------------------------------------------------------------
(* Durations and dates.                                                       *)
Smaller(a, b) == IF a < b THEN a ELSE b
Larger(a, b) == IF a < b THEN b ELSE a
Ceil(a, b) == (a + b - 1) \div b

\* More resources shorten what is left, to a quarter of it at best.
calculateDurationWithResources(base, staff, more, done) ==
    IF more <= 0 \/ done >= 100 \/ base <= 0 THEN base
    ELSE LET finished == (base * done) \div 100
             left == base - finished
         IN  finished + Larger((left * staff) \div (staff + more), left \div 4)

\* calculateEndDateWithCalendar: what is left after the first day counts from midnight.
EndOf(hours) ==
    LET firstDay == Smaller(Floor0(HoursPerDay - StartHour), hours)
        rest == hours - firstDay
    IN  IF rest = 0 THEN StartHour + firstDay
        ELSE 24 * (rest \div HoursPerDay) + (rest % HoursPerDay)
RoundedDays(hours) == (2 * hours + HoursPerDay) \div (2 * HoursPerDay)

\* The dates of the network in units of duration, whatever unit the lags are in.
calculateEarlyDates(n) ==
    LET begin(dates, i, l) ==
            CASE l.type = "SS" -> dates[l.source].ES + l.lag
              [] l.type = "FF" -> dates[l.source].EF + l.lag - n.days[i]
              [] l.type = "SF" -> dates[l.source].ES + l.lag - n.days[i]
              [] OTHER -> dates[l.source].EF + l.lag
        pass(dates, i) ==
            LET es == IF Into(n, i) = {} THEN 0 ELSE Floor0(Most({begin(dates, i, l) : l \in Into(n, i)}))
            IN  [dates EXCEPT ![i] = [ES |-> es, EF |-> es + n.days[i]]]
    IN  FoldLeft(pass, [i \in Ids(n) |-> [ES |-> 0, EF |-> 0]], topologicalSort(n))
projectFinish(n) == Most({0} \cup {calculateEarlyDates(n)[i].EF : i \in {j \in Ids(n) : OutOf(n, j) = {}}})

-----------------------------------------------------------------------------
(* The paths and their lengths.  The optimiser is handed two lists of them: the *)
(* paths over critical activities, and the outliers of all paths, which leave   *)
(* out what is too short, too many or too like another one.                     *)
World(n) == [net |-> n, dayHours |-> n.unit]
LengthOf(n, p) == calculatePathDuration(World(n), p)

\* Every path from the start to the end, in the order of the links.
AllPaths(n) ==
    LET after(i) == SelectSeq(n.links, LAMBDA l : l.source = i /\ l.target \in Ids(n))
        longer(i, paths) == [k \in DOMAIN paths |-> <<i>> \o paths[k]]
        from[i \in Ids(n)] ==
            IF i = EndId(n) THEN <<<<i>>>>
            ELSE FlattenSeq([k \in DOMAIN after(i) |-> longer(i, from[after(i)[k].target])])
    IN  Distinct(from[StartId])
\* findCriticalPath
CriticalPaths(n) ==
    LET critical == CriticalNodes(World(n)) IN SelectSeq(AllPaths(n), LAMBDA p : ToSet(p) \subseteq critical)
\* findAllPaths: the longest first.
RankedPaths(n) ==
    LET paths == AllPaths(n)
        list == [paths |-> paths, durations |-> [k \in DOMAIN paths |-> LengthOf(n, paths[k])]]
    IN  Chosen(list, LongestFirst(list, [k \in DOMAIN paths |-> k]))
PathLists(n) == [critical |-> CriticalPaths(n), outlier |-> findOutlierPaths2(RankedPaths(n)).paths]

extractPathInformation(n, lists) ==
    LET read(list) == [k \in DOMAIN list |->
                           [index |-> k, nodes |-> list[k], duration |-> RoundedDays(LengthOf(n, list[k])), endDate |-> 0]]
    IN  [critical |-> read(lists.critical), outlier |-> read(lists.outlier)]
NodesOf(list) == UNION {ToSet(list[k].nodes) : k \in DOMAIN list}

Given(ch, i) == IF i \in DOMAIN ch THEN ch[i] ELSE 0
HasChanges(ch) == \E i \in DOMAIN ch : ch[i] > 0
Shortened(ch) ==
    [plan EXCEPT !.days = [i \in Ids(plan) |->
        IF Given(ch, i) > 0
        THEN calculateDurationWithResources(originals[i].duration, originals[i].resources, ch[i], plan.done[i])
        ELSE plan.days[i]]]

\* Without changes in the order of the list, else the longest first; equal lengths keep their order.
OptimizedLength(path, hours) == [path EXCEPT !.duration = RoundedDays(hours), !.endDate = EndOf(hours)]
getOptimizedPathLengths(list, ch) ==
    LET n == Shortened(ch)
    IN  SortSeq([k \in DOMAIN list |-> OptimizedLength(list[k], LengthOf(n, list[k].nodes))],
                LAMBDA p, q : p.duration > q.duration \/ (p.duration = q.duration /\ p.index < q.index))

calculateProjectReduction(ch) ==
    IF ~HasChanges(ch) \/ pathInfo.critical = <<>> THEN 0
    ELSE Floor0(pathInfo.critical[1].duration - getOptimizedPathLengths(pathInfo.critical, ch)[1].duration)

\* The path that ends last of the longest critical one and the longest other one.
FirstOf(paths) == IF paths = <<>> THEN {} ELSE {paths[1]}
LongestOf(list, ch) == FirstOf(getOptimizedPathLengths(list, ch))
EndingLast(crit, others) ==
    LET near == {p \in others : \A c \in crit : p.endDate > c.endDate} IN IF near # {} THEN near ELSE crit
\* Mutant: the critical path goes on controlling.
ControllingCritical(ch) == LongestOf(pathInfo.critical, ch)
Controlling(ch) == EndingLast(LongestOf(pathInfo.critical, ch), LongestOf(pathInfo.outlier, ch))

\* recalculateProjectDates, which updateProjectEndDate shows.
ProjectionOn(paths, ch) ==
    IF paths = {} THEN [projected |-> EndOf(projectFinish(Shortened(ch))), path |-> controlling]
    ELSE LET p == CHOOSE q \in paths : TRUE IN [projected |-> p.endDate, path |-> <<p>>]
Projection(ch) ==
    IF HasChanges(ch) THEN ProjectionOn(Controlling(ch), ch) ELSE [projected |-> originalEnd, path |-> <<>>]
updateProjectEndDate(ch) ==
    \E now \in {Projection(ch)} : projectedEnd' = now.projected /\ controlling' = now.path

-----------------------------------------------------------------------------
(* What may be given more, what it saves and costs.                           *)
impactScore(i) == ((plan.weight[i] + (IF i \in everCritical THEN 200 ELSE 0) + (IF i \in everOutlier THEN 100 ELSE 0))
                   * (100 - plan.done[i])) \div 100
Optimizable == {i \in Ids(plan) : plan.done[i] < 100 /\ impactScore(i) > 100 /\ i \notin plan.fixed}
getOptimizableTasks ==
    LET before(i, j) == impactScore(i) > impactScore(j) \/ (impactScore(i) = impactScore(j) /\ i < j)
    IN  [k \in 1..Cardinality(Optimizable) |->
            CHOOSE i \in Optimizable : Cardinality({j \in Optimizable : before(j, i)}) = k - 1]

\* A saving once computed is kept, also when the duration it was computed from has changed.
calculateScheduleImpact(i, more) ==
    IF more <= 0 THEN 0
    ELSE IF <<i, more>> \in DOMAIN impacts THEN impacts[<<i, more>>]
    ELSE originals[i].duration
         - calculateDurationWithResources(originals[i].duration, originals[i].resources, more, plan.done[i])
Remembered(keys) == [k \in (DOMAIN impacts) \cup keys |-> calculateScheduleImpact(k[1], k[2])]
CostOf(i, more) == more * HoursPerDay * (plan.days[i] - calculateScheduleImpact(i, more))
AllocationCost(a) == FoldFunctionOnSet(+, 0, [i \in DOMAIN a |-> CostOf(i, a[i])], DOMAIN a)

Failed == [success |-> FALSE, reduction |-> 0, cost |-> 0, targetMet |-> FALSE, by |-> 0, endDate |-> 0]
Answered(a, reduction, cost, met, by) ==
    [success |-> TRUE, reduction |-> reduction, cost |-> cost, targetMet |-> met, by |-> by,
     endDate |-> Projection(a).projected]

Allocations(tasks) == UNION {[S -> 1..MaxTaskResources] : S \in SUBSET ToSet(tasks)}
\* The place of an allocation in the search: the first task varies slowest.
RankOf(a, tasks) == FoldLeft(LAMBDA r, i : r * (MaxTaskResources + 1) + Given(a, i), 0, tasks)
exhaustiveSearchSolution(tasks, target, by) ==
    \E meet \in {{a \in Allocations(tasks) : calculateProjectReduction(a) >= target}} :
       LET cheapest == {a \in meet : \A b \in meet : AllocationCost(a) <= AllocationCost(b)}
       IN  /\ impacts' = Remembered({t \in ToSet(tasks) \X (1..MaxTaskResources) : \E a \in meet : Given(a, t[1]) = t[2]})
           /\ IF meet = {}
              THEN /\ changes' = [i \in ToSet(tasks) |-> MaxTaskResources]
                   /\ proposal' = Failed
                   /\ UNCHANGED <<projectedEnd, controlling>>
              ELSE \E best \in {a \in cheapest : \A b \in cheapest : RankOf(a, tasks) <= RankOf(b, tasks)} :
                      /\ changes' = best
                      /\ proposal' = Answered(best, calculateProjectReduction(best), AllocationCost(best), TRUE, by)
                      /\ updateProjectEndDate(best)

\* One more for the task with the best ratio of days saved to cost, also when no task saves anything.
Over(u, v) == LET a == IF u[2] < 0 THEN -u[1] ELSE u[1]
                  c == IF v[2] < 0 THEN -v[1] ELSE v[1]
                  b == Larger(u[2], -u[2])
                  d == Larger(v[2], -v[2])
              IN  a * d > c * b
GreedySearch(tasks, target, by) ==
    LET rank(i) == IF i \in everCritical THEN 2 ELSE IF i \in everOutlier THEN 1 ELSE 0
        at(i) == CHOOSE k \in DOMAIN tasks : tasks[k] = i
        before(i, j) == rank(i) > rank(j) \/ (rank(i) = rank(j) /\ at(i) <= at(j))
        more(a, i) == (i :> Given(a, i) + 1) @@ a
        gain(a, i) == calculateProjectReduction(more(a, i)) - calculateProjectReduction(a)
        cost(a, i) == HoursPerDay * (plan.days[i] - calculateScheduleImpact(i, Given(a, i) + 1))
        saves(days, c) == IF days > 0 THEN <<days, c>> ELSE <<0, 1>>
        open(a) == {i \in ToSet(tasks) : Given(a, i) < MaxTaskResources}
        bestOf(ratio) ==
            LET worth == {i \in DOMAIN ratio : Over(ratio[i], <<-1, 1>>)}
                beats(i, j) == Over(ratio[i], ratio[j]) \/ (~Over(ratio[j], ratio[i]) /\ before(i, j))
            IN  {i \in worth : \A j \in worth : beats(i, j)}
        Best(a) == bestOf([i \in open(a) |-> saves(gain(a, i), cost(a, i))])
        add(s, i) == [given |-> more(s.given, i), reduction |-> s.reduction + gain(s.given, i),
                      cost |-> s.cost + cost(s.given, i),
                      tried |-> s.tried \cup {<<j, Given(s.given, j) + 1>> : j \in open(s.given)}]
        run[s \in [given : Allocations(tasks), reduction : Int, cost : Int, tried : SUBSET (Ids(plan) \X (1..MaxTaskResources))]] ==
            LET goOn(best) == IF best = {} THEN s ELSE run[add(s, CHOOSE i \in best : TRUE)]
            IN  goOn(IF s.reduction >= target THEN {} ELSE Best(s.given))
    IN  \E end \in {run[[given |-> <<>>, reduction |-> 0, cost |-> 0, tried |-> {}]]} :
            /\ impacts' = Remembered(end.tried)
            /\ changes' = end.given
            /\ proposal' = Answered(end.given, end.reduction, end.cost, end.reduction >= target, by)
            /\ updateProjectEndDate(end.given)

-----------------------------------------------------------------------------
(* What the user does.                                                        *)
\* The optimiser remembers the durations, and the paths it is handed and what is on them.
Durations(p) == [i \in Ids(p) |-> [duration |-> p.days[i], resources |-> p.staff[i]]]
ReadPaths(p, lists, crit, out) ==
    /\ pathInfo' = extractPathInformation(p, lists)
    /\ everCritical' = crit \cup NodesOf(pathInfo'.critical)
    /\ everOutlier' = out \cup (NodesOf(pathInfo'.outlier) \ everCritical')

Opened(p) ==
    /\ plan = p
    /\ originals = Durations(p)
    /\ pathResults = PathLists(p)
    /\ pathInfo = extractPathInformation(p, pathResults)
    /\ everCritical = NodesOf(pathInfo.critical)
    /\ everOutlier = NodesOf(pathInfo.outlier) \ everCritical
    /\ endDate = EndOf(Most({0} \cup ToSet(RankedPaths(p).durations)))
    /\ originalEnd = endDate /\ projectedEnd = endDate
    /\ changes = <<>> /\ impacts = <<>> /\ controlling = <<>>
    /\ refreshDue = FALSE /\ proposal = Failed /\ applies = 0
DatesInit == \E p \in Plans : Opened(p)

\* A slider: the saving is shown at once, the date after 120 ms.
handleResourceChange(i, more) ==
    /\ changes' = (i :> more) @@ changes
    /\ impacts' = IF more > 0 THEN Remembered({<<i, more>>}) ELSE impacts
    /\ refreshDue' = TRUE
    /\ UNCHANGED <<plan, originals, pathResults, pathInfo, everCritical, everOutlier, endDate, originalEnd,
                   projectedEnd, controlling, proposal, applies>>
RefreshTimer ==
    /\ refreshDue
    /\ refreshDue' = FALSE
    /\ updateProjectEndDate(changes)
    /\ UNCHANGED <<plan, originals, changes, impacts, pathResults, pathInfo, everCritical, everOutlier, endDate,
                   originalEnd, proposal, applies>>
resetOptimization ==
    /\ changes # <<>>
    /\ changes' = <<>>
    /\ projectedEnd' = originalEnd
    /\ controlling' = <<>>
    /\ UNCHANGED <<plan, originals, impacts, pathResults, pathInfo, everCritical, everOutlier, endDate,
                   originalEnd, refreshDue, proposal, applies>>

ProjectDays == Ceil(originalEnd - StartHour, 24)
Refuse == proposal' = Failed /\ UNCHANGED <<impacts, projectedEnd, controlling>>
findOptimalSolution(target, by) ==
    /\ IF target > (2 * 4 * ProjectDays + 10) \div 20 THEN Refuse /\ UNCHANGED changes
       ELSE IF Optimizable = {} \/ pathInfo.critical = <<>> THEN Refuse /\ changes' = <<>>
       ELSE IF Cardinality(Optimizable) <= ExhaustiveLimit
            THEN exhaustiveSearchSolution(getOptimizableTasks, target, by)
            ELSE GreedySearch(getOptimizableTasks, target, by)
    /\ UNCHANGED <<plan, originals, pathResults, pathInfo, everCritical, everOutlier, endDate, originalEnd,
                   refreshDue, applies>>
runTargetOptimization ==
    LET targets == {[days |-> d, by |-> 0] : d \in DaysWanted}
                   \cup {[days |-> Ceil(h, 24), by |-> originalEnd - h] : h \in HoursEarlier}
    IN  \E t \in targets : findOptimalSolution(t.days, t.by)

\* The shortened durations become the project's; its end is counted in hours of the clock.
AppliedPlan == [Shortened(changes) EXCEPT !.staff =
                    [i \in Ids(plan) |-> IF Given(changes, i) > 0 THEN originals[i].resources + changes[i] ELSE plan.staff[i]]]
\* The lists are made anew by two functions of the host page.  Where it has none, the
\* optimiser calls findCriticalPath or findAllPaths without their maps and stops there.
Refreshed == {[critical |-> FALSE, outlier |-> FALSE], [critical |-> TRUE, outlier |-> FALSE],
              [critical |-> TRUE, outlier |-> TRUE]}
applyOptimization ==
    /\ applies < MaxApplies
    /\ HasChanges(changes)
    /\ plan' = AppliedPlan
    /\ originals' = Durations(plan')
    /\ endDate' = StartHour + calculateEarlyDates(plan')[EndId(plan')].EF
    /\ changes' = <<>>
    /\ \E refreshed \in Refreshed :
          /\ pathResults' = [list \in DOMAIN refreshed |->
                                IF refreshed[list] THEN PathLists(plan')[list] ELSE pathResults[list]]
          /\ IF refreshed.outlier
             THEN /\ ReadPaths(plan', pathResults', everCritical, everOutlier)
                  /\ originalEnd' = endDate' /\ projectedEnd' = endDate'
             ELSE UNCHANGED <<pathInfo, everCritical, everOutlier, originalEnd, projectedEnd>>
    /\ applies' = applies + 1
    /\ UNCHANGED <<impacts, controlling, refreshDue, proposal>>
\* Destroyed and opened again, on the lists there are.
Reopen ==
    /\ applies < MaxApplies
    /\ originals' = Durations(plan)
    /\ ReadPaths(plan, pathResults, {}, {})
    /\ originalEnd' = endDate /\ projectedEnd' = endDate
    /\ changes' = <<>> /\ impacts' = <<>> /\ controlling' = <<>> /\ refreshDue' = FALSE /\ proposal' = Failed
    /\ applies' = applies + 1
    /\ UNCHANGED <<plan, pathResults, endDate>>

DatesNext ==
    \/ \E i \in Optimizable, more \in Levels : handleResourceChange(i, more)
    \/ RefreshTimer
    \/ resetOptimization
    \/ runTargetOptimization
    \/ applyOptimization
    \/ Reopen
DatesSpec == DatesInit /\ [][DatesNext]_datesState

-----------------------------------------------------------------------------
Framed(n) == \A i \in Ids(n) : (Into(n, i) = {} => i = StartId) /\ (OutOf(n, i) = {} => i = EndId(n))
\* With these links no path gets longer when activities get shorter: where an activity is tied
\* by its finish, a shorter one starts later.
NeverLonger(n) == \E types \in {{"FS", "SS"}, {"FS", "FF"}} : \A k \in DOMAIN n.links : n.links[k].type \in types
\* The optimiser has read every path within a fifth of the longest one.
ReadAllNear(n) ==
    LET ranked == RankedPaths(n)
    IN  \A k \in DOMAIN ranked.paths :
            5 * ranked.durations[k] >= 4 * Head(ranked.durations)
            => \E p \in ToSet(pathInfo.critical) \cup ToSet(pathInfo.outlier) : p.nodes = ranked.paths[k]
\* A path that controls a projection, of a plan in hours, never ends after the network of the
\* shortened activities, in rounded days.  It is as long as the network when the lists the
\* optimiser has read hold every path within a fifth of the longest one and the network keeps four
\* fifths of its length; beyond that a path in neither list may be the longest one unseen.
ControllingIsTheNetworks ==
    [][controlling' # controlling /\ controlling' # <<>> /\ plan.unit = 1 /\ Framed(plan) =>
       LET shown == controlling'[1].duration
           finish == projectFinish(Shortened(changes'))
       IN  /\ shown <= RoundedDays(finish)
           /\ NeverLonger(plan) /\ ReadAllNear(plan) /\ 5 * finish >= 4 * projectFinish(plan)
              => shown = RoundedDays(finish)]_datesState

\* "Find optimal resource allocation to meet a target reduction or date" (Scenario_Optimization.js:4464):
\* when an allocation is said to meet a date, the end it projects is not after that date.
TargetDateIsMet == proposal.success /\ proposal.targetMet /\ proposal.by > 0 => proposal.endDate <= proposal.by
=============================================================================
