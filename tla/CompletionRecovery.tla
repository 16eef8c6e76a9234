------------------------- MODULE CompletionRecovery -------------------------
(***************************************************************************)
(* Completionprediction.js, one analysis after another step: the expected    *)
(* schedule and its scope, the simulation, the risk schedules, the recovery  *)
(* options, the assessments that arrive for them later, and the scenarios    *)
(* that the user then selects; and the curves drawn of the results.  Which   *)
(* samples the hash of seed, iteration and activity draws is left open       *)
(* within the bounds of the multiplier.                                      *)
(***************************************************************************)
EXTENDS CompletionDates

CONSTANTS
    CompletionSchedules, \* the schedules analysed
    scopeMaxNodes, monteCarloMaxActivities, monteCarloIterations,
    maxRecoveryOptions, maxLagOptions, maxRiskCandidates, aiEnrichmentMaxCandidates

\* What the page has parsed of an activity: hours, dates and percents.
CompletionActivity ==
    [Start : Int, Finish : Int, ActualStart : Int, ActualFinish : Int, PercentComplete : Int,
     Duration : Int, Milestone : BOOLEAN, isCritical : BOOLEAN, TotalFloat : Int,
     risk : Int, external : Int, index : Int, importance : Int, maxFrac : Int]

ASSUME CompletionAssumption ==
    /\ aiEnrichmentMaxCandidates \in Nat
    /\ \A s \in CompletionSchedules :
          /\ IsFiniteSet(DOMAIN s.node) /\ DOMAIN s.node \subseteq Int
          /\ s.node \in [DOMAIN s.node -> CompletionActivity]

VARIABLES
    completionIn, completionStep,
    maps, expected, scope,  \* of the analysis
    mc, risk, crashPlan,    \* its results; crashPlan changes with the assessments
    picked, scenario        \* the options selected and what they would give

completionVars == <<completionIn, completionStep, maps, expected, scope, mc, risk, crashPlan, picked, scenario>>

N(i) == maps.node[i]
X(i) == expected.map[i]
Chain == drivingChain(maps, expected.map)
floatEnvelope == 30 * HoursPerDay    \* scopeFloatEnvelopeDays

-----------------------------------------------------------------------------
(* buildReachabilitySets *)
Upstream(w, S) ==
    LET back[k \in Nat] == IF k = 0 THEN S ELSE back[k - 1] \cup {l.source : l \in {e \in Edges(w) : e.target \in back[k - 1]}}
    IN  back[Cardinality(NodesOf(w))]
Connected(w, S, within) ==
    LET grow[k \in Nat] ==
            IF k = 0 THEN S
            ELSE grow[k - 1] \cup ({l.source : l \in {e \in Edges(w) : e.target \in grow[k - 1]}} \cap within)
                             \cup ({l.target : l \in {e \in Edges(w) : e.source \in grow[k - 1]}} \cap within)
    IN  grow[Cardinality(NodesOf(w))]
\* What is left to do on the way to the end; of too many, the driving chain,
\* what is marked or has little float, and all that is connected to it, done or not.
scopeToEnd(w, x) ==
    LET can == Upstream(w, {w.end})
        incomplete == {i \in can : ~IsComplete(w, i)} \cup {w.end}
        must == (incomplete \cap ToSet(drivingChain(w, x)))
                \cup {i \in incomplete : w.node[i].isCritical \/ w.node[i].TotalFloat <= floatEnvelope}
    IN  IF Cardinality(incomplete) <= scopeMaxNodes THEN incomplete ELSE Connected(w, must, can) \cup {w.end}

-----------------------------------------------------------------------------
(* runMonteCarloRemaining *)
OrderedIds == SelectSeq(maps.order, LAMBDA i : i \in scope /\ N(i).ActualFinish = NoDate)
RemainingHours(i) == Larger(0, (N(i).Duration * (100 - effectivePercentComplete(maps, i))) \div 100)
\* Internal and external risk as independent causes; the combiner of ExtRisks
\* may weigh them.
CombinedRisk(i) == 100 - ((100 - N(i).risk) * (100 - N(i).external)) \div 100
\* The cap of the duration multiplier, in percent, grows with risk and length.
maxMultiplier(i) ==
    LET longness == Clamp(((RemainingHours(i) \div HoursPerDay - 30) * 100) \div 180, 0, 100)
        highness == Clamp((CombinedRisk(i) - 50) * 2, 0, 100)
    IN  200 + (4 * Clamp((6 * highness + 4 * longness) \div 10, 0, 100))
noRiskBelow == 6
Multipliers(i) == IF CombinedRisk(i) <= noRiskBelow THEN {100} ELSE {95, maxMultiplier(i)}

\* One iteration: along the order, over the links from what has been simulated.
Simulated(mult) ==
    LET step(sim, i) ==
            LET into == {l \in PredEdges(maps, i) : l.source \in DOMAIN sim}
                r(l) == Relation(maps, NoOverrides, l.source, i)
                at(l) == addWorkingHours(IF r(l).type \in {"SS", "SF"} THEN sim[l.source].s ELSE sim[l.source].f, r(l).lag)
                begin == Largest({Larger(maps.status, X(i).s)} \cup {at(l) : l \in {e \in into : r(e).type \in {"FS", "SS"}}})
                end == addWorkingHours(begin, (RemainingHours(i) * mult[i]) \div 100)
                finish == Largest({end} \cup {at(l) : l \in {e \in into : r(e).type \in {"FF", "SF"}}})
            IN  [j \in DOMAIN sim \cup {i} |-> IF j = i THEN [s |-> begin, f |-> finish] ELSE sim[j]]
    IN  FoldLeft(step, [i \in {} |-> 0], OrderedIds)
Sample(mult) ==
    LET sim == Simulated(mult)
    IN  IF maps.end \in DOMAIN sim THEN sim[maps.end].f ELSE Largest({sim[i].f : i \in DOMAIN sim})
Percentile(sorted, q) == sorted[1 + (q * (Len(sorted) - 1)) \div 100]
Forecast(samples) ==
    LET sorted == SortSeq(samples, LAMBDA a, b : a < b)
    IN  [p20 |-> Percentile(sorted, 20), p50 |-> Percentile(sorted, 50), p80 |-> Percentile(sorted, 80)]
NoForecast == [p20 |-> NoDate, p50 |-> NoDate, p80 |-> NoDate]
CanSimulate == /\ Cardinality(scope) \in 1..monteCarloMaxActivities
               /\ OrderedIds # <<>>

-----------------------------------------------------------------------------
(* buildRiskSchedules: the dates of P50 and P80.                              *)
\* The uplift of the hours left, per ten thousand, from the index of the
\* activity's own risk, importance and float; less for one under way.
IndexAdjusted(i) ==
    LET index == (N(i).index * Clamp(2 * floatEnvelope - N(i).TotalFloat, 0, 2 * floatEnvelope)) \div (2 * floatEnvelope)
    IN  IF index < 8 THEN 0 ELSE index
Dampened(i, uplift) == IF IsStarted(maps, i) /\ ~IsComplete(maps, i) THEN (uplift * 6) \div 10 ELSE uplift
Uplift50(i) == Dampened(i, 500 + 15 * IndexAdjusted(i))
Uplift80(i) == Dampened(i, 1200 + 33 * IndexAdjusted(i))
Lengthened(hours, uplift) == (hours * (10000 + uplift)) \div 10000

RiskBase(i, start) ==
    LET whole == IF IsStarted(maps, i) THEN N(i).Duration ELSE X(i).rem
    IN  IF X(i).rem > 0 THEN X(i).rem
        ELSE IF whole > 0 THEN (whole * (100 - effectivePercentComplete(maps, i))) \div 100
        ELSE diffHours(start, X(i).f)
RiskStart(i, at) ==
    LET into == {l \in PredEdges(maps, i) : l.source \in DOMAIN at}
        r(l) == Relation(maps, NoOverrides, l.source, i)
        asked(l) == addWorkingHours(IF r(l).type \in {"SS", "SF"} THEN at[l.source].s ELSE at[l.source].f, r(l).lag)
        begin(l) == IF r(l).type \in {"FF", "SF"} THEN subtractWorkingHours(asked(l), RiskBase(i, X(i).s)) ELSE asked(l)
    IN  IF N(i).ActualStart # NoDate \/ normalizePercentComplete(N(i).PercentComplete) > 0
        THEN Larger(maps.status, X(i).s)
        ELSE Largest({maps.status, X(i).s} \cup {begin(l) : l \in into})
RiskDates(Uplift(_)) ==
    LET step(at, i) ==
            LET begin == RiskStart(i, at)
                dates == IF IsComplete(maps, i)
                         THEN [s |-> Or(N(i).ActualStart, X(i).s), f |-> Or(N(i).ActualFinish, X(i).f)]
                         ELSE [s |-> begin,
                               f |-> addWorkingHours(begin, Lengthened(RiskBase(i, Larger(maps.status, begin)), Uplift(i)))]
            IN  [j \in DOMAIN at \cup {i} |-> IF j = i THEN dates ELSE at[j]]
    IN  FoldLeft(step, [i \in {} |-> 0], SelectSeq(maps.order, LAMBDA i : i \in scope))
buildRiskSchedules(forecast) ==
    LET at50 == RiskDates(Uplift50)
        at80 == RiskDates(Uplift80)
    IN  [at50 |-> at50, at80 |-> at80,
         p50 |-> Or(forecast.p50, at50[maps.end].f), p80 |-> Or(forecast.p80, at80[maps.end].f)]

-----------------------------------------------------------------------------
(* buildCrashOptions: hours in hundredths.                                    *)
minCrashableHours == 16
targetDays(r) == Larger(0, expected.variance) + Smaller(10, Larger(0, daysBetween(expected.finish, r.p80)))
FloatDays(i) == N(i).TotalFloat \div HoursPerDay
ToCrash(i) == Larger(0, (N(i).Duration * (100 - normalizePercentComplete(N(i).PercentComplete))) \div 100)
MaxCrash(i) == ToCrash(i) * N(i).maxFrac  \* of classifyCrashProfile, in percent
Open(i) == i \in NodesOf(maps) /\ ~N(i).Milestone /\ N(i).ActualFinish = NoDate /\ N(i).Duration > 0 /\ ToCrash(i) >= minCrashableHours
OnChain(i) == i \in ToSet(Chain)
Crashable == {i \in scope : Open(i) /\ MaxCrash(i) >= 800 /\ (OnChain(i) \/ FloatDays(i) <= 10)}
Leverage(i) == IF OnChain(i) THEN 100 ELSE Clamp(100 - (100 * FloatDays(i)) \div 12, 20, 75)
CrashScore(i) == ToCrash(i) * Leverage(i) * (55 + (45 * N(i).importance) \div 100)
crashCandidates == Ranked(Crashable, [i \in Crashable |-> CrashScore(i)])

\* The plan p with candidate i, which gives the most it can, or what is still needed.
Taken(p, i, most, limited) ==
    LET hours == IF limited THEN Smaller(most, p.need) ELSE most
    IN  IF (limited /\ p.need <= 0) \/ Len(p.options) >= maxRecoveryOptions \/ hours <= 0 THEN p
        ELSE [options |-> Append(p.options, [id |-> i, crashHours |-> (hours + 50) \div 100]),
              need |-> p.need - hours, achieved |-> p.achieved + hours]
Greedy(candidates, most, need, limited) ==
    FoldLeft(LAMBDA p, i : Taken(p, i, most[i], limited), [options |-> <<>>, need |-> need, achieved |-> 0], candidates)
RoundedDays(hours) == (2 * hours + HoursPerDay) \div (2 * HoursPerDay)

\* Lags of two days on the driving chain, of five elsewhere; each offers half.
lagOptions ==
    LET chained(l) == OnChain(l.source) /\ OnChain(l.target)
        eligible == {k \in 1..Len(maps.links) :
                        LET l == maps.links[k]
                        IN  /\ {l.source, l.target} \subseteq scope
                            /\ l.lag >= HoursPerDay * (IF chained(l) THEN 2 ELSE 5)}
        ranked == Ranked(eligible, [k \in eligible |-> maps.links[k].lag * (IF chained(maps.links[k]) THEN 10 ELSE 6)])
    IN  [k \in 1..Smaller(maxLagOptions, Len(ranked)) |-> maps.links[ranked[k]]]

riskCandidates ==
    LET impact(i) == CombinedRisk(i) * (ToCrash(i) \div HoursPerDay) * Larger(15, 100 - (100 * FloatDays(i)) \div 45)
                     * (40 + (60 * N(i).importance) \div 100)
        risky == {i \in scope \ ToSet(crashCandidates) : Open(i) /\ CombinedRisk(i) >= 20}
        ranked == Ranked(risky, [i \in risky |-> impact(i)])
    IN  SubSeq(ranked, 1, Smaller(maxRiskCandidates, Len(ranked)))

\* buildSummary: what the plan makes of the variance.
Status(achieved, target) ==
    CASE expected.variance > 0 -> IF achieved >= target THEN "recoverable" ELSE "at_risk"
      [] expected.variance < 0 -> "ahead"
      [] OTHER -> "on_track"
buildCrashOptions(r) ==
    LET days == targetDays(r)
        plan == Greedy(crashCandidates, [i \in Crashable |-> MaxCrash(i)], days * HoursPerDay * 100, expected.variance > 0)
        achieved == RoundedDays(plan.achieved \div 100)
    IN  [targetDays |-> days, recoveryOptions |-> plan.options, lagOptions |-> lagOptions,
         achievedDays |-> achieved, riskOptions |-> riskCandidates, enriched |-> [i \in {} |-> 0],
         status |-> Status(achieved, days)]

\* requestCrashEnrichment sends the candidates with three days left, numbered
\* from 1; an assessment names its candidate by that number.
LongCandidates ==
    LET all == crashCandidates
    IN  FlattenSeq([k \in 1..Len(all) |-> IF ToCrash(all[k]) >= 3 * HoursPerDay THEN <<all[k]>> ELSE <<>>])
candidatesToEnrich ==
    LET long == LongCandidates IN SubSeq(long, 1, Smaller(aiEnrichmentMaxCandidates, Len(long)))
\* Mutant: the number is looked up among all the candidates.
AssessedAmongAll(index) == crashCandidates[index]
AssessedAs(index) == candidatesToEnrich[index]
Assessments(answer) ==
    LET named == {k \in DOMAIN answer : k \in 1..Len(candidatesToEnrich)}
    IN  [i \in {AssessedAs(k) : k \in named} |-> answer[CHOOSE k \in named : AssessedAs(k) = i]]
\* applyAIEnrichment: feasibility in percent; an option without hours is dropped.
Scaled(hours, feasibility) == (hours * Clamp(feasibility, 0, 100) + 50) \div 100
Adjusted(op, feasible) ==
    IF op.id \in DOMAIN feasible THEN [op EXCEPT !.crashHours = Scaled(@, feasible[op.id])] ELSE op
Assessed(options, feasible) ==
    FlattenSeq([k \in 1..Len(options) |->
                   LET op == Adjusted(options[k], feasible) IN IF op.crashHours > 0 THEN <<op>> ELSE <<>>])
HoursOf(options) == FoldLeft(LAMBDA sum, op : sum + op.crashHours, 0, options)

-----------------------------------------------------------------------------
(* Scenarios.                                                                 *)
LagOption(k) == [lag |-> k]
Option(i) == [crash |-> i]
buildRecoveryOverridesFromSelection(S) ==
    LET plan == crashPlan.recoveryOptions
        crashed == {k \in 1..Len(plan) : Option(plan[k].id) \in S}
        lags == {k \in 1..Len(crashPlan.lagOptions) : LagOption(k) \in S}
        pair(k) == <<crashPlan.lagOptions[k].source, crashPlan.lagOptions[k].target>>
        half(k) == (crashPlan.lagOptions[k].lag + 1) \div 2
    IN  [crash |-> [i \in {plan[k].id : k \in crashed} |-> plan[CHOOSE k \in crashed : plan[k].id = i].crashHours],
         lag |-> [e \in {pair(k) : k \in lags} |->
                    FoldFunction(LAMBDA a, b : a + b, 0, [k \in {h \in lags : pair(h) = e} |-> half(k)])]]

\* computeScenarioNearCriticalProxy: days to spare before the scenario's finish
\* when everything after an activity follows it.
NearCritical(o, result) ==
    LET left(i) == LET n == maps.node[i]
                       whole == Larger(0, n.Duration - Crashed(o, i))
                   IN  IF IsComplete(maps, i) THEN 0 ELSE (whole * (100 - effectivePercentComplete(maps, i))) \div 100
        down(d, i) == Largest({0} \cup {Larger(0, l.lag) + (IF l.target \in DOMAIN d THEN d[l.target] ELSE 0) :
                                          l \in SuccEdges(maps, i)})
        step(d, i) == [j \in DOMAIN d \cup {i} |-> IF j = i THEN left(i) + down(d, i) ELSE d[j]]
        dist == FoldRight(LAMBDA i, d : step(d, i), maps.order, [i \in {} |-> 0])
        spare(i) == (result.finish - addWorkingHours(Larger(maps.status, result.map[i].s), dist[i])) \div HoursPerDay
    IN  {i \in NodesOf(maps) \ {maps.end} : spare(i) <= 30}

-----------------------------------------------------------------------------
(* Steps.                                                                     *)
NoPlan == [targetDays |-> 0, recoveryOptions |-> <<>>, lagOptions |-> <<>>, achievedDays |-> 0,
           riskOptions |-> <<>>, enriched |-> [i \in {} |-> 0], status |-> "none"]
NoScenario == [finish |-> NoDate, map |-> [i \in {} |-> 0], near |-> {}]

CompletionInit ==
    /\ completionIn \in CompletionSchedules
    /\ completionStep = "expect"
    /\ maps = [node |-> [i \in {} |-> 0], links |-> <<>>, order |-> <<>>, cyclic |-> FALSE,
               status |-> NoDate, start |-> NoNode, end |-> NoNode]
    /\ expected = [map |-> [i \in {} |-> 0], planned |-> NoDate, finish |-> NoDate, variance |-> 0]
    /\ scope = {} /\ mc = NoForecast
    /\ risk = [at50 |-> [i \in {} |-> 0], at80 |-> [i \in {} |-> 0], p50 |-> NoDate, p80 |-> NoDate]
    /\ crashPlan = NoPlan /\ picked = {} /\ scenario = NoScenario

\* analyze, up to its first call that may wait.
Expect ==
    /\ completionStep = "expect"
    /\ maps' = getStateMaps(completionIn)
    /\ expected' = computeExpectedSchedule(maps', NoOverrides)
    /\ scope' = scopeToEnd(maps', expected'.map)
    /\ completionStep' = "simulate"
    /\ UNCHANGED <<completionIn, mc, risk, crashPlan, picked, scenario>>

Simulate ==
    /\ completionStep = "simulate"
    /\ mc' \in IF CanSimulate
               THEN LET ids == ToSet(OrderedIds)
                        draws == {d \in [ids -> UNION {Multipliers(i) : i \in ids}] : \A i \in ids : d[i] \in Multipliers(i)}
                        outcomes == {Sample(d) : d \in draws}
                    IN  {Forecast(samples) : samples \in [1..monteCarloIterations -> outcomes]}
               ELSE {NoForecast}
    /\ risk' = buildRiskSchedules(mc')
    /\ completionStep' = "options"
    /\ UNCHANGED <<completionIn, maps, expected, scope, crashPlan, picked, scenario>>

Offer ==
    /\ completionStep = "options"
    /\ crashPlan' = buildCrashOptions(risk)
    /\ completionStep' = "shown"
    /\ UNCHANGED <<completionIn, maps, expected, scope, mc, risk, picked, scenario>>

\* The assessments arrive, for some of the candidates, in any order.  The
\* summary and the status shown before are not made again.
Enrich ==
    /\ completionStep = "shown" /\ crashPlan.enriched = [i \in {} |-> 0]
    /\ \E numbers \in SUBSET (1..Len(candidatesToEnrich) + 1) : \E answer \in [numbers -> {0, 50}] :
          LET feasible == Assessments(answer)
              options == Assessed(crashPlan.recoveryOptions, feasible)
          IN  /\ DOMAIN feasible # {}
              /\ crashPlan' = [crashPlan EXCEPT !.recoveryOptions = options, !.enriched = answer,
                                                !.achievedDays = RoundedDays(HoursOf(options))]
    /\ UNCHANGED <<completionIn, completionStep, maps, expected, scope, mc, risk, picked, scenario>>

\* A click toggles an option; the scenario is calculated on copies.
Select(option) ==
    /\ completionStep = "shown"
    /\ picked' = IF option \in picked THEN picked \ {option} ELSE picked \cup {option}
    /\ scenario' = IF picked' = {} THEN NoScenario
                   ELSE LET o == buildRecoveryOverridesFromSelection(picked')
                            result == computeExpectedSchedule(maps, o)
                        IN  [finish |-> result.finish, map |-> result.map, near |-> NearCritical(o, result)]
    /\ UNCHANGED <<completionIn, completionStep, maps, expected, scope, mc, risk, crashPlan>>

Options == {Option(crashPlan.recoveryOptions[k].id) : k \in 1..Len(crashPlan.recoveryOptions)}
           \cup {LagOption(k) : k \in 1..Len(crashPlan.lagOptions)} \cup picked
CompletionNext == Expect \/ Simulate \/ Offer \/ Enrich \/ \E option \in Options : Select(option)
CompletionSpec == CompletionInit /\ [][CompletionNext]_completionVars

-----------------------------------------------------------------------------
(* Properties *)

\* Where every pair has one link and the planned dates fit the durations, the
\* expected schedule honours all links at once, for starts and finishes,
\* although each link is applied alone and one kind moves what the other set;
\* and nothing to come starts before the status date.
FitsPlan(i) == N(i).Start = NoDate \/ N(i).Finish = addWorkingHours(N(i).Start, N(i).Duration)
OneLinkPerPair == \A j, k \in 1..Len(maps.links) :
    maps.links[j].source = maps.links[k].source /\ maps.links[j].target = maps.links[k].target => j = k
WellPlanned == OneLinkPerPair /\ ~maps.cyclic /\ \A i \in NodesOf(maps) : FitsPlan(i)
Honours(x, l) ==
    LET at == addWorkingHours(IF l.type \in {"SS", "SF"} THEN x[l.source].s ELSE x[l.source].f, l.lag)
    IN  IsComplete(maps, l.target) \/ (IF l.type \in {"FF", "SF"} THEN at <= x[l.target].f
                                    ELSE IsStarted(maps, l.target) \/ at <= x[l.target].s)
ExpectedFollowsLinks ==
    completionStep # "expect" /\ WellPlanned =>
        /\ \A l \in Edges(maps) : Honours(expected.map, l)
        /\ \A i \in NodesOf(maps) : IsStarted(maps, i) \/ maps.status <= X(i).s

\* No activity has its P80 dates before its P50 dates, nor, where it has not
\* begun, its P50 finish before the expected one: the two schedules apply the
\* links in their own ways, and P50 looks at no predecessor that is complete.
RiskOrdered ==
    \A i \in DOMAIN risk.at50 :
        /\ risk.at50[i].s <= risk.at80[i].s /\ risk.at50[i].f <= risk.at80[i].f
        /\ WellPlanned /\ ~IsStarted(maps, i) => X(i).f <= risk.at50[i].f

\* Both schedules honour the links, and the risky one is never the earlier.
ScheduleSound == ExpectedFollowsLinks /\ RiskOrdered

\* Crashing activities and reducing lags never makes any activity finish later
\* than expected without, whichever options are selected and whatever the
\* assessments have made of them.
RecoveryNeverHurts ==
    scenario # NoScenario /\ WellPlanned => \A i \in NodesOf(maps) : scenario.map[i].f <= X(i).f

\* An assessment changes the hours of the option of the activity it was asked
\* about, by its feasibility, and no other's, though short activities were left
\* out when the candidates were numbered; no option goes that has hours left.
EnrichesItsCandidate ==
    completionStep = "shown" =>
        LET before == buildCrashOptions(risk).recoveryOptions
            after == ToSet(crashPlan.recoveryOptions)
            long == LongCandidates
            told(i) == {n \in DOMAIN crashPlan.enriched : n <= aiEnrichmentMaxCandidates /\ n <= Len(long) /\ long[n] = i}
        IN  \A k \in 1..Len(before) :
                LET op == before[k]
                    hours(n) == Scaled(op.crashHours, crashPlan.enriched[n])
                IN  /\ told(op.id) = {} /\ op.crashHours > 0 => op \in after
                    /\ \A n \in told(op.id) : hours(n) > 0 => [op EXCEPT !.crashHours = hours(n)] \in after

-----------------------------------------------------------------------------
(***************************************************************************)
(* The progress curves of Completionprediction.js (buildCurves): what was    *)
(* planned, what is done, and what is expected and at risk from the status   *)
(* date on, as points [x, y] with y in hundredths of an hour of work.        *)
(***************************************************************************)
CONSTANTS chartEndBufferDays, maxCurveSamplePoints

HoursOver(F(_)) == FoldFunction(LAMBDA a, b : a + b, 0, [i \in NodesOf(maps) |-> F(i)])
\* What part of hours falls before t when it is spread evenly from s to f.
Spread(hours, s, f, t) ==
    IF t >= f THEN hours ELSE IF t < s \/ f <= s THEN 0 ELSE (hours * (t - s)) \div (f - s)

\* Work in hundredths of an hour, none for what has no duration.
Work(i) == 100 * Larger(0, N(i).Duration)
Finished(i) == N(i).ActualFinish # NoDate \/ effectivePercentComplete(maps, i) >= 100
UnderWay(i) == ~Finished(i) /\ (N(i).ActualStart # NoDate \/ effectivePercentComplete(maps, i) > 0)
EarnedHours(i) == (Work(i) * effectivePercentComplete(maps, i)) \div 100
DoneAtStatus == HoursOver(LAMBDA i : IF Finished(i) THEN Work(i) ELSE IF UnderWay(i) THEN EarnedHours(i) ELSE 0)

computePlannedCumulativeHours(t) ==
    HoursOver(LAMBDA i : IF NoDate \in {N(i).Start, N(i).Finish} \/ N(i).Start > t THEN 0
                     ELSE Spread(Work(i), N(i).Start, N(i).Finish, t))

\* What is finished is spread from its actual start, what is under way from its
\* actual start, or else its planned one, to the status date.
\* Mutant: a finish dated after the status date counts.
ActualUnsanitised(i, t) ==
    LET from == Or(N(i).ActualStart, N(i).Start)
        finish == completionIn.node[i].ActualFinish
    IN  IF finish # NoDate
        THEN Spread(Work(i), Or(N(i).ActualStart, finish), finish, t)
        ELSE IF t >= maps.status THEN EarnedHours(i)
        ELSE IF from = NoDate THEN 0 ELSE Spread(EarnedHours(i), from, maps.status, t)
Actual(i, t) ==
    LET from == Or(N(i).ActualStart, N(i).Start)
    IN  IF N(i).ActualFinish # NoDate
        THEN Spread(Work(i), Or(N(i).ActualStart, N(i).ActualFinish), N(i).ActualFinish, t)
        ELSE IF t >= maps.status THEN EarnedHours(i)
        ELSE IF from = NoDate THEN 0 ELSE Spread(EarnedHours(i), from, maps.status, t)
computeActualCumulativeHours(t) == HoursOver(LAMBDA i : Actual(i, t))

\* What is left is spread from the expected start, or the status date, to the
\* finish that the curve is about, and begins after that start.
computeRemainingHours(t, finish(_)) ==
    LET left(i) == IF Finished(i) THEN 0 ELSE IF UnderWay(i) THEN Work(i) - EarnedHours(i) ELSE Work(i)
        from(i) == Larger(maps.status, Or(X(i).s, maps.status))
    IN  HoursOver(LAMBDA i : IF t <= from(i) THEN 0 ELSE Spread(left(i), from(i), Or(finish(i), from(i)), t))

ExpectedEnd(i) == X(i).f
\* An activity out of scope has no risk dates: its expected finish counts.
At50(i) == IF i \in DOMAIN risk.at50 THEN risk.at50[i].f ELSE X(i).f
At80(i) == IF i \in DOMAIN risk.at80 THEN risk.at80[i].f ELSE X(i).f

findEarliestStart ==
    LET starts == {Or(N(i).Start, N(i).ActualStart) : i \in NodesOf(maps)} \ {NoDate}
    IN  IF starts = {} THEN NoDate ELSE Smallest(starts)
projectStart ==
    LET s == maps.node[maps.start] IN Or(Or(s.Start, s.ActualStart), Or(findEarliestStart, maps.status))
curveEnds == [planned |-> Or(expected.planned, maps.status), expected |-> expected.finish,
              p20 |-> mc.p20, p50 |-> risk.p50, p80 |-> risk.p80]
chartEnd == Largest({maps.status} \cup {curveEnds[c] : c \in DOMAIN curveEnds}) + 24 * chartEndBufferDays
timeline ==
    LET totalDays == Larger(1, (chartEnd - projectStart + 12) \div 24)
        stepDays == Larger(1, CeilDiv(totalDays, maxCurveSamplePoints))
    IN  {maps.status} \cup {t \in projectStart..chartEnd : (t - projectStart) % (24 * stepDays) = 0}

\* A curve has its points within its dates, and all the work at its end.
Curve(times, Hours(_), finish) ==
    LET all == HoursOver(LAMBDA i : Work(i))
    IN  {[x |-> t, y |-> Clamp(Hours(t), 0, all)] : t \in times}
        \cup (IF finish = NoDate THEN {} ELSE {[x |-> finish, y |-> all]})
\* P20 is the expected curve with its time compressed or stretched.
P20Hours(t) ==
    LET span == curveEnds.p20 - maps.status
        equivalent == maps.status + ((t - maps.status) * (expected.finish - maps.status)) \div span
    IN  DoneAtStatus + computeRemainingHours(equivalent, ExpectedEnd)
buildCurves ==
    LET upTo(c) == {t \in timeline : maps.status <= t /\ t <= curveEnds[c]}
        shrinks == expected.finish > maps.status /\ mc.p20 > maps.status
    IN  [planned |-> Curve({t \in timeline : t <= curveEnds.planned}, computePlannedCumulativeHours, curveEnds.planned),
         actual |-> Curve({t \in timeline : t <= maps.status}, computeActualCumulativeHours, NoDate),
         expected |-> Curve(upTo("expected"), LAMBDA t : DoneAtStatus + computeRemainingHours(t, ExpectedEnd), expected.finish),
         p20 |-> IF mc.p20 = NoDate THEN {} ELSE Curve(IF shrinks THEN upTo("p20") ELSE {}, P20Hours, mc.p20),
         p50 |-> Curve(upTo("p50"), LAMBDA t : DoneAtStatus + computeRemainingHours(t, At50), risk.p50),
         p80 |-> Curve(upTo("p80"), LAMBDA t : DoneAtStatus + computeRemainingHours(t, At80), risk.p80)]

-----------------------------------------------------------------------------
(* Properties *)

\* The curve of what is done ends, at the status date, where those of what is
\* to come begin, though the first is summed from dates and the others from
\* percentages; and none of them falls.
At(curve, t) == {p.y : p \in {q \in curve : q.x = t}}
NeverFalls(curve) == \A p, q \in curve : p.x < q.x => p.y <= q.y
CurvesMeet ==
    completionStep = "shown" /\ picked = {} /\ crashPlan.enriched = [i \in {} |-> 0] =>
        LET c == buildCurves
        IN  /\ At(c.actual, maps.status) = {DoneAtStatus}
            /\ \A k \in {"expected", "p50", "p80"} :
                  maps.status < curveEnds[k] => At(c[k], maps.status) = {DoneAtStatus}
            /\ \A k \in DOMAIN c : NeverFalls(c[k])
=============================================================================
