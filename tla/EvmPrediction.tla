--------------------------- MODULE EvmPrediction ----------------------------
(***************************************************************************)
(* The local calculation of EVM.js.  First the measures taken of a schedule  *)
(* at a status date: planned, earned and actual value, their indices and the *)
(* estimate at completion; then the prediction and the curves.               *)
(* Shares and indices are whole percents, hours with a share of them are in  *)
(* percent-hours, and all money is at one rate.                              *)
(*                                                                         *)
(* An activity a has Start, Finish, riskAdjustedStart, riskAdjustedEnd,      *)
(* ActualStart, ActualFinish (dates, or NoDate), Duration,                   *)
(* riskAdjustedDuration, ActualDuration, ActualCost (hours, at least 0; 0    *)
(* for the cost and -1 for the duration when missing) and PercentComplete.   *)
(***************************************************************************)
EXTENDS WorkCalendar

\* normalizePercentComplete: absent and negative become 0, above 100 is 100.
Normalized(pct) == Clamp(pct, 0, 100)
Pct(a) == Normalized(a.PercentComplete)
ForecastStart(a) == Or(a.riskAdjustedStart, a.Start)
ForecastEnd(a) == Or(a.riskAdjustedEnd, a.Finish)
ForecastHours(a) == IF a.riskAdjustedDuration # 0 THEN a.riskAdjustedDuration ELSE a.Duration

\* The share of the span from s to f that has passed on day d.
Passed(s, f, d) == IF d >= f THEN 100 ELSE IF d > s THEN ((d - s) * 100) \div (f - s) ELSE 0
\* The same in days, a span counting for one day at least.
Elapsed(s, f, d) == Smaller(100, (Larger(0, d - s) * 100) \div Larger(1, f - s))

Worked(A) == {i \in DOMAIN A : A[i].Duration # 0}
Total(A, Of(_)) == SumFunctionOnSet([i \in Worked(A) |-> Of(A[i])], Worked(A))

calculateBAC_Hours(A) == Total(A, LAMBDA a : a.Duration)
calculateBCWS_Hours(A, status) == Total(A, LAMBDA a : a.Duration * Passed(a.Start, a.Finish, status))
calculateBCWP_Hours(A) == Total(A, LAMBDA a : a.Duration * Pct(a))
calculateForecastedBCWP(A, status) ==
    Total(A, LAMBDA a : a.Duration * Passed(ForecastStart(a), ForecastEnd(a), status))
calculateForecastedACWP(A, status) ==
    Total(A, LAMBDA a : ForecastHours(a) * Passed(ForecastStart(a), ForecastEnd(a), status))

\* The actual cost as recorded, else estimated from the progress, up to twice
\* as much when that is behind the calendar.
calculateACWP(A, status) ==
    Total(A, LAMBDA a :
        LET pct == Pct(a)
            start == Or(a.ActualStart, a.Start)
            expected == Elapsed(start, a.Finish, status)
            behind == pct < 100 /\ status > start /\ pct < expected
            multiplier == IF behind THEN Clamp((expected * 100) \div pct, 100, 200) ELSE 100
        IN  IF pct = 0 THEN 0
            ELSE IF a.ActualCost > 0 THEN a.ActualCost * 100
            ELSE (a.Duration * pct * multiplier) \div 100)

\* evmConfig.bounds, in percent.
minIndex == 5
maxSPI == 1000
maxCPI == 2000
Infinite == 100000
Index(ev, base) == IF base > 0 THEN (ev * 100) \div base ELSE IF ev > 0 THEN Infinite ELSE 100
Modelled(x, max) == IF x = Infinite THEN 100 ELSE Clamp(x, minIndex, max)
calculateEVMetrics(bcwp, acwp, bcws) ==
    [SV |-> bcwp - bcws, CV |-> bcwp - acwp, SPI |-> Index(bcwp, bcws), CPIcum |-> Index(bcwp, acwp)]

calculateEAC(bac, CPI, SPI, complete) ==
    LET ev == (bac * complete) \div 100
        ac == (ev * 100) \div CPI
        left == bac - ev
        eac == IF complete < 10 THEN (bac * 115) \div 100
               ELSE IF complete > 90 THEN ac + left
               ELSE IF CPI < 80 \/ CPI > 120 THEN ac + (left * 10000) \div (CPI * SPI)
               ELSE ac + (left * 100) \div CPI
    IN  IF bac <= 0 THEN 0
        ELSE Clamp(eac, Larger(ac, (bac * 80) \div 100), (bac * (IF complete > 50 THEN 250 ELSE 300)) \div 100)

\* calculateDurationWeightedProgress: a finish date by the status date counts
\* as all of the work, whatever the percentage says.
DurationWeightedSPI(A, status) ==
    LET finished(a) == a.ActualFinish # NoDate /\ a.ActualFinish <= status
        actual == Total(A, LAMBDA a : a.Duration * (IF finished(a) THEN 100 ELSE Pct(a)))
        planned == calculateBCWS_Hours(A, status)
    IN  IF planned > 0 THEN (actual * 100) \div planned ELSE IF actual > 0 THEN 200 ELSE 100

\* computeScheduleDelayImproved, with the overrun of the sector in percent.
Delay(A, status, forecastEnd, overrun) ==
    LET spi == DurationWeightedSPI(A, status)
        forecastFactor == 100 + overrun
        actualFactor == IF spi > 0 THEN Clamp(10000 \div spi, 50, 300) ELSE forecastFactor
        delta == Clamp((actualFactor * 100) \div forecastFactor, 50, 200)
        left == Larger(0, forecastEnd - status)
    IN  [delta |-> delta,
         slip |-> Clamp((left * (Clamp(delta, 60, 200) - 100) + 50) \div 100, -180, 365)]

-----------------------------------------------------------------------------
(***************************************************************************)
(* The local calculation of EVM.js: getCumulativeDistribution for the        *)
(* forecast and createActualEVMChart, with updatePredictedValues_Improved,   *)
(* for the progress.  The activities are changed in place: the start         *)
(* milestone (0) is completed once per forecast and every activity is given  *)
(* predicted dates.                                                          *)
(***************************************************************************)
CONSTANTS
    EvmSchedules    \* the schedules asked about: node, links, status, overrun, topoOrder

EvmActivity ==
    [Start : Int, Finish : Int, riskAdjustedStart : Int, riskAdjustedEnd : Int, ActualStart : Int, ActualFinish : Int,
     Duration : Int, riskAdjustedDuration : Int, ActualDuration : Int, ActualCost : Int, PercentComplete : Int]
\* What getLinkLagHours gives is a number of hours; links and the order are
\* lists, and a sector's overrun is no saving.
IsSchedule(s) ==
    /\ DOMAIN s = {"node", "links", "status", "overrun", "topoOrder"}
    /\ s.node \in [DOMAIN s.node -> EvmActivity]
    /\ IsFiniteSet(DOMAIN s.node) /\ DOMAIN s.node \subseteq Nat /\ 0 \in DOMAIN s.node
    /\ s.links \in Seq(ToSet(s.links)) /\ s.topoOrder \in Seq(ToSet(s.topoOrder))
    /\ \A k \in 1..Len(s.links) : s.links[k].lag \in Int
    /\ s.status \in Int /\ s.overrun \in Nat
ASSUME EvmAssumption == \A s \in EvmSchedules : IsSchedule(s)

VARIABLES
    evmIn,          \* the schedule: its activities change
    predicted,      \* predictedStart, predictedEnd and predictedDuration
    startMilestoneAutoCompleted,
    evmStep,        \* where the calculation is
    outlook,        \* delta and slip of the progress so far
    forecasted, actual  \* the results; a record without points before

evmVars == <<evmIn, predicted, startMilestoneAutoCompleted, evmStep, outlook, forecasted, actual>>

A == evmIn.node
IDs == DOMAIN A
status == evmIn.status
LinkSet == ToSet(evmIn.links)

-----------------------------------------------------------------------------
(* Durations are predicted in parts of an hour: a percentage of a percentage. *)
Part == 10000
AddParts(d, t) == Counted(d, CeilDiv(t, HoursPerDay * Part), 1)
SubtractParts(d, t) == Counted(d, CeilDiv(t, HoursPerDay * Part), -1)
Prediction(s, e, t) == [start |-> s, end |-> e, duration |-> t]
Ending(s, t) == Prediction(s, AddParts(s, t), t)

\* autoCompleteStartMilestone, with checkIfActualDataAvailable.
HasProgress(a) == a.ActualStart # NoDate \/ Pct(a) > 0
checkIfActualDataAvailable ==
    \E i \in IDs : A[i].ActualStart # NoDate \/ A[i].ActualFinish # NoDate \/ (Pct(A[i]) > 0 /\ i # 0)
Completed ==
    LET starts == {A[i].ActualStart : i \in IDs \ {0}} \ {NoDate}
        first == IF starts = {} THEN A[0].Start ELSE CHOOSE d \in starts : \A e \in starts : d <= e
        from == Or(A[0].ActualStart, first)
    IN  [A EXCEPT ![0] = [A[0] EXCEPT !.PercentComplete = 100, !.ActualStart = from,
                                      !.ActualFinish = Or(A[0].ActualFinish, from), !.ActualDuration = 0]]

\* validateNodes.
isValid(B) ==
    \A i \in DOMAIN B : /\ B[i].Start # NoDate /\ B[i].Finish # NoDate
                        /\ B[i].Duration >= 0 /\ B[i].Start <= B[i].Finish
                        /\ B[i].ActualStart # NoDate /\ B[i].ActualFinish # NoDate
                             => B[i].ActualStart <= B[i].ActualFinish

AutoComplete(done) ==
    IF ~done /\ checkIfActualDataAvailable
    THEN /\ evmIn' = [evmIn EXCEPT !.node = Completed]
         /\ startMilestoneAutoCompleted' = TRUE
    ELSE UNCHANGED evmIn /\ startMilestoneAutoCompleted' = done

-----------------------------------------------------------------------------
(* The forecast curves: every day of the span, both ends included, adds the   *)
(* hours divided by the days between the ends.                                *)
Daily(hours, s, f, d) == IF s <= d /\ d <= f THEN (hours * 100) \div Larger(1, f - s) ELSE 0
Cumulated(B, first, d, Hours(_), S(_), F(_)) ==
    SumFunction([e \in first..d |-> Total(B, LAMBDA a : Daily(Hours(a), S(a), F(a), e))])
Planned(B, d) == Cumulated(B, B[0].Start, d, LAMBDA a : a.Duration, LAMBDA a : a.Start, LAMBDA a : a.Finish)
WithOverrun(B, d) == Cumulated(B, B[0].Start, d, ForecastHours, ForecastStart, ForecastEnd)
Marks(B) == UNION {{B[i].Start, B[i].Finish, ForecastStart(B[i]), ForecastEnd(B[i])} : i \in DOMAIN B}
EndNode(B) == CHOOSE i \in DOMAIN B : \A j \in DOMAIN B : j <= i

Summary(B, bcwp, acwp) ==
    LET bcws == calculateBCWS_Hours(B, status)
        m == calculateEVMetrics(bcwp, acwp, bcws)
        bac == calculateBAC_Hours(B)
        complete == IF bac > 0 THEN bcwp \div bac ELSE 0
    IN  [BCWS |-> bcws, BCWP |-> bcwp, ACWP |-> acwp, metrics |-> m,
         EAC |-> calculateEAC(bac, Modelled(m.CPIcum, maxCPI), Modelled(m.SPI, maxSPI), complete)]

None == [points |-> {}]

getCumulativeDistribution ==
    /\ evmStep = "idle" /\ forecasted = None
    /\ AutoComplete(FALSE)
    /\ forecasted' =
         LET B == evmIn'.node
             dates == {d \in Marks(B) : B[0].Start <= d /\ d <= ForecastEnd(B[EndNode(B)])}
         IN  IF isValid(B)
             THEN [points |-> dates, planned |-> [d \in dates |-> Planned(B, d)],
                   withOverrun |-> [d \in dates |-> WithOverrun(B, d)],
                   summary |-> Summary(B, calculateForecastedBCWP(B, status), calculateForecastedACWP(B, status))]
             ELSE None
    /\ evmStep' = IF isValid(evmIn'.node) THEN "idle" ELSE "refused"
    /\ UNCHANGED <<predicted, outlook, actual>>

\* createActualEVMChart up to the schedule delay.
StartActual ==
    /\ evmStep = "idle" /\ actual = None
    /\ AutoComplete(startMilestoneAutoCompleted)
    /\ LET B == evmIn'.node
           shown == isValid(B) /\ \E i \in IDs : HasProgress(B[i]) \/ B[i].ActualFinish # NoDate
       IN  /\ evmStep' = IF shown THEN "assign" ELSE "refused"
           /\ outlook' = IF shown THEN Delay(B, status, ForecastEnd(B[EndNode(B)]), evmIn.overrun)
                         ELSE outlook
    /\ UNCHANGED <<predicted, forecasted, actual>>

-----------------------------------------------------------------------------
(* updatePredictedValues_Improved *)
Imputed(a) == Smaller(ForecastEnd(a), status)
Assigned(a) ==
    LET done == a.Duration * Pct(a)
        rest == (a.Duration * 100 - done) * outlook.delta
        shifted == Larger(ForecastStart(a), status) + outlook.slip
    IN  CASE a.ActualStart # NoDate /\ a.ActualFinish # NoDate /\ a.ActualDuration # -1 ->
               Prediction(a.ActualStart, a.ActualFinish, a.ActualDuration * Part)
          [] Pct(a) = 100 /\ ~(a.ActualStart # NoDate /\ a.ActualFinish # NoDate) ->
               Prediction(ForecastStart(a), Imputed(a), ForecastHours(a) * Part)
          [] a.ActualStart # NoDate /\ Pct(a) \in 1..99 ->
               Ending(a.ActualStart, done * 100 + rest)
          [] OTHER -> Ending(shifted, a.Duration * outlook.delta * 100)

Assign ==
    /\ evmStep = "assign"
    /\ predicted' = [i \in IDs |-> Assigned(A[i])]
    /\ evmStep' = "decay"
    /\ UNCHANGED <<evmIn, startMilestoneAutoCompleted, outlook, forecasted, actual>>

\* findLastActiveActivities: activities under way that no successor follows.
Succs(i) == {l.target : l \in {k \in LinkSet : k.source = i}} \cap IDs
Frontier == {i \in Worked(A) : HasProgress(A[i]) /\ \A j \in Succs(i) : ~HasProgress(A[j])}

\* applyDistanceDecay: breadth first from the frontier.
Within[k \in Nat] == IF k = 0 THEN Frontier ELSE Within[k - 1] \cup UNION {Succs(i) : i \in Within[k - 1]}
Reached == Within[Cardinality(IDs)]
Distance(i) == CHOOSE k \in 0..Cardinality(IDs) : i \in Within[k] /\ (k > 0 => i \notin Within[k - 1])
\* 0.85 to the power of the distance.
Weight[k \in Nat] == IF k = 0 THEN 100 ELSE (Weight[k - 1] * 85 + 50) \div 100
Untouched(a) == ~HasProgress(a) /\ a.ActualFinish = NoDate
Decayed(i) ==
    LET w == Weight[Distance(i)]
    IN  Ending(predicted[i].start, ForecastHours(A[i]) * (w * outlook.delta + (100 - w) * 100))

Decay ==
    /\ evmStep = "decay"
    /\ predicted' = [i \in IDs |-> IF i \in Reached /\ Untouched(A[i]) THEN Decayed(i) ELSE predicted[i]]
    /\ evmStep' = "propagate"
    /\ UNCHANGED <<evmIn, startMilestoneAutoCompleted, outlook, forecasted, actual>>

\* computeTopologicalOrder: Kahn's sort.  What a cycle reaches is left out, and
\* so is the target of a link from an unknown activity, whose in-degree never
\* falls to 0.  Which of the ready activities comes first makes no difference to
\* the propagation.
computeTopologicalOrder ==
    LET ready(S, i) == \A l \in LinkSet : l.target = i => l.source \in S
        sorted[S \in SUBSET IDs] ==
            LET next == {i \in IDs \ S : ready(S, i)}
            IN  IF next = {} THEN <<>>
                ELSE LET i == CHOOSE j \in next : \A h \in next : j <= h IN <<i>> \o sorted[S \cup {i}]
    IN  sorted[{}]

\* propagatePredictionsTopologically follows the order that another script has
\* left on the page, or else its own.
Required(P, i, l) ==
    LET p == P[l.source]
        own == P[i].duration
    IN  CASE l.type = "SS" -> AddHours(p.start, l.lag)
          [] l.type = "FF" -> IF own > 0 THEN SubtractParts(AddHours(p.end, l.lag), own) ELSE NoDate
          [] l.type = "SF" -> IF own > 0 THEN SubtractParts(AddHours(p.start, l.lag), own) ELSE NoDate
          [] OTHER -> AddHours(p.end, l.lag)
LinksInto(i) == {l \in LinkSet : l.target = i /\ l.source \in IDs}
RequiredStarts(P, i) == {Required(P, i, l) : l \in LinksInto(i)} \ {NoDate}
MaxRequired(P, i) == CHOOSE d \in RequiredStarts(P, i) : \A e \in RequiredStarts(P, i) : e <= d
\* Mutant: one of the links into the activity decides.
PushedByOne(P, i) ==
    IF i \in IDs /\ A[i].ActualStart = NoDate /\ LinksInto(i) # {}
    THEN LET l == CHOOSE k \in LinksInto(i) : TRUE
         IN  IF Required(P, i, l) > P[i].start THEN [P EXCEPT ![i] = Ending(Required(P, i, l), @.duration)] ELSE P
    ELSE P
Pushed(P, i) ==
    IF i \in IDs /\ A[i].ActualStart = NoDate /\ \E d \in RequiredStarts(P, i) : d > P[i].start
    THEN [P EXCEPT ![i] = Ending(MaxRequired(P, i), @.duration)]
    ELSE P
Propagate ==
    /\ evmStep = "propagate"
    /\ predicted' =
         IF evmIn.links = <<>> THEN predicted
         ELSE FoldLeft(Pushed, predicted,
                       IF evmIn.topoOrder = <<>> THEN computeTopologicalOrder ELSE evmIn.topoOrder)
    /\ evmStep' = "draw"
    /\ UNCHANGED <<evmIn, startMilestoneAutoCompleted, outlook, forecasted, actual>>

-----------------------------------------------------------------------------
(* The curves of createActualEVMChart.                                        *)

\* Mutant: only finished work is read at its date.
EarnedAtOnce(i, d) == IF A[i].ActualFinish # NoDate /\ A[i].ActualFinish <= d THEN A[i].Duration * 100
                      ELSE IF d <= status THEN A[i].Duration * Pct(A[i]) ELSE 0
\* What activity i has earned by day d, in percent-hours: finished, between
\* its actual dates, under way, by the plan up to the status date, and by the
\* prediction after it.  Dates are imputed to progress that has none.
Earned(i, d) ==
    LET a == A[i]
        pct == Pct(a)
        s == IF pct > 0 THEN Or(a.ActualStart, ForecastStart(a)) ELSE a.ActualStart
        f == IF pct = 100 /\ a.ActualFinish = NoDate THEN Imputed(a) ELSE a.ActualFinish
        p == predicted[i]
        share ==
            IF f # NoDate
            THEN IF f <= d THEN (IF pct > 0 THEN pct ELSE 100)
                 ELSE IF s # NoDate /\ s <= d
                      THEN Smaller(Elapsed(s, f, d), IF pct > 0 THEN pct ELSE 100)
                      ELSE 0
            ELSE IF s # NoDate /\ pct > 0 /\ s <= d THEN pct
            ELSE IF pct > 0 /\ d <= status
            THEN IF ForecastEnd(a) <= d THEN pct
                 ELSE IF ForecastStart(a) <= d
                      THEN Smaller(Elapsed(ForecastStart(a), ForecastEnd(a), d), pct) ELSE 0
            ELSE IF d > status
            THEN IF p.end <= d THEN 100
                 ELSE IF p.start <= d THEN Elapsed(p.start, p.end, d) ELSE 0
            ELSE 0
    IN  a.Duration * share

\* What it has cost, or will cost, on day d.
SpentOn(i, d) ==
    LET a == A[i]
        pct == Pct(a)
        imputed == pct = 100 /\ (a.ActualStart = NoDate \/ a.ActualFinish = NoDate)
        s == IF imputed THEN ForecastStart(a) ELSE a.ActualStart
        f == Or(IF imputed THEN Imputed(a) ELSE a.ActualFinish, status)
        hours == IF a.ActualDuration # -1 THEN a.ActualDuration * 100 ELSE a.Duration * pct
    IN  IF s # NoDate /\ s <= d /\ d <= f THEN hours \div Larger(1, f - s) ELSE 0
PredictedOn(i, d) ==
    LET p == predicted[i]
    IN  IF d > status /\ p.start <= d /\ d <= p.end THEN (p.duration \div 100) \div Larger(1, p.end - p.start) ELSE 0

\* The dates compared: those of the activities, the status date, each week.
Compared ==
    LET marks == UNION {{A[i].Start, A[i].Finish, A[i].ActualStart, A[i].ActualFinish,
                         A[i].riskAdjustedStart, A[i].riskAdjustedEnd,
                         predicted[i].start, predicted[i].end} : i \in IDs}
        dates == (marks \cup {status}) \ {NoDate}
        first == CHOOSE d \in dates : \A e \in dates : d <= e
        last == CHOOSE d \in dates : \A e \in dates : e <= d
    IN  dates \cup {d \in first..last : (d - first) % 7 = 0}

Draw ==
    /\ evmStep = "draw"
    /\ actual' =
         LET days == Compared
             sum(Of(_, _), d) == SumFunctionOnSet([i \in Worked(A) |-> Of(i, d)], Worked(A))
             upTo(Of(_, _), d) == SumFunction([e \in {c \in days : c <= d} |-> sum(Of, e)])
         IN  [points |-> days, earned |-> [d \in days |-> sum(Earned, d)],
              spent |-> [d \in days |-> upTo(SpentOn, d)],
              predicted |-> [d \in days |-> IF d <= status THEN upTo(SpentOn, d)
                                            ELSE upTo(SpentOn, status) + upTo(PredictedOn, d)],
              frontier |-> Frontier,
              summary |-> Summary(A, calculateBCWP_Hours(A), calculateACWP(A, status))]
    /\ evmStep' = "idle"
    /\ UNCHANGED <<evmIn, predicted, startMilestoneAutoCompleted, outlook, forecasted>>

-----------------------------------------------------------------------------
EvmInit ==
    /\ evmIn \in EvmSchedules
    /\ predicted = [i \in IDs |-> Prediction(NoDate, NoDate, 0)]
    /\ startMilestoneAutoCompleted = FALSE
    /\ evmStep = "idle" /\ outlook = [delta |-> 100, slip |-> 0]
    /\ forecasted = None /\ actual = None

EvmNext == getCumulativeDistribution \/ StartActual \/ Assign \/ Decay \/ Propagate \/ Draw

EvmSpec == EvmInit /\ [][EvmNext]_evmVars /\ WF_evmVars(EvmNext)

-----------------------------------------------------------------------------
(* Properties *)

\* Once the predictions have gone along the links in a topological order of all
\* activities, or in one computed for a network that has one,
\* every activity that has not started is predicted to start no earlier than
\* any of its links asks, whatever the slip, the decay, the relation and the
\* lag did to it and to the activities before it.
TopoOrderOK ==
    IF evmIn.topoOrder = <<>>
    THEN \A C \in (SUBSET IDs) \ {{}} : \E i \in C : \A l \in LinkSet : l.target = i => l.source \in IDs \ C
    ELSE /\ IDs \subseteq ToSet(evmIn.topoOrder)
         /\ \A j, k \in 1..Len(evmIn.topoOrder) :
               (\E l \in LinkSet : l.source = evmIn.topoOrder[j] /\ l.target = evmIn.topoOrder[k]) => j < k
PredictionsFollowLinks ==
    evmStep = "draw" /\ TopoOrderOK =>
        \A i \in IDs : A[i].ActualStart = NoDate => \A d \in RequiredStarts(predicted, i) : d <= predicted[i].start

\* The earned-value curve never falls and never earns more than the budget,
\* over actual, imputed, planned and predicted dates and across the status
\* date, for progress that had begun by the status date and a forecast no
\* earlier than it.
Sound(i) == /\ A[i].ActualStart = NoDate \/ A[i].ActualStart <= status
            /\ Pct(A[i]) > 0 => ForecastStart(A[i]) <= status
EarnedNeverFalls ==
    actual # None /\ (\A i \in IDs : Sound(i)) =>
        \A d, e \in actual.points :
            d <= e => actual.earned[d] <= actual.earned[e] /\ actual.earned[e] <= 100 * calculateBAC_Hours(A)
=============================================================================
