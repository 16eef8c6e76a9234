---------------------------- MODULE GroupMetrics ----------------------------
(***************************************************************************)
(* The metrics of a group of activities, CommunityGroups.js:                 *)
(* ProjectGroupManager._calculateGroupMetricsInternal and                    *)
(* calculateGroupHealthScore.  A group is a sequence of activities; dates    *)
(* are day numbers, 0 for none; percentages are whole, risks per mille, and  *)
(* a ratio is kept as a pair [of, in], compared without dividing.  Then how  *)
(* they last while the activities change in place, and the metrics of the    *)
(* network of groups.                                                        *)
(***************************************************************************)
EXTENDS Integers, Sequences, FiniteSets, SequencesExt, FiniteSetsExt

CONSTANT dataDate

Unknown == 0
Tally(nodes, Is(_)) == Cardinality({k \in DOMAIN nodes : Is(nodes[k])})
SumOver(nodes, Of(_)) == MapThenSumSet(LAMBDA k : Of(nodes[k]), DOMAIN nodes)
Earliest(dates) == IF dates \subseteq {Unknown} THEN Unknown ELSE Min(dates \ {Unknown})
Latest(dates) == Max(dates \cup {Unknown})
DatesOf(nodes, Of(_)) == {Of(nodes[k]) : k \in DOMAIN nodes}

\* Ratios: of out of in, compared with percent/100; nothing out of nothing is 0.
Ratio(a, b) == [of |-> a, in |-> b]
AtLeast(r, percent) == IF r.in <= 0 THEN percent <= 0 ELSE 100 * r.of >= percent * r.in
Below(r, percent) == ~AtLeast(r, percent)

-----------------------------------------------------------------------------
IsCompleted(n) == n.percentComplete >= 100
IsInProgress(n) == n.percentComplete > 0 /\ ~IsCompleted(n)
Progress(nodes) == Ratio(SumOver(nodes, LAMBDA n : n.percentComplete * n.duration), 100 * SumOver(nodes, LAMBDA n : n.duration))

IsNearCritical(n) == n.isOnOutlierPath /\ ~n.isOnCriticalPath
criticalActivities(nodes) == SelectSeq(nodes, LAMBDA n : n.isOnCriticalPath)

highRisk == 700
mediumRisk == 400
ValidRisks(nodes) == SelectSeq(nodes, LAMBDA n : n.riskScore > 0)
RiskMetrics(nodes) ==
    [total |-> SumOver(nodes, LAMBDA n : n.riskScore), valid |-> Len(ValidRisks(nodes)),
     high |-> Tally(nodes, LAMBDA n : n.riskScore >= highRisk),
     medium |-> Tally(nodes, LAMBDA n : n.riskScore >= mediumRisk /\ n.riskScore < highRisk)]

\* A slack of 0 is taken for none, and the dates for it.
FloatOf(n) == IF n.slack # 0 THEN n.slack ELSE n.LF - n.EF
MinFloat(nodes) == IF nodes = <<>> THEN 0 ELSE Min({FloatOf(n) : n \in Range(nodes)})

\* The costs: SPI of work scheduled, CPI of actual cost, which may be none: then
\* the CPI of work performed is infinite.
CostMetrics(nodes) ==
    LET bcwp == SumOver(nodes, LAMBDA n : n.BCWP)
    IN  [BAC |-> SumOver(nodes, LAMBDA n : n.BAC), SPI |-> Ratio(bcwp, SumOver(nodes, LAMBDA n : n.BCWS)),
         CPI |-> Ratio(bcwp, SumOver(nodes, LAMBDA n : n.ACWP))]
HasSPI(c) == c.SPI.in > 0 /\ c.SPI.of > 0
HasCPI(c) == c.CPI.of > 0
CPIBelow(c, percent) == c.CPI.in > 0 /\ Below(c.CPI, percent)

IsMilestone(n) == n.milestone
IsDelayedMilestone(n) == n.milestone /\ ~IsCompleted(n) /\ n.Finish # Unknown /\ n.Finish <= dataDate

\* What is done counts by its actual dates, the rest by what is predicted.
PredictedOr(predicted, planned) == IF predicted # Unknown THEN predicted ELSE planned
SpanMetrics(nodes) ==
    LET done == SelectSeq(nodes, LAMBDA n : IsCompleted(n))
        rest == SelectSeq(nodes, LAMBDA n : ~IsCompleted(n))
    IN  [earliestStart |-> Earliest(DatesOf(nodes, LAMBDA n : n.Start)), latestEnd |-> Latest(DatesOf(nodes, LAMBDA n : n.Finish)),
         actualStart |-> Earliest(DatesOf(done, LAMBDA n : n.ActualStart)), actualFinish |-> Latest(DatesOf(done, LAMBDA n : n.ActualFinish)),
         predictedStart |-> Earliest(DatesOf(rest, LAMBDA n : PredictedOr(n.predictedStart, n.Start))),
         predictedEnd |-> Latest(DatesOf(rest, LAMBDA n : PredictedOr(n.predictedEnd, n.Finish)))]

\* An activity is behind its schedule by its actual finish when it is done, by
\* its predicted one when it has begun, and else when its start has passed.
IsBehind(n) ==
    IF IsCompleted(n) THEN n.Finish # Unknown /\ n.ActualFinish > n.Finish
    ELSE IF n.percentComplete > 0 THEN n.Finish # Unknown /\ n.predictedEnd > n.Finish
    ELSE n.Start # Unknown /\ dataDate > n.Start
IsAhead(n) ==
    IF IsCompleted(n) THEN n.ActualFinish # Unknown /\ n.ActualFinish < n.Finish
    ELSE n.percentComplete > 0 /\ PredictedOr(n.predictedEnd, n.Finish) < n.Finish

_calculateGroupMetricsInternal(nodes) ==
    [nodeCount |-> Len(nodes), aggregateProgress |-> Progress(nodes),
     completedNodes |-> Tally(nodes, IsCompleted), inProgressNodes |-> Tally(nodes, IsInProgress),
     criticalActivities |-> criticalActivities(nodes), nearCriticalCount |-> Tally(nodes, IsNearCritical),
     risk |-> RiskMetrics(nodes), minFloat |-> MinFloat(nodes), cost |-> CostMetrics(nodes), span |-> SpanMetrics(nodes),
     totalMilestones |-> Tally(nodes, IsMilestone), delayedMilestones |-> Tally(nodes, IsDelayedMilestone),
     behindScheduleCount |-> Tally(nodes, IsBehind), aheadScheduleCount |-> Tally(nodes, IsAhead)]

-----------------------------------------------------------------------------
(* calculateGroupHealthScore: what each part takes from 100, or adds.         *)
\* The penalty of the first band [from, penalty] that the ratio reaches.
Band(r, bands) ==
    LET k == SelectInSeq(bands, LAMBDA b : AtLeast(r, b[1])) IN IF k = 0 THEN 0 ELSE bands[k][2]
CompleteHealth(m) ==
    LET late == IF m.delayedMilestones > 0 THEN Min({5, m.delayedMilestones}) ELSE 0
        slow == IF HasSPI(m.cost) /\ Below(m.cost.SPI, 90) THEN 5 ELSE 0
    IN  Max({85, 95 - late - slow})

\* Mutant: two bands have each other's penalties.
DelayBandsSwapped == <<<<50, 15>>, <<30, 20>>, <<15, 10>>>>
DelayBands == <<<<50, 20>>, <<30, 15>>, <<15, 10>>>>
\* A smaller share costs in proportion to it, rounded.
DelayPenalty(m) ==
    LET r == Ratio(m.behindScheduleCount, m.nodeCount)
    IN  IF AtLeast(r, 15) THEN Band(r, DelayBands) ELSE (60 * r.of + r.in) \div (2 * r.in)
\* How far the work is behind the time that has passed, in parts of a ratio.
TimePenalty(m) ==
    LET total == m.span.latestEnd - m.span.earliestStart
        elapsed == Max({0, dataDate - m.span.earliestStart})
        p == IF m.aggregateProgress.in > 0 THEN m.aggregateProgress ELSE Ratio(0, 1)
        gap == Ratio(Min({elapsed, total}) * p.in - p.of * total, total * p.in)
    IN  IF m.span.earliestStart = Unknown \/ m.span.latestEnd = Unknown \/ total <= 0 THEN 0
        ELSE IF 100 * gap.of > 20 * gap.in THEN 15 ELSE IF 100 * gap.of > 10 * gap.in THEN 10
        ELSE IF 100 * gap.of > 5 * gap.in THEN 5 ELSE IF 100 * gap.of < -10 * gap.in THEN -5 ELSE 0
SpeedPenalty(m) ==
    IF ~HasSPI(m.cost) THEN 0
    ELSE IF Below(m.cost.SPI, 70) THEN 10 ELSE IF Below(m.cost.SPI, 85) THEN 7 ELSE IF Below(m.cost.SPI, 95) THEN 3 ELSE 0
RiskPenalty(m) ==
    LET average == IF m.risk.valid > 0 THEN Ratio(m.risk.total, 1000 * m.risk.valid) ELSE Ratio(0, 1)
        high == Ratio(m.risk.high, m.nodeCount)
    IN  Band(average, <<<<80, 15>>, <<60, 12>>, <<40, 8>>, <<20, 4>>>>)
        + (IF high.of > 0 THEN Band(high, <<<<30, 10>>, <<15, 7>>, <<5, 4>>, <<0, 2>>>>) ELSE 0)
\* A critical activity is delayed by its float, or by its prediction before half of it is done.
IsDelayedCritical(n) ==
    ~IsCompleted(n) /\ (n.slack < 0 \/ (n.percentComplete < 50 /\ n.predictedEnd # Unknown /\ n.predictedEnd > n.Finish))
CriticalPenalty(m) ==
    LET criticals == Len(m.criticalActivities)
        delayed == Ratio(Tally(m.criticalActivities, IsDelayedCritical), criticals)
    IN  Band(Ratio(criticals, m.nodeCount), <<<<50, 10>>, <<30, 6>>, <<15, 3>>>>)
        + (IF delayed.of > 0 THEN Band(delayed, <<<<50, 10>>, <<25, 7>>, <<0, 4>>>>) ELSE 0)
MilestonePenalty(m) ==
    LET late == Ratio(m.delayedMilestones, m.totalMilestones)
    IN  IF late.of = 0 THEN 0 ELSE IF AtLeast(late, 25) THEN Band(late, <<<<50, 10>>, <<25, 7>>>>) ELSE Min({5, 2 * late.of})
CostPenalty(m) ==
    IF ~HasCPI(m.cost) THEN 0
    ELSE IF CPIBelow(m.cost, 80) THEN 5 ELSE IF CPIBelow(m.cost, 90) THEN 3 ELSE IF CPIBelow(m.cost, 95) THEN 1 ELSE 0
Bonus(m) ==
    LET delayed == Ratio(m.behindScheduleCount, m.nodeCount)
        criticals == Ratio(Len(m.criticalActivities), m.nodeCount)
    IN  (IF AtLeast(m.aggregateProgress, 75) /\ Below(delayed, 10) THEN 5
         ELSE IF AtLeast(m.aggregateProgress, 50) /\ Below(delayed, 15) THEN 3 ELSE 0)
        + (IF AtLeast(Ratio(m.completedNodes, m.nodeCount), 50) /\ Below(criticals, 20) THEN 3 ELSE 0)
        + (IF m.totalMilestones > 0 /\ m.delayedMilestones = 0 THEN 2 ELSE 0)
calculateGroupHealthScore(m) ==
    IF AtLeast(m.aggregateProgress, 95) THEN CompleteHealth(m)
    ELSE Max({0, Min({100, 100 - DelayPenalty(m) - TimePenalty(m) - SpeedPenalty(m) - RiskPenalty(m)
                              - CriticalPenalty(m) - MilestonePenalty(m) - CostPenalty(m) + Bonus(m)})})
healthScore(nodes) == calculateGroupHealthScore(_calculateGroupMetricsInternal(nodes))

-----------------------------------------------------------------------------
(* groupNodesByWBS and its like, and what the Gantt chart shows of the groups. *)
\* A numeric 0 is a group of its own here.
GroupKey(value) == IF value = "none" THEN "Unassigned" ELSE value
GanttRows(groups) ==
    {g \in DOMAIN groups : /\ groups[g] # <<>>
                           /\ LET span == SpanMetrics(groups[g]) IN span.earliestStart # Unknown /\ span.latestEnd # Unknown}

(* WorkGroupInsights: what is sent of a group, and said of it when the service
   fails.                                                                       *)
IsLate(n) == n.delayed \/ n.slack < 0
computeBasicMetrics(nodes) ==
    [activityCount |-> Len(nodes), criticalCount |-> Tally(nodes, LAMBDA n : n.isOnCriticalPath),
     nearCriticalCount |-> Tally(nodes, IsNearCritical), behindScheduleCount |-> Tally(nodes, IsLate)]
isRisky(nodes) == LET m == computeBasicMetrics(nodes) IN m.behindScheduleCount > 0 \/ m.criticalCount > 0
\* The phase of a group: commissioning when two activities or more and 15% of it
\* are, else the commonest one if a fifth has it (the first of several).
phaseCounts(nodes, phase) == Tally(nodes, LAMBDA n : n.phase = phase)
CommissioningPhase(nodes) ==
    LET pre == phaseCounts(nodes, "Pre-Commissioning")
        com == phaseCounts(nodes, "Commissioning")
    IN  IF pre + com >= 2 /\ AtLeast(Ratio(pre + com, Len(nodes)), 15)
        THEN IF pre >= com THEN "Pre-Commissioning" ELSE "Commissioning" ELSE "none"
DominantPhase(nodes) ==
    LET named == SelectSeq(nodes, LAMBDA n : n.phase \notin {"none", "Other"})
        most == Max({phaseCounts(nodes, n.phase) : n \in Range(named)})
        first == named[SelectInSeq(named, LAMBDA n : phaseCounts(nodes, n.phase) = most)]
    IN  IF named # <<>> /\ AtLeast(Ratio(most, Len(nodes)), 20) THEN first.phase ELSE "none"
detectTags(nodes, namedPhase) ==
    IF CommissioningPhase(nodes) # "none" THEN CommissioningPhase(nodes)
    ELSE IF DominantPhase(nodes) # "none" THEN DominantPhase(nodes) ELSE namedPhase
\* The order of the samples: critical, near critical, riskier, less complete.
SampledBefore(a, b) ==
    \/ a.isOnCriticalPath /\ ~b.isOnCriticalPath
    \/ /\ a.isOnCriticalPath = b.isOnCriticalPath
       /\ \/ a.isOnOutlierPath /\ ~b.isOnOutlierPath
          \/ /\ a.isOnOutlierPath = b.isOnOutlierPath
             /\ a.riskScore > b.riskScore \/ (a.riskScore = b.riskScore /\ a.percentComplete < b.percentComplete)
getSampleActivities(nodes, count) ==
    LET precedes(i, j) == SampledBefore(nodes[i], nodes[j]) \/ (~SampledBefore(nodes[j], nodes[i]) /\ i <= j)
        rank(i) == Cardinality({j \in DOMAIN nodes : precedes(j, i)})
        order == [k \in DOMAIN nodes |-> CHOOSE i \in DOMAIN nodes : rank(i) = k]
    IN  [k \in 1..Min({count, Len(nodes)}) |-> nodes[order[k]]]

-----------------------------------------------------------------------------
(***************************************************************************)
(* The metrics of a group over time: what MetricsCache keeps for an array of *)
(* activities, which the predictions of the EVM page change in place, until  *)
(* the activities are grouped again; and what WorkGroupInsights sends of it. *)
(***************************************************************************)
CONSTANTS HealthCases, MaxDelays
VARIABLES members, cachedMetrics, sentGroup, delays

healthVars == <<members, cachedMetrics, sentGroup, delays>>

\* MetricsCache.get, of an array that has none yet.
Computed(nodes) == [metrics |-> _calculateGroupMetricsInternal(nodes), healthScore |-> healthScore(nodes)]
Sent(nodes) ==
    [metrics |-> computeBasicMetrics(nodes), detectedTags |-> detectTags(nodes, "none"),
     sampleActivities |-> getSampleActivities(nodes, 3), risky |-> isRisky(nodes),
     rows |-> GanttRows([group |-> nodes])]
HealthInit ==
    /\ members \in HealthCases /\ cachedMetrics = Computed(members)
    /\ sentGroup = Sent(members) /\ delays = 0
\* A later prediction, or actual finish, of an activity: the array is the same.
Slip(k) ==
    /\ delays < MaxDelays /\ delays' = delays + 1
    /\ members' = [members EXCEPT ![k] =
                     IF IsCompleted(@) THEN [@ EXCEPT !.ActualFinish = @ + 2]
                     ELSE [@ EXCEPT !.predictedEnd = PredictedOr(@, members[k].Finish) + 2]]
    /\ UNCHANGED <<cachedMetrics, sentGroup>>
\* The metrics are those of the array; what is sent is worked out each time.
Send == sentGroup' = Sent(members) /\ UNCHANGED <<members, cachedMetrics, delays>>
GroupAgain == cachedMetrics' = Computed(members) /\ UNCHANGED <<members, sentGroup, delays>>
HealthNext == (\E k \in DOMAIN members : Slip(k)) \/ Send \/ GroupAgain
HealthSpec == HealthInit /\ [][HealthNext]_healthVars

-----------------------------------------------------------------------------
\* Slipping never helps: the health of a group, a sum of banded penalties and
\* bonuses of ratios that each slip moves, does not rise while its activities only
\* finish later.
DelayNeverHelps == [][cachedMetrics'.healthScore <= cachedMetrics.healthScore]_healthVars

-----------------------------------------------------------------------------
(***************************************************************************)
(* The network of the groups, drawCommunityGroupGraph of CommunityGroups.js: *)
(* the links between groups and within them, what each group passes on and   *)
(* receives, and its place in the network.  A field of an activity names its *)
(* group; "none" stands for no value and "0" for the number 0.               *)
(***************************************************************************)
CONSTANT NetworkCases   \* records: fieldOf, a function from activity to group, and links

ASSUME NetworkAssumption == \A case \in NetworkCases : IsFiniteSet(DOMAIN case.fieldOf) /\ IsFiniteSet(DOMAIN case.links)

VARIABLES groupCase, groupGraph, betweenness, groupStep

networkVars == <<groupCase, groupGraph, betweenness, groupStep>>

-----------------------------------------------------------------------------
GroupIds(fieldOf) == {GroupKey(fieldOf[n]) : n \in DOMAIN fieldOf}
\* Links look their groups up by the field, where 0 counts as no value; a group
\* without a number is none of the network's.
LookedUp(value) == IF value \in {"none", "0"} THEN "Unassigned" ELSE value
KnownLinks(case) == {k \in DOMAIN case.links : {case.links[k][1], case.links[k][2]} \subseteq DOMAIN case.fieldOf}
GroupEnds(case) ==
    LET group(n) == LookedUp(case.fieldOf[n]) IN [k \in KnownLinks(case) |-> <<group(case.links[k][1]), group(case.links[k][2])>>]
\* How many links lead from one group to another.
\* Mutant: a second link does not add to the count.
LinkCountOnce(case, g, h) ==
    IF {g, h} \subseteq GroupIds(case.fieldOf) /\ g # h /\ <<g, h>> \in Range(GroupEnds(case)) THEN 1 ELSE 0
LinkCount(case, g, h) ==
    IF {g, h} \subseteq GroupIds(case.fieldOf) /\ g # h
    THEN LET ends == GroupEnds(case) IN Cardinality({k \in DOMAIN ends : ends[k] = <<g, h>>}) ELSE 0
internalLinks(case, g) == LET ends == GroupEnds(case) IN Cardinality({k \in DOMAIN ends : ends[k] = <<g, g>>})

\* computeInterGroupMetrics: the groups that pass most on to it, up to five; and
\* the activities that receive most from other groups, up to three.
Highest(S, count, Of(_)) ==
    LET some == {x \in S : Of(x) > 0}
    IN  CHOOSE T \in SUBSET some : /\ Cardinality(T) = Min({count, Cardinality(some)})
                                   /\ \A x \in T, y \in some \ T : Of(x) >= Of(y)
handoffNodes(case, g) ==
    LET ends == GroupEnds(case)
        received(n) == Cardinality({k \in DOMAIN ends : case.links[k][2] = n /\ ends[k][1] # g})
        inside == {n \in DOMAIN case.fieldOf : LookedUp(case.fieldOf[n]) = g}
    IN  {[id |-> n, crossGroupPredecessors |-> received(n)] : n \in Highest(inside, 3, received)}
computeInterGroupMetrics(case) ==
    LET groups == GroupIds(case.fieldOf)
        metrics(g) ==
            LET inbound == SumFunction([h \in groups |-> LinkCount(case, h, g)])
                outbound == SumFunction([h \in groups |-> LinkCount(case, g, h)])
            IN  [inboundLinks |-> inbound, outboundLinks |-> outbound, internalLinks |-> internalLinks(case, g),
                 interfaceDensity |-> Ratio(inbound + outbound, inbound + outbound + internalLinks(case, g)),
                 upstreamGroups |-> Highest(groups, 5, LAMBDA h : LinkCount(case, h, g)),
                 downstreamGroups |-> Highest(groups, 5, LAMBDA h : LinkCount(case, g, h)),
                 handoffNodes |-> handoffNodes(case, g)]
    IN  [g \in groups |-> metrics(g)]

-----------------------------------------------------------------------------
(* computeGroupNetworkMetrics, over the groups that links connect.            *)
adjacencyOut(case) == [g \in GroupIds(case.fieldOf) |-> {h \in GroupIds(case.fieldOf) : LinkCount(case, g, h) > 0}]
InNetwork(out) == {g \in DOMAIN out : out[g] # {} \/ \E h \in DOMAIN out : g \in out[h]}
Far == 99
ShareUnit == 12 \* the unit of a share of the shortest paths between two groups
\* The search from a group: distances, numbers of shortest paths, predecessors on
\* them, and the order of the visits.
Visit(s, out) ==
    LET v == Head(s.queue)
        found == {w \in out[v] : s.dist[w] = Far}
        dist == [w \in DOMAIN out |-> IF w \in found THEN s.dist[v] + 1 ELSE s.dist[w]]
        next == {w \in out[v] : dist[w] = dist[v] + 1}
    IN  IF s.queue = <<>> THEN s
        ELSE [queue |-> Tail(s.queue) \o SetToSeq(found), stack |-> Append(s.stack, v), dist |-> dist,
              sigma |-> [w \in DOMAIN out |-> IF w \in next THEN s.sigma[w] + s.sigma[v] ELSE s.sigma[w]],
              pred |-> [w \in DOMAIN out |-> IF w \in next THEN s.pred[w] \cup {v} ELSE s.pred[w]]]
\* No group is visited twice.
SearchFrom(source, out) ==
    LET visited[k \in Nat] ==
            IF k > 0 THEN Visit(visited[k - 1], out)
            ELSE [queue |-> <<source>>, stack |-> <<>>, dist |-> [w \in DOMAIN out |-> IF w = source THEN 0 ELSE Far],
                  sigma |-> [w \in DOMAIN out |-> IF w = source THEN 1 ELSE 0], pred |-> [w \in DOMAIN out |-> {}]]
    IN  visited[Cardinality(DOMAIN out)]
\* Back over the visits, each group hands its share on to its predecessors.
\* Mutant: the share is not divided among the paths.
HandedOnWhole(s, delta, w, v) == ShareUnit + delta[w]
HandedOn(s, delta, w, v) == (s.sigma[v] * (ShareUnit + delta[w])) \div s.sigma[w]
Dependencies(source, out) ==
    LET s == SearchFrom(source, out)
        handOn(delta, w) == [v \in DOMAIN out |-> IF v \in s.pred[w] THEN delta[v] + HandedOn(s, delta, w, v) ELSE delta[v]]
        delta == FoldLeft(handOn, [v \in DOMAIN out |-> 0], Reverse(s.stack))
    IN  [v \in DOMAIN out |-> IF v = source THEN 0 ELSE delta[v]]
BetweennessOf(out) == [v \in DOMAIN out |-> MapThenSumSet(LAMBDA source : Dependencies(source, out)[v], DOMAIN out)]

networkRole(case, rawB, g) ==
    LET out == adjacencyOut(case)
        nodes == InNetwork(out)
        in(h) == Cardinality({x \in nodes : h \in out[x]})
        total == MapThenSumSet(LAMBDA h : Cardinality(out[h]) + in(h), nodes)
        lowest == Min({rawB[h] : h \in nodes})
        highest == Max({rawB[h] : h \in nodes})
        centrality == IF highest > lowest THEN Ratio(rawB[g] - lowest, highest - lowest) ELSE Ratio(0, 1)
    IN  IF AtLeast(centrality, 60) THEN "Bridge"
        ELSE IF 2 * Cardinality(nodes) * Cardinality(out[g]) >= 3 * total THEN "Hub"
        ELSE IF Cardinality(out[g]) + in(g) <= 2 /\ Below(centrality, 30) THEN "Peripheral" ELSE "Standard"

-----------------------------------------------------------------------------
(* The drawing counts the links, then ranks the groups, and keeps both in     *)
(* cybereumState.groups.                                                      *)
NetworkInit == groupCase \in NetworkCases /\ groupGraph = <<>> /\ betweenness = <<>> /\ groupStep = "count"
CountLinks ==
    /\ groupStep = "count" /\ groupStep' = "rank"
    /\ groupGraph' = computeInterGroupMetrics(groupCase)
    /\ UNCHANGED <<groupCase, betweenness>>
RankGroups ==
    /\ groupStep = "rank" /\ groupStep' = "drawn"
    /\ LET out == adjacencyOut(groupCase)
           among == [g \in InNetwork(out) |-> out[g]]
       IN  betweenness' = BetweennessOf(among)
    /\ UNCHANGED <<groupCase, groupGraph>>
\* What is stored of a group that no link connects has no place in the network.
StoredRole(g) == IF g \in DOMAIN betweenness THEN networkRole(groupCase, betweenness, g) ELSE "none"
StoreGroups ==
    /\ groupStep = "drawn" /\ groupStep' = "stored"
    /\ groupGraph' = [g \in DOMAIN groupGraph |-> [metrics |-> groupGraph[g], networkRole |-> StoredRole(g)]]
    /\ UNCHANGED <<groupCase, betweenness>>
NetworkNext == CountLinks \/ RankGroups \/ StoreGroups
NetworkSpec == NetworkInit /\ [][NetworkNext]_networkVars

-----------------------------------------------------------------------------
\* No dependency is lost or counted twice on the way from activities to groups:
\* the links within groups and those that leave one are all the links between
\* known activities, every one that leaves a group enters another, and what a
\* group receives is what its hand-off activities do, when it has up to three.
\* A group with the number 0 is left out: its links are looked up elsewhere.
LinksConserved ==
    LET groups == GroupIds(groupCase.fieldOf)
        total(Of(_)) == SumFunction([g \in groups |-> Of(groupGraph[g])])
        received(g) == SumFunction([h \in groupGraph[g].handoffNodes |-> h.crossGroupPredecessors])
    IN  groupStep \in {"rank", "drawn"} /\ "0" \notin groups =>
            /\ total(LAMBDA m : m.internalLinks) + total(LAMBDA m : m.outboundLinks) = Cardinality(KnownLinks(groupCase))
            /\ total(LAMBDA m : m.inboundLinks) = total(LAMBDA m : m.outboundLinks)
            /\ \A g \in groups : Cardinality({n \in DOMAIN groupCase.fieldOf : GroupKey(groupCase.fieldOf[n]) = g}) <= 3
                                     => received(g) = groupGraph[g].inboundLinks

\* The accumulated betweenness of a group is what the word means: over all pairs
\* of other groups, the share of the shortest paths that pass through it.
Walks(out, s, t) ==
    {p \in SetToAllKPermutations(DOMAIN out) :
        p # <<>> /\ p[1] = s /\ p[Len(p)] = t /\ \A k \in 1..(Len(p) - 1) : p[k + 1] \in out[p[k]]}
Shortest(walks) == {p \in walks : \A q \in walks : Len(p) <= Len(q)}
PathShare(out, s, t, v) ==
    LET paths == Shortest(Walks(out, s, t))
    IN  IF paths = {} THEN 0 ELSE (ShareUnit * Cardinality({p \in paths : v \in Range(p)})) \div Cardinality(paths)
BetweennessCountsPaths ==
    LET out == adjacencyOut(groupCase)
        groups == DOMAIN betweenness
        among == [g \in groups |-> out[g]]
    IN  groupStep = "drawn" =>
            \A v \in groups :
                betweenness[v] = MapThenSumSet(LAMBDA st : PathShare(among, st[1], st[2], v),
                                     {st \in (groups \ {v}) \X (groups \ {v}) : st[1] # st[2]})
=============================================================================
