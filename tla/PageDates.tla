----------------------------- MODULE PageDates ------------------------------
(***************************************************************************)
(* The dates that PathScripts.js keeps of the page's network: the slack      *)
(* engine, which writes dates on the node objects and leaves its order in    *)
(* cybereumState, the distances that reuse that order and the shared maps,   *)
(* the second CPM engine behind the critical paths, and the cascade of a     *)
(* slipped activity.  Nodes and links are edited in place between them, and  *)
(* an import may change the hours of a working day.  Then the driving graph  *)
(* that getDrivingPathAndAlternates walks on the same dates.                 *)
(***************************************************************************)
EXTENDS PageNet

CONSTANTS
    PageNets,       \* the networks the page may hold
    DayHours,       \* the hours of a working day an import may set
    Slips,          \* the slips asked about, in days
    MaxChanges      \* bound: edits and imports

ASSUME PageDatesAssumption == DayHours \subseteq Nat \ {0} /\ Slips \subseteq Nat

VARIABLES
    net, dayHours,  \* the page's nodes and links, DEFAULT_HOURS_PER_DAY
    sharedMaps,     \* the links that cybereumState.predMap and succMap are of, or Unset
    slackResults,   \* its topoOrder, slackValues and projectFinish
    dates,          \* ES, EF, LS, LF and slack of each node object
    critical,       \* the nodes with isCritical, set by either engine
    answer,         \* the distances, critical paths or cascade just returned
    datesOf,        \* history: the net and hours the dates are of
    changes

pageDatesVars == <<net, dayHours, sharedMaps, slackResults, dates, critical, answer, datesOf, changes>>

Unset == [unset |-> TRUE]
NoAnswer == [kind |-> "none"]
Now == [net |-> net, dayHours |-> dayHours]

\* The four relations, with the floor at the start of the project.
StartAsked(l, p, d) ==
    CASE l.type = "SS" -> p.ES + l.lag
      [] l.type = "FF" -> Floor0(p.EF + l.lag - d)
      [] l.type = "SF" -> Floor0(p.ES + l.lag - d)
      [] OTHER -> p.EF + l.lag

-----------------------------------------------------------------------------
(* calculateSlackWithCalendar_Optimized *)
ForwardPass(w) ==
    LET step(D, i) ==
            LET es == Most({0} \cup {StartAsked(l, D[l.source], Hours(w, i)) : l \in Into(w.net, i)})
            IN  [D EXCEPT ![i].ES = es, ![i].EF = es + Hours(w, i)]
    IN  FoldLeft(step, [i \in Ids(w.net) |-> [ES |-> 0, EF |-> 0]], topologicalSort(w.net))
ProjectFinish(w, early) ==
    LET finish == Most({0} \cup {early[i].EF : i \in Ids(w.net)})
    IN  IF finish > 0 THEN finish ELSE SumFunction([i \in Ids(w.net) |-> Hours(w, i)])
\* Every late finish begins at the project's; what is not sorted keeps it.
BackwardPass(w, finish) ==
    LET step(D, i) ==
            LET lf == Least({finish} \cup {FinishAllowed(l, D[l.target], Hours(w, i)) : l \in OutOf(w.net, i)})
            IN  [D EXCEPT ![i].LF = lf, ![i].LS = lf - Hours(w, i)]
    IN  FoldLeft(step, [i \in Ids(w.net) |-> [LF |-> finish, LS |-> finish - Hours(w, i)]],
                 Reverse(topologicalSort(w.net)))
SlackDates(w) ==
    LET early == ForwardPass(w)
        late == BackwardPass(w, ProjectFinish(w, early))
    IN  [i \in Ids(w.net) |-> [ES |-> early[i].ES, EF |-> early[i].EF, LS |-> late[i].LS, LF |-> late[i].LF,
                               slack |-> late[i].LS - early[i].ES]]
Results(w) == [topoOrder |-> topologicalSort(w.net), projectFinish |-> ProjectFinish(w, ForwardPass(w)),
               problems |-> Ids(w.net) \ ToSet(topologicalSort(w.net))]

CalculateSlack ==
    /\ dates' = SlackDates(Now)
    /\ slackResults' = Results(Now)
    /\ critical' = {i \in Ids(net) : dates'[i].slack = 0}
    /\ datesOf' = Now
    /\ answer' = NoAnswer /\ UNCHANGED <<net, dayHours, sharedMaps, changes>>

-----------------------------------------------------------------------------
(* findDistancesToStart, findDistancesToEnd and calculateDistance take the    *)
(* links from the shared maps, if there are any, and the order of the last    *)
(* slack calculation.                                                         *)
Far == -1000
UsedNet == IF sharedMaps = Unset THEN net ELSE [net EXCEPT !.links = sharedMaps.links]
StartWeight(l) ==
    LET d == Hours(Now, l.source)
        own == Hours(Now, l.target)
    IN  CASE l.type = "SS" -> l.lag
          [] l.type = "FF" -> Floor0(d + l.lag - own)
          [] l.type = "SF" -> Floor0(l.lag - own)
          [] OTHER -> d + l.lag
\* Mutant: every relation as if the successor came after the finish.
EndDistanceInSeries(l, beyond) == Hours(Now, l.source) + l.lag + beyond

\* From a successor's distance to the end; a relation to a start or a finish
\* does not make the activity itself any shorter.
EndDistance(l, beyond) ==
    LET d == Hours(Now, l.source)
        next == Hours(Now, l.target)
    IN  CASE l.type = "SS" -> Most({d, l.lag + beyond})
          [] l.type = "FF" -> Most({d, Floor0(d + l.lag - next) + beyond})
          [] l.type = "SF" -> Most({d, Floor0(l.lag - next) + beyond})
          [] OTHER -> d + l.lag + beyond


Swept(from, order, Edges(_, _), Other(_), Step(_, _)) ==
    LET step(D, i) ==
            LET ls == {l \in Edges(UsedNet, i) : D[Other(l)].long # Far}
            IN  IF ls = {} THEN D
                ELSE [D EXCEPT ![i].short = Least({Step(l, D[Other(l)].short) : l \in ls}
                                                  \cup (IF @ = Far THEN {} ELSE {@})),
                               ![i].long = Most({Step(l, D[Other(l)].long) : l \in ls} \cup {@})]
        found == FoldLeft(step, [i \in Ids(net) |-> LET x == IF i = from THEN 0 ELSE Far
                                                    IN [short |-> x, long |-> x]], order)
    IN  [i \in Ids(net) |-> IF found[i].long = Far THEN [short |-> 0, long |-> 0] ELSE found[i]]
findDistancesToStart ==
    Swept(StartId, slackResults.topoOrder, Into, LAMBDA l : l.source, LAMBDA l, x : x + StartWeight(l))
findDistancesToEnd ==
    Swept(EndId(net), Reverse(slackResults.topoOrder), OutOf, LAMBDA l : l.target, LAMBDA l, x : EndDistance(l, x))

\* calculateDistance sorts what the start reaches for itself.
ReachedFrom(n, i) ==
    LET grow[k \in Nat] == IF k = 0 THEN {i}
                           ELSE grow[k - 1] \cup UNION {{l.target : l \in OutOf(n, j)} : j \in grow[k - 1]}
    IN  grow[Cardinality(Ids(n))]
calculateDistances ==
    LET R == ReachedFrom(UsedNet, StartId)
        within == [net EXCEPT !.links = SelectSeq(UsedNet.links, LAMBDA l : l.source \in R /\ l.target \in R)]
        order == SelectSeq(topologicalSort(within), LAMBDA j : j \in R)
        step(D, j) ==
            LET ls == {l \in Into(within, j) : D[l.source] # Far}
            IN  IF ls = {} THEN D ELSE [D EXCEPT ![j] = Most({D[l.source] + StartWeight(l) : l \in ls} \cup {@})]
        dist == FoldLeft(step, [j \in Ids(net) |-> IF j = StartId THEN 0 ELSE Far], order)
    IN  [i \in Ids(net) |-> IF dist[i] = Far THEN 0 ELSE dist[i]]

FindDistances ==
    /\ answer' = [kind |-> "distances", of |-> Now, sorted |-> datesOf.net, links |-> UsedNet.links,
                  toStart |-> findDistancesToStart, toEnd |-> findDistancesToEnd,
                  fromStart |-> calculateDistances]
    /\ UNCHANGED <<net, dayHours, sharedMaps, slackResults, dates, critical, datesOf, changes>>

-----------------------------------------------------------------------------
FindCriticalPath ==
    LET C == CriticalNodes(Now)
        P == PathsOver(net, C)
    IN  /\ critical' = C
        /\ answer' = [kind |-> "critical", of |-> Now, paths |-> P,
                      duration |-> IF P = {} THEN CPMFinish(Now)
                                   ELSE Most({0} \cup {calculatePathDuration(Now, p) : p \in P})]
        /\ UNCHANGED <<net, dayHours, sharedMaps, slackResults, dates, datesOf, changes>>

-----------------------------------------------------------------------------
(* simulateCascade works on copies of the nodes and on the dates they have:   *)
(* what comes after the slipped activity in the order moves when its links    *)
(* ask for a later finish, never to an earlier one.  Called without links it  *)
(* takes those of the shared map, and none if there is no map.                *)
CascadeNet(given) ==
    IF given /\ net.links # <<>> THEN net
    ELSE [net EXCEPT !.links = IF sharedMaps = Unset THEN <<>> ELSE sharedMaps.links]
\* n is the net with the links used.
Slipped(n, order, i, slip) ==
    LET own == [dates EXCEPT ![i].EF = @ + slip, ![i].ES = dates[i].EF + slip - Hours(Now, i)]
        at == CHOOSE k \in 1..Len(order) : order[k] = i
        step(D, j) ==
            LET es == Most({0} \cup {StartAsked(l, D.at[l.source], Hours(Now, j)) : l \in Into(n, j)})
                later == Into(n, j) # {} /\ es + Hours(Now, j) > dates[j].EF
            IN  IF ~later THEN D
                ELSE [at |-> [D.at EXCEPT ![j].ES = es, ![j].EF = es + Hours(Now, j)],
                      affected |-> D.affected \cup {k \in {j} : \E l \in Into(n, j) : l.source \in D.affected}]
    IN  FoldLeft(step, [at |-> own, affected |-> {i}], SubSeq(order, at + 1, Len(order)))
Outcome(n, i, slip, S) ==
    LET delay(j) == S.at[j].EF - dates[j].EF
        end(D) == Most({0} \cup {D[j].EF : j \in Ids(net)})
    IN  [kind |-> "cascade", of |-> Now, dates |-> datesOf, links |-> n.links, start |-> i, slip |-> slip,
         affected |-> {[id |-> j, delay |-> delay(j), absorbedByFloat |-> delay(j) > 0 /\ delay(j) <= dates[j].slack] :
                       j \in {k \in S.affected : k = i \/ delay(k) > 0}},
         endDateSlippage |-> end(S.at) - end(dates)]
SimulateCascade(i, slip, given) ==
    /\ \E n \in {CascadeNet(given)} : \E order \in {topologicalSort(n)} :
          /\ i \in ToSet(order)    \* the errors change nothing
          /\ \E S \in {Slipped(n, order, i, slip * dayHours)} : answer' = Outcome(n, i, slip * dayHours, S)
    /\ UNCHANGED <<net, dayHours, sharedMaps, slackResults, dates, critical, datesOf, changes>>

-----------------------------------------------------------------------------
(* The page, between the calculations.                                        *)
EditNet ==
    /\ changes < MaxChanges /\ changes' = changes + 1
    /\ net' \in {n \in PageNets : Ids(n) = Ids(net)} \ {net}
    /\ answer' = NoAnswer /\ UNCHANGED <<dayHours, sharedMaps, slackResults, dates, critical, datesOf>>
syncWorkingCalendarFromImport ==
    /\ changes < MaxChanges /\ changes' = changes + 1
    /\ dayHours' \in DayHours \ {dayHours}
    /\ answer' = NoAnswer /\ UNCHANGED <<net, sharedMaps, slackResults, dates, critical, datesOf>>
\* The host page's loader, which is not in the repository, shares its maps.
ShareMaps ==
    /\ sharedMaps' = [links |-> net.links]
    /\ answer' = NoAnswer /\ UNCHANGED <<net, dayHours, slackResults, dates, critical, datesOf, changes>>

DatesInit ==
    /\ net \in PageNets /\ dayHours \in DayHours
    /\ sharedMaps = Unset
    /\ dates = SlackDates(Now) /\ slackResults = Results(Now)
    /\ critical = {i \in Ids(net) : dates[i].slack = 0}
    /\ datesOf = Now
    /\ answer = NoAnswer
    /\ changes = 0

DatesNext ==
    \/ CalculateSlack \/ FindDistances \/ FindCriticalPath
    \/ \E i \in Ids(net), slip \in Slips, given \in BOOLEAN : SimulateCascade(i, slip, given)
    \/ EditNet \/ syncWorkingCalendarFromImport \/ ShareMaps

DatesSpec == DatesInit /\ [][DatesNext]_pageDatesVars

-----------------------------------------------------------------------------
(* Properties *)
Forward(n, types) == \A k \in 1..Len(n.links) : n.links[k].type \in types /\ n.links[k].lag >= 0
Sorted(n) == Len(topologicalSort(n)) = Cardinality(Ids(n))
\* What every import has: one start and one end milestone, nothing on a cycle.
Framed(n) == /\ \A i \in Ids(n) \ {StartId} : Into(n, i) # {}
             /\ \A i \in Ids(n) \ {EndId(n)} : OutOf(n, i) # {}
             /\ n.days[EndId(n)] = 0 /\ n.days[StartId] = 0
             /\ Sorted(n)

\* The distances agree with the dates: the longest from the start is the early
\* start and the longest to the end is what the late start leaves, although
\* they come from other code and are taken along an order and maps that other
\* scripts left behind; when those are of the network and the dates are too.
DistancesAgreeWithDates ==
    answer.kind = "distances" =>
        LET w == answer.of
            D == SlackDates(w)
            finish == ProjectFinish(w, ForwardPass(w))
        IN  /\ answer.sorted = w.net /\ answer.links = w.net.links
            /\ Framed(w.net) /\ Forward(w.net, {"FS", "SS"})
            => \A i \in Ids(w.net) :
                  /\ answer.toStart[i].long = D[i].ES /\ answer.fromStart[i] = D[i].ES
                  /\ answer.toEnd[i].long = finish - D[i].LS

\* With an order or maps of an earlier network the distances fall short, and
\* are never too long: not longer than those that calculateDistance finds in an
\* order of its own, or that the same links give towards the end in theirs.
StaleDistancesFallShort ==
    answer.kind = "distances" =>
        LET used == [answer.of.net EXCEPT !.links = answer.links]
            inOrder == Swept(EndId(used), Reverse(topologicalSort(used)), OutOf, LAMBDA l : l.target,
                             LAMBDA l, x : EndDistance(l, x))
        IN  Sorted(used) /\ Forward(used, {"FS", "SS", "FF", "SF"}) =>
                \A i \in Ids(used) : /\ answer.toStart[i].long <= answer.fromStart[i]
                                     /\ answer.toEnd[i].long <= inOrder[i].long

\* A slip uses up the float of the activity before it moves the end of the
\* project, and then moves it by just the rest, on dates that are of the
\* network; with the links of an earlier network that lacked some, or with none,
\* it may be said to move it less, but never more, nor anything by more than the slip.
SlipUsesFloatFirst ==
    answer.kind = "cascade" =>
        LET w == answer.of
            rest == Floor0(answer.slip - SlackDates(w)[answer.start].slack)
        IN  answer.dates = w /\ Framed(w.net) /\ Forward(w.net, {"FS", "SS", "FF", "SF"}) =>
              /\ answer.links = w.net.links => answer.endDateSlippage = rest
              /\ ToSet(answer.links) \subseteq ToSet(w.net.links) =>
                    /\ answer.endDateSlippage <= rest
                    /\ \A a \in answer.affected : a.delay <= answer.slip

\* isCritical does not depend on which of the two engines set it last, and the
\* critical paths found are as long as the project.
CriticalAgrees ==
    answer.kind = "critical" =>
        LET w == answer.of
        IN  Framed(w.net) /\ Forward(w.net, {"FS"}) =>
              /\ LET D == SlackDates(w) IN CriticalNodes(w) = {i \in Ids(w.net) : D[i].slack = 0}
              /\ answer.duration = ProjectFinish(w, ForwardPass(w))
              /\ answer.paths # {}

\* Distances and slips both agree with the dates, as far as the links they were taken along do.
DatesAgree == DistancesAgreeWithDates /\ StaleDistancesFallShort /\ SlipUsesFloatFirst

-----------------------------------------------------------------------------
(***************************************************************************)
(* extractDrivingGraphPathsFromCPM of PathScripts.js: a third set of dates,  *)
(* for the activities between the start and the end only, kept even when     *)
(* links form a cycle; the chains of driving predecessors found on them,     *)
(* and the choice of those to show.  The result stays in cybereumState while *)
(* the page is edited.                                                       *)
(***************************************************************************)
CONSTANTS
    nearCriticalFloatTolHours, nearDrivingTolHours,
    maxCriticalChains, maxNearCriticalChains,
    maxExpansions, maxDepthGuard, maxDisplayChains,
    minJaccardNovelty,      \* in percent
    drivingModes            \* the selectionModes asked for: "raw", "outliers"

ASSUME PageDrivingAssumption ==
    /\ {nearCriticalFloatTolHours, nearDrivingTolHours, maxCriticalChains, maxNearCriticalChains,
        maxExpansions, maxDepthGuard, maxDisplayChains} \subseteq Nat
    /\ minJaccardNovelty \in 0..100 /\ drivingModes \subseteq {"raw", "outliers"}

VARIABLE drivingGraphResult     \* of cybereumState; with the net it is of

drivingPageVars == <<pageDatesVars, drivingGraphResult>>

-----------------------------------------------------------------------------
RECURSIVE Reachable(_, _)
Reachable(S, step) == LET T == S \cup UNION {step[i] : i \in S} IN IF T = S THEN S ELSE Reachable(T, step)
activeIds(n) ==
    Reachable({StartId}, [i \in Ids(n) |-> {l.target : l \in OutOf(n, i)}])
    \cap Reachable({EndId(n)}, [i \in Ids(n) |-> {l.source : l \in Into(n, i)}])
ActiveNet(n) ==
    LET A == activeIds(n)
    IN  [days |-> [i \in A |-> n.days[i]],
         links |-> SelectSeq(n.links, LAMBDA l : l.source \in A /\ l.target \in A)]
\* The sorted activities, then those that a cycle holds back; the code has
\* these in the order in which its search met them, here it is any.
topoSort(n) ==
    LET order == topologicalSort(n)
        rest == Ids(n) \ ToSet(order)
    IN  {order \o r : r \in SetToSeqs(rest)}

\* cybDG_candidateES: a predecessor without dates asks for nothing.
candidateES(w, l, D) ==
    LET p == D[l.source]
        d == Hours(w, l.target)
    IN  CASE l.type = "SS" -> p.ES + l.lag
          [] l.type = "FF" -> p.EF + l.lag - d
          [] l.type = "SF" -> p.ES + l.lag - d
          [] OTHER -> p.EF + l.lag
DrivingEarly(w, order) ==
    LET step(D, i) ==
            LET es == Most({0} \cup {candidateES(w, l, D) : l \in {m \in Into(w.net, i) : m.source \in DOMAIN D}})
            IN  (i :> [ES |-> es, EF |-> es + Hours(w, i)]) @@ D
    IN  FoldLeft(step, [i \in {} |-> {}], order)
\* cybDG_candidateLF: of a successor without dates the late start counts as 0,
\* the late finish as none.
DrivingLate(w, order, finish) ==
    LET bounds(D, i) ==
            {IF l.target \in DOMAIN D THEN FinishAllowed(l, D[l.target], Hours(w, i))
             ELSE IF l.type = "SS" THEN Hours(w, i) - l.lag ELSE -l.lag :
                l \in {m \in OutOf(w.net, i) : m.target \in DOMAIN D \/ m.type \in {"FS", "SS"}}}
        step(D, i) ==
            LET lf == Least({finish} \cup bounds(D, i))
            IN  (i :> [LF |-> lf, LS |-> lf - Hours(w, i)]) @@ D
    IN  FoldLeft(step, [i \in {} |-> {}], Reverse(order))
computeCPM(w, order) ==
    LET early == DrivingEarly(w, order)
        finish == early[EndId(w.net)].EF
        late == DrivingLate(w, order, finish)
    IN  [early |-> early, projectFinish |-> finish, TF |-> [i \in Ids(w.net) |-> late[i].LS - early[i].ES]]

\* Of the links from one predecessor the one that asks for most, and how much
\* less than the most demanding predecessor it asks for.
computePredRanking(w, early) ==
    [i \in Ids(w.net) |->
        LET into == SelectSeq(w.net.links, LAMBDA l : l.target = i)
            preds == FoldLeft(LAMBDA acc, l : IF Contains(acc, l.source) THEN acc ELSE Append(acc, l.source), <<>>, into)
            asked(p) == Most({candidateES(w, l, early) : l \in {m \in Into(w.net, i) : m.source = p}})
            best == Most({asked(p) : p \in ToSet(preds)})
            ranked == [k \in DOMAIN preds |-> [pred |-> preds[k], delta |-> best - asked(preds[k])]]
        IN  SortSeq(ranked, LAMBDA a, b : a.delta < b.delta)]

\* The predecessors that a search goes back to: driving, or nearly, between
\* activities without float, or nearly.
PredsWithin(rankings, TF, float, delta) ==
    [i \in DOMAIN rankings |->
        IF TF[i] > float THEN <<>>
        ELSE SelectSeq(rankings[i], LAMBDA r : r.delta <= delta /\ TF[r.pred] <= float)]

\* Mutant: the search goes back to an activity that is already in the chain.
RECURSIVE ChainsRevisiting(_, _, _, _)
ChainsRevisiting(acc, path, preds, most) ==
    IF Len(acc.out) >= most \/ acc.expansions > maxExpansions THEN acc
    ELSE LET a == [acc EXCEPT !.expansions = @ + 1]
         IN  IF a.expansions > maxExpansions \/ Len(path) > maxDepthGuard THEN a
             ELSE IF Head(path) = StartId THEN [a EXCEPT !.out = Append(@, path)]
             ELSE FoldLeft(LAMBDA b, r : ChainsRevisiting(b, <<r.pred>> \o path, preds, most), a, preds[Head(path)])
\* cybDG_enumerateChainsBackwards
RECURSIVE ChainsBackwards(_, _, _, _)
ChainsBackwards(acc, path, preds, most) ==
    IF Len(acc.out) >= most \/ acc.expansions > maxExpansions THEN acc
    ELSE LET a == [acc EXCEPT !.expansions = @ + 1]
             next == SelectSeq(preds[Head(path)], LAMBDA r : r.pred \notin ToSet(path))
         IN  IF a.expansions > maxExpansions \/ Len(path) > maxDepthGuard THEN a
             ELSE IF Head(path) = StartId THEN [a EXCEPT !.out = Append(@, path)]
             ELSE FoldLeft(LAMBDA b, r : ChainsBackwards(b, <<r.pred>> \o path, preds, most), a, next)
enumerateChainsBackwards(n, preds, most) ==
    ChainsBackwards([out |-> <<>>, expansions |-> 0], <<EndId(n)>>, preds, most).out

\* cybDG_selectOutliers: the longest chain, and those that have enough new.
selectOutliers(paths, durations) ==
    LET order == SortSeq([k \in DOMAIN paths |-> k], LAMBDA i, j : durations[i] > durations[j])
        common(i, j) == Cardinality(ToSet(paths[i]) \cap ToSet(paths[j]))
        all(i, j) == Cardinality(ToSet(paths[i]) \cup ToSet(paths[j]))
        keep(acc, i) ==
            IF Len(acc) < maxDisplayChains /\ \A j \in ToSet(acc) : 100 * common(i, j) <= (100 - minJaccardNovelty) * all(i, j)
            THEN Append(acc, i) ELSE acc
    IN  FoldLeft(keep, <<>>, order)

\* The chains to show and their durations along the path.
ShownChains(w, candidates, mode) ==
    LET durations == [k \in DOMAIN candidates |-> calculatePathDuration(w, candidates[k])]
        chosen == IF mode = "raw" THEN [k \in DOMAIN candidates |-> k] ELSE selectOutliers(candidates, durations)
    IN  [paths |-> [k \in DOMAIN chosen |-> candidates[chosen[k]]], durations |-> [k \in DOMAIN chosen |-> durations[chosen[k]]]]
DrivingResult(w, order, mode) ==
    LET cpm == computeCPM(w, order)
        rankings == computePredRanking(w, cpm.early)
        critical_ == enumerateChainsBackwards(w.net, PredsWithin(rankings, cpm.TF, 0, 0), maxCriticalChains)
        near == enumerateChainsBackwards(w.net, PredsWithin(rankings, cpm.TF, nearCriticalFloatTolHours, nearDrivingTolHours),
                                         maxNearCriticalChains)
    IN  [projectFinish |-> cpm.projectFinish, criticalChains |-> Len(critical_)]
        @@ ShownChains(w, critical_ \o SelectSeq(near, LAMBDA p : ~Contains(critical_, p)), mode)
ExtractDriving(mode) ==
    /\ IF activeIds(net) = {}
       THEN UNCHANGED drivingGraphResult
       ELSE LET w == [Now EXCEPT !.net = ActiveNet(net)]
            IN  \E order \in topoSort(w.net) :
                    drivingGraphResult' = [of |-> Now] @@ DrivingResult(w, order, mode)
    /\ UNCHANGED pageDatesVars

DrivingInit == DatesInit /\ drivingGraphResult = Unset
DrivingNext ==
    \/ \E mode \in drivingModes : ExtractDriving(mode)
    \/ DatesNext /\ UNCHANGED drivingGraphResult
DrivingSpec == DrivingInit /\ [][DrivingNext]_drivingPageVars

-----------------------------------------------------------------------------
\* The chains are paths from the start to the end without repetition, also when
\* links form a cycle; and where links are finish-to-start and nothing is on a
\* cycle the first is as long as the project is by the slack engine, although
\* its dates, its float and its durations are computed by other code.
DrivingAgrees ==
    drivingGraphResult # Unset =>
        LET w == drivingGraphResult.of
            P == drivingGraphResult.paths
        IN  /\ \A k \in DOMAIN P :
                 /\ Head(P[k]) = StartId /\ Last(P[k]) = EndId(w.net)
                 /\ Cardinality(ToSet(P[k])) = Len(P[k])
                 /\ \A h \in 1..Len(P[k]) - 1 : \E l \in OutOf(w.net, P[k][h]) : l.target = P[k][h + 1]
            /\ Cardinality(ToSet(P)) = Len(P)
            /\ Framed(w.net) /\ Forward(w.net, {"FS"}) =>
                 /\ P # <<>> /\ drivingGraphResult.durations[1] = ProjectFinish(w, ForwardPass(w))
                 /\ \A k \in DOMAIN P : drivingGraphResult.durations[k] <= drivingGraphResult.durations[1]
=============================================================================
