------------------------------ MODULE PageNet ------------------------------
(***************************************************************************)
(* The network of the page as the functions of PathScripts.js read it, and   *)
(* the functions that several of them call.  A net has days (the Duration of *)
(* each node; 0 is the start milestone and the highest number the end) and   *)
(* links: source, target, type, dur and lag (hours).  A world w is a net     *)
(* with the hours of a working day.  Then what several scripts call: the     *)
(* engine behind the critical paths, and the selection of the paths worth    *)
(* showing of a ranked list: the outliers of the durations or, when those    *)
(* have several peaks, some of each cluster, and of either those that are    *)
(* structurally independent.                                                 *)
(***************************************************************************)
EXTENDS Integers, FiniteSets, SequencesExt

CONSTANTS
    MAX_OUTLIERS_SCAN,  \* bound: the paths looked at
    SelectedMaxPaths,   \* STRUCTURAL_DIVERSITY_CONFIG.maxPaths
    maxPathsPerBranch, minPathsPerBranch,
    minPathsForAnalysis \* the fewest durations with peaks

ASSUME PathSelectionAssumption ==
    /\ {MAX_OUTLIERS_SCAN, SelectedMaxPaths, maxPathsPerBranch, minPathsPerBranch} \subseteq Nat \ {0}
    /\ minPathsForAnalysis \in Nat \ {0, 1}

Ids(n) == DOMAIN n.days
StartId == 0
EndId(n) == CHOOSE i \in Ids(n) : \A j \in Ids(n) : j <= i
Most(S) == CHOOSE x \in S : \A y \in S : y <= x
Least(S) == CHOOSE x \in S : \A y \in S : x <= y
Floor0(x) == IF x < 0 THEN 0 ELSE x

\* convertDurationToHours: not above 0 is 0.
Hours(w, i) == Floor0(w.net.days[i]) * w.dayHours
Known(n) == {k \in 1..Len(n.links) : n.links[k].source \in Ids(n) /\ n.links[k].target \in Ids(n)}
Into(n, i) == {n.links[k] : k \in {h \in Known(n) : n.links[h].target = i}}
OutOf(n, i) == {n.links[k] : k \in {h \in Known(n) : n.links[h].source = i}}

\* Kahn's sort, which leaves out what a cycle reaches.
topologicalSort(n) ==
    LET ready(S) == {i \in Ids(n) \ S : \A l \in Into(n, i) : l.source \in S}
        sorted[S \in SUBSET Ids(n)] ==
            LET next == ready(S)
            IN  IF next = {} THEN <<>> ELSE <<Least(next)>> \o sorted[S \cup {Least(next)}]
    IN  sorted[{}]

\* Where an activity of d hours begins after one with the times t, by the link between them.
BeginOnPath(l, t, d) ==
    Floor0(CASE l.type = "SS" -> t.ES + l.lag
             [] l.type = "FF" -> t.EF + l.lag - d
             [] l.type = "SF" -> t.ES + l.lag - d
             [] OTHER -> t.EF + l.lag)
TimesOnPath(begin, d) == [ES |-> begin, EF |-> begin + d]

\* calculatePathDuration: the times along one path, by its first link of each pair.
calculatePathDuration(w, p) ==
    LET first(a, b) == LET ks == {k \in Known(w.net) : w.net.links[k].source = a /\ w.net.links[k].target = b}
                       IN  w.net.links[Least(ks)]
        step(t, k) ==
            TimesOnPath(BeginOnPath(first(p[k], p[k + 1]), t, Hours(w, p[k + 1])), Hours(w, p[k + 1]))
    IN  IF Len(p) < 2 THEN 0
        ELSE FoldLeft(step, [ES |-> 0, EF |-> Hours(w, p[1])], [k \in 1..Len(p) - 1 |-> k]).EF

-----------------------------------------------------------------------------
(* calculateCPMDates and findCriticalPath.  The project ends with its last     *)
(* activity without successors, and a late finish has no upper bound.         *)
FinishAllowed(l, s, d) ==
    CASE l.type = "SS" -> s.LS - l.lag + d
      [] l.type = "FF" -> s.LF - l.lag
      [] l.type = "SF" -> s.LF - l.lag + d
      [] OTHER -> s.LS - l.lag
Unsorted == -1000
CPMEarly(w) ==
    LET asked(l, p, d) == CASE l.type = "SS" -> p.ES + l.lag
                            [] l.type = "FF" -> p.EF + l.lag - d
                            [] l.type = "SF" -> p.ES + l.lag - d
                            [] OTHER -> p.EF + l.lag
        step(D, i) ==
            LET es == Most({0} \cup {asked(l, D[l.source], Hours(w, i)) :
                                     l \in {k \in Into(w.net, i) : D[k.source].EF # Unsorted}})
            IN  [D EXCEPT ![i] = [ES |-> es, EF |-> es + Hours(w, i)]]
    IN  FoldLeft(step, [i \in Ids(w.net) |-> [ES |-> Unsorted, EF |-> Unsorted]], topologicalSort(w.net))
LastActivities(n) == {i \in Ids(n) : OutOf(n, i) = {}}
CPMFinish(w) == LET early == CPMEarly(w) IN Most({0} \cup {early[i].EF : i \in LastActivities(w.net)})
Late == 1000
CPMLate(w) ==
    LET finish == CPMFinish(w)
        init == [i \in Ids(w.net) |-> IF i \in LastActivities(w.net) THEN [LF |-> finish, LS |-> finish - Hours(w, i)]
                                      ELSE [LF |-> Late, LS |-> Late]]
        step(D, i) ==
            LET ls == {l \in OutOf(w.net, i) : D[l.target].LF # Late}
                lf == Least({FinishAllowed(l, D[l.target], Hours(w, i)) : l \in ls})
            IN  IF ls = {} THEN D ELSE [D EXCEPT ![i] = [LF |-> lf, LS |-> lf - Hours(w, i)]]
    IN  FoldLeft(step, init, Reverse(topologicalSort(w.net)))
\* Mutant: a day of float is none.
CriticalWithinADay(w) ==
    LET early == CPMEarly(w)
        late == CPMLate(w)
    IN  {i \in Ids(w.net) : late[i].LS <= early[i].ES + w.dayHours}
CriticalNodes(w) ==
    LET early == CPMEarly(w)
        late == CPMLate(w)
    IN  {i \in Ids(w.net) : late[i].LS <= early[i].ES}

\* The paths from the start to the end over critical activities, tight or not.
PathsOver(n, C) ==
    LET steps[k \in Nat] ==
            IF k = 0 THEN {<<StartId>>}
            ELSE UNION {{Append(p, l.target) : l \in {m \in OutOf(n, Last(p)) : m.target \in C \ ToSet(p)}} :
                        p \in {q \in steps[k - 1] : Last(q) # EndId(n)}}
    IN  IF StartId \notin C THEN {}
        ELSE {p \in UNION {steps[k] : k \in 0..Cardinality(Ids(n))} : Last(p) = EndId(n)}

-----------------------------------------------------------------------------
(* The selection of paths.                                                    *)
AtMost(s, k) == SubSeq(s, 1, Least({Len(s), k}))
Cut(list, k) == [paths |-> AtMost(list.paths, k), durations |-> AtMost(list.durations, k)]
Chosen(list, is) == [paths |-> [k \in 1..Len(is) |-> list.paths[is[k]]],
                     durations |-> [k \in 1..Len(is) |-> list.durations[is[k]]]]
Distinct(s) == FoldLeft(LAMBDA acc, x : IF Contains(acc, x) THEN acc ELSE Append(acc, x), <<>>, s)
Ordered(S, Before(_, _)) ==
    [k \in 1..Cardinality(S) |-> CHOOSE x \in S : Cardinality({y \in S : Before(y, x)}) = k - 1]
Numbered(S) == Ordered(S, <)

-----------------------------------------------------------------------------
(* The peaks of the durations.  Smoothed heights are in sixths.               *)
smoothHistogram(bins) ==
    [i \in DOMAIN bins |->
        LET near == {j \in DOMAIN bins : j \in i - 1..i + 1}
        IN  (6 * SumFunctionOnSet(bins, near)) \div Cardinality(near)]
\* The lowest bin on one side, as far as the first that is higher than i.
Valley(h, i, side) ==
    LET higher == {j \in side : h[j] > h[i]}
        seen == {j \in side : \A k \in higher : (k - i) * (k - i) >= (j - i) * (j - i)}
    IN  Least({h[j] : j \in seen \cup {i}})
Base(h, i) == Most({Valley(h, i, {j \in DOMAIN h : j < i}), Valley(h, i, {j \in DOMAIN h : j > i})})
Prominent(h, i) == 100 * (h[i] - Base(h, i)) >= 12 * h[i]
LocalMaxima(h) == {i \in DOMAIN h : i - 1 \in DOMAIN h /\ i + 1 \in DOMAIN h /\ h[i] > h[i - 1] /\ h[i] > h[i + 1]}
PeakWidth(h, i) ==
    LET above(j) == 2 * h[j] > h[i] + Base(h, i)
    IN  Cardinality({j \in DOMAIN h : \A k \in DOMAIN h : k \in Least({i, j})..Most({i, j}) => above(k)} \cup {i})

maxClusters == 5
minPathsInCluster == 3
findHistogramPeaks(h, bins) ==
    LET apart == Most({2, (Len(h) * 4) \div 100})
        kept == Ordered({i \in LocalMaxima(h) : Prominent(h, i) \/ bins[i] >= minPathsInCluster},
                             LAMBDA i, j : h[i] > h[j] \/ (h[i] = h[j] /\ i < j))
        far(i, j) == i - j >= apart \/ j - i >= apart
    IN  AtMost(FoldLeft(LAMBDA acc, i : IF \A j \in ToSet(acc) : far(i, j) THEN Append(acc, i) ELSE acc,
                        <<>>, kept), maxClusters)

Span(ds) == Head(ds) - Last(ds)
\* Bins of a number-th of the span, or of tens when those are wider.
Bins(ds, number, at(_)) ==
    [b \in 1..number |-> Cardinality({i \in DOMAIN ds : Least({at(ds[i]), number - 1}) = b - 1})]
isMultimodalDistribution(ds) ==
    LET bins == Bins(ds, 25, LAMBDA d : ((Head(ds) - d) * 25) \div Span(ds))
        h == smoothHistogram(bins)
        \* here the sides end at the first bin that is higher
        edge(side, i) == {j \in side : \A k \in side : k \in Least({i, j})..Most({i, j}) => h[k] <= h[i]}
        low(side, i) == Least({h[j] : j \in edge(side, i) \cup {i}})
        base(i) == Most({low({j \in 1..25 : j < i}, i), low({j \in 1..25 : j > i}, i)})
    IN  /\ Len(ds) >= minPathsForAnalysis /\ Span(ds) >= 100
        /\ Cardinality({i \in LocalMaxima(h) : 100 * (h[i] - base(i)) >= 12 * h[i] /\ bins[i] >= 3}) >= 2

\* detectPathClusters: per peak, the paths within its spread that no cluster
\* before has taken; clusters of fewer than three are dropped.
Fine == 400     \* widths of bins are in parts of an hour
detectPathClusters(ds, perCluster) ==
    LET n == Len(ds)
        width == Most({10 * Fine, (Span(ds) * Fine) \div 40})
        number == Most({1, (Span(ds) * Fine + width - 1) \div width})
        bins == Bins(ds, number, LAMBDA d : ((Head(ds) - d) * Fine) \div width)
        h == smoothHistogram(bins)
        cluster(acc, peak) ==
            LET centre == Head(ds) * Fine - (peak - 1) * width
                spread == ((width * 18) \div 10) * Most({2, PeakWidth(h, peak)})
                near == {i \in 1..n \ acc.used : ds[i] * Fine \in centre - spread..centre + spread}
                taken == AtMost(Numbered(near), perCluster)
            IN  [used |-> acc.used \cup ToSet(taken),
                 clusters |-> IF Len(taken) >= minPathsInCluster THEN Append(acc.clusters, taken) ELSE acc.clusters]
        found == FoldLeft(cluster, [used |-> {}, clusters |-> <<>>], findHistogramPeaks(h, bins)).clusters
        all == <<AtMost([i \in 1..n |-> i], perCluster)>>
    IN  IF n < minPathsForAnalysis \/ Span(ds) < 30 \/ found = <<>> THEN all ELSE found

-----------------------------------------------------------------------------
(* The structure of a path. *)
getPathBranchSignature(p, depth) == AtMost(p, depth)
getPathMidpointSignature(p, depth) ==
    LET from == Most({0, Len(p) \div 2 - depth \div 2})
    IN  IF Len(p) < 5 THEN <<>> ELSE SubSeq(p, from + 1, Least({Len(p), from + depth}))
EdgesOf(p) == {<<p[k], p[k + 1]>> : k \in 1..Len(p) - 1}

\* Where the path first leaves the reference path, and where it comes back.
Position(ref, x) == Least({k \in DOMAIN ref : ref[k] = x})
getDeviationSignature(p, ref) ==
    LET leaves == {j \in 1..Len(p) - 1 : /\ p[j] \in ToSet(Front(ref))
                                         /\ p[j + 1] # ref[Position(ref, p[j]) + 1]}
        j == Least(leaves)
        back == {k \in j + 1..Len(p) : p[k] \in ToSet(ref) /\ Position(ref, p[k]) > Position(ref, p[j])}
    IN  IF Len(p) < 2 \/ Len(ref) < 2 THEN <<"UNSPEC">>
        ELSE IF leaves = {} THEN <<"ON_REF">>
        ELSE <<"DV", p[j], p[j + 1], IF back = {} THEN "RJ@none" ELSE p[Least(back)]>>

\* _computeScheduleStatsForTuning and _autoTuneStructuralDiversity
Sqrt4(n) == Most({k \in 0..n : 16 * k * k <= n})
autoSelectBranchDepth(paths) ==
    LET uniq(d) == Cardinality({SubSeq(paths[i], 1, d) : i \in {k \in DOMAIN paths : Len(paths[k]) >= d}})
        least == Least({10, Most({3, Sqrt4(Len(paths))})})
        fit == {d \in 2..8 : uniq(d) \in least..50}
        some == {d \in 2..8 : uniq(d) \in 2..50}
    IN  IF \A d \in 2..8 : uniq(d) <= 1 THEN 4
        ELSE IF fit # {} THEN Least(fit) ELSE IF some # {} THEN Least(some) ELSE 8
Config(list, ref, maxPaths) ==
    LET lengths == SortSeq([i \in DOMAIN list.paths |-> Len(list.paths[i]) - 1], <)
        long == Most({lengths[(Len(lengths) - 1) \div 2 + 1], Len(ref) - 1})
    IN  [maxPaths |-> maxPaths, branchDepth |-> autoSelectBranchDepth(list.paths),
         overlap |-> IF long < 80 THEN 90 ELSE 92, unique |-> IF long < 60 THEN 4 ELSE 5,
         midpointDepth |-> IF long < 80 THEN 2 ELSE 3, perBranch |-> maxPathsPerBranch]

-----------------------------------------------------------------------------
(* extractIndependentNearCriticalPaths *)
Family(list, ref, cfg, i) == <<getPathBranchSignature(list.paths[i], cfg.branchDepth),
                               getDeviationSignature(list.paths[i], ref)>>
\* One of each family; the longest, which in a ranked list comes first.
Representatives(list, ref, cfg) ==
    LET first(i) == \A j \in 1..i - 1 : Family(list, ref, cfg, j) # Family(list, ref, cfg, i)
    IN  SelectSeq([i \in DOMAIN list.paths |-> i], first)
\* Families that dominate make the filter stricter, many small ones looser.
Adapted(list, ref, cfg) ==
    LET n == Len(list.paths)
        families == Len(Representatives(list, ref, cfg))
        size == Most({Cardinality({j \in 1..n : Family(list, ref, cfg, j) = Family(list, ref, cfg, i)}) : i \in 1..n})
    IN  IF size >= 200 \/ 4 * size >= n \/ 5 * families <= 2 * n
        THEN [cfg EXCEPT !.overlap = Least({@, 90}), !.unique = Most({@, 10}), !.perBranch = Least({@, 20})]
        ELSE IF size <= 10 /\ 20 * families >= 17 * n
        THEN [cfg EXCEPT !.overlap = Most({@, 94}), !.unique = Most({4, Least({@, 8})})]
        ELSE cfg

\* The branches in the order of their first paths, each with its paths; a branch and a midpoint
\* are given for each path.
ByBranch(is, branch) ==
    LET branches == Distinct([k \in DOMAIN is |-> branch[is[k]]])
    IN  [k \in DOMAIN branches |-> SelectSeq(is, LAMBDA i : branch[i] = branches[k])]
MidpointsFirst(is, mid) ==
    LET repeats(i) == \E j \in ToSet(is) : j < i /\ mid[j] = mid[i]
    IN  SelectSeq(is, LAMBDA i : ~repeats(i)) \o SelectSeq(is, repeats)
Branches(list, cfg) == [i \in DOMAIN list.paths |-> getPathBranchSignature(list.paths[i], cfg.branchDepth)]
Midpoints(list, cfg) == [i \in DOMAIN list.paths |-> getPathMidpointSignature(list.paths[i], cfg.midpointDepth)]
LeastPerBranch(count, maxPaths) == IF count * minPathsPerBranch > maxPaths THEN 1 ELSE minPathsPerBranch

\* The quota of each branch, the branch of the longest path first; within it
\* paths with different midpoints before the others.
BranchQuota(k, count, cfg) ==
    LET base == cfg.maxPaths \div count + (IF k <= cfg.maxPaths % count THEN 1 ELSE 0)
    IN  (3 * Most({LeastPerBranch(count, cfg.maxPaths), Least({cfg.perBranch, base})}) + 1) \div 2
QuotaOfEach(members, mid, cfg) ==
    FlattenSeq([k \in DOMAIN members |-> AtMost(MidpointsFirst(members[k], mid), BranchQuota(k, Len(members), cfg))])
LongestFirst(list, is) ==
    LET at(i) == CHOOSE k \in DOMAIN is : is[k] = i
        before(i, j) == \/ list.durations[i] > list.durations[j]
                        \/ list.durations[i] = list.durations[j] /\ at(i) < at(j)
    IN  Ordered(ToSet(is), before)
Preselected(list, ref, cfg) ==
    LET reps == Representatives(list, ref, cfg)
        target == Least({Len(reps), Most({3 * cfg.maxPaths, cfg.maxPaths + 10})})
    IN  LongestFirst(list, AtMost(QuotaOfEach(ByBranch(reps, Branches(list, cfg)), Midpoints(list, cfg), cfg), target))

\* Those of pre, in that order, which differ enough from the ones before.
Differing(list, cfg, pre) ==
    LET edges(i) == EdgesOf(list.paths[i])
        common(i, j) == Cardinality(edges(i) \cap edges(j))
        overlaps(i, j) == 100 * common(i, j) >= cfg.overlap * Least({Cardinality(edges(i)), Cardinality(edges(j))})
        alike(i, j) == overlaps(i, j) \/ Cardinality(edges(i)) - common(i, j) < cfg.unique
        keep(acc, i) == IF Len(acc) >= cfg.maxPaths \/ edges(i) = {} \/ \E j \in ToSet(acc) : alike(i, j)
                        THEN acc ELSE Append(acc, i)
    IN  FoldLeft(keep, <<>>, pre)
\* And what there is room for besides.
Independent(list, cfg, pre) ==
    LET selected == Differing(list, cfg, pre)
        rest == SelectSeq(pre, LAMBDA i : i \notin ToSet(selected))
    IN  IF Len(selected) < Least({cfg.maxPaths, Len(pre)}) THEN AtMost(selected \o rest, cfg.maxPaths) ELSE selected

extractIndependentNearCriticalPaths(list, ref, maxPaths) ==
    IF list.paths = <<>> THEN list
    ELSE LET cfg == Adapted(list, ref, Config(list, ref, maxPaths))
         IN  Chosen(list, Independent(list, cfg, Preselected(list, ref, cfg)))

-----------------------------------------------------------------------------
(* extractStructurallyDiversePaths: a quota of each branch, then what is left. *)
FromBranches(list, members, mid, maxPaths) ==
    LET count == Len(members)
        quota == Most({LeastPerBranch(count, maxPaths), Least({maxPathsPerBranch, (maxPaths + count - 1) \div count})})
        \* selectDiverseWithinBranch
        within(k, most) == AtMost(MidpointsFirst(members[k], mid), most)
        fresh(acc, is) == FoldLeft(LAMBDA a, i : IF Len(a) >= maxPaths \/ \E j \in ToSet(a) : list.paths[j] = list.paths[i]
                                                 THEN a ELSE Append(a, i), acc, is)
        first == FoldLeft(LAMBDA acc, k : fresh(acc, within(k, Least({quota, maxPaths - Len(acc)}))), <<>>,
                          [k \in 1..count |-> k])
    IN  FoldLeft(LAMBDA acc, k : fresh(acc, members[k]), first, [k \in 1..count |-> k])
extractStructurallyDiversePaths(list, maxPaths) ==
    LET cfg == Config(list, Head(list.paths), maxPaths)
        members == ByBranch([i \in DOMAIN list.paths |-> i], Branches(list, cfg))
    IN  IF list.paths = <<>> THEN list
        ELSE Chosen(list, Numbered(ToSet(FromBranches(list, members, Midpoints(list, cfg), maxPaths))))

-----------------------------------------------------------------------------
(* findOutlierPaths2 and findOutlierPathsWithClusters *)
\* Mutant: an outlier is longer than the upper threshold, and nothing else is.
OutliersAbove(list) ==
    LET ds == AtMost(list.durations, MAX_OUTLIERS_SCAN)
        q1 == ds[(Len(ds) * 3) \div 4 + 1]
        q3 == ds[Len(ds) \div 4 + 1]
    IN  Chosen(list, SelectSeq([i \in 1..Len(ds) |-> i], LAMBDA i : 2 * ds[i] > 2 * q3 + 3 * (q3 - q1)))
Outliers(list) ==
    LET ds == AtMost(list.durations, MAX_OUTLIERS_SCAN)
        len == Len(ds)
        q1 == ds[(len * 3) \div 4 + 1]
        q3 == ds[len \div 4 + 1]
        out(i) == 2 * ds[i] > 2 * q3 + 3 * (q3 - q1) \/ 5 * ds[i] >= 4 * Head(ds)
        is == SelectSeq([i \in 1..len |-> i], out)
    IN  Chosen(list, IF is = <<>> THEN <<1>> ELSE is)

\* Each cluster gives its share of the room that is left, without what is there already.
WithCluster(acc, some, remaining) ==
    LET new == SelectSeq([i \in DOMAIN some.paths |-> i], LAMBDA i : ~Contains(acc.paths, some.paths[i]))
        more == Cut(Chosen(some, new), remaining)
    IN  [paths |-> acc.paths \o more.paths, durations |-> acc.durations \o more.durations]
FromClusters(list, clusters, maxTotal) ==
    LET number == Len(clusters)
        take(acc, k) ==
            LET remaining == maxTotal - Len(acc.paths)
                quota == Most({1, remaining \div (number - k + 1)})
                own == Chosen(list, clusters[k])
            IN  IF remaining <= 0 THEN acc
                ELSE WithCluster(acc, extractIndependentNearCriticalPaths(own, Head(own.paths), quota), remaining)
    IN  FoldLeft(take, [paths |-> <<>>, durations |-> <<>>], [k \in 1..number |-> k])
findOutlierPathsWithClusters(list, maxTotal) ==
    FromClusters(list, detectPathClusters(list.durations, Most({30, 10 * maxTotal})), maxTotal)

findOutlierPaths2(list) ==
    IF list.paths = <<>> THEN list
    ELSE IF isMultimodalDistribution(list.durations)
    THEN findOutlierPathsWithClusters(list, Least({SelectedMaxPaths, MAX_OUTLIERS_SCAN}))
    ELSE LET out == Outliers(list)
         IN  extractIndependentNearCriticalPaths(out, Head(out.paths), SelectedMaxPaths)
=============================================================================
