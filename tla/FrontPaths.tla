----------------------------- MODULE FrontPaths -----------------------------
(***************************************************************************)
(* The paths of PathScripts.js: how they are found, exactly or the longest   *)
(* first with a heap, and what is shown of them: all, the outliers, or a     *)
(* selection of structurally independent or diverse ones (PageNet).  A path  *)
(* is the sequence of its node numbers; a ranked list has paths and          *)
(* durations, the longest first, as findAllPaths returns it.                 *)
(***************************************************************************)
EXTENDS PageNet

VARIABLES
    ranked,     \* the list asked about
    shown,      \* the list shown of it
    selectedBy  \* how

selectionVars == <<ranked, shown, selectedBy>>

-----------------------------------------------------------------------------
ShowOutliers ==
    /\ shown' = findOutlierPaths2(ranked)
    /\ selectedBy' = IF ranked.paths # <<>> /\ isMultimodalDistribution(ranked.durations) THEN "clusters" ELSE "outliers"
    /\ UNCHANGED ranked
ShowIndependent ==
    /\ shown' = IF ranked.paths = <<>> THEN ranked
                ELSE extractIndependentNearCriticalPaths(ranked, Head(ranked.paths), SelectedMaxPaths)
    /\ selectedBy' = "independent" /\ UNCHANGED ranked
ShowDiverse ==
    /\ shown' = extractStructurallyDiversePaths(ranked, SelectedMaxPaths)
    /\ selectedBy' = "diverse" /\ UNCHANGED ranked

-----------------------------------------------------------------------------
(***************************************************************************)
(* findAllPaths of PathScripts.js: an exact enumeration with memoised        *)
(* suffixes for a small network, for a large one the longest-first search    *)
(* with the branch-balanced queue, and what is shown of either.              *)
(***************************************************************************)
CONSTANTS
    SearchRequests,     \* world, large, critical (the nodes with isCritical), selectionMode,
                        \* limit (CONFIG.MAX_PATHS_TO_RETURN)
    MAX_PATHS_PER_NODE, \* bound: suffixes kept of a node
    MAX_EXPANSIONS,     \* bound: states taken from the queue
    branchLimit,        \* BRANCH_BALANCE_CONFIG.maxPathsPerBranch
    rebalanceInterval

ASSUME FrontPathsAssumption ==
    {MAX_PATHS_PER_NODE, MAX_EXPANSIONS, branchLimit, rebalanceInterval} \subseteq Nat \ {0}
\* The network is what the page has now, with its start; cycles, links to ends
\* that there are not, parallel ones and negative lags are not excluded.
IsSearchRequest(r) ==
    /\ IsFiniteSet(Ids(r.world.net)) /\ StartId \in Ids(r.world.net)
    /\ r.world.net.links \in Seq([source : Int, target : Int, type : {"FS", "SS", "FF", "SF"}, dur : Int, lag : Int])
    /\ r.limit \in Nat \ {0}
ASSUME SearchRequestsAssumption == \A r \in SearchRequests : IsSearchRequest(r)

VARIABLES
    request,        \* what findAllPaths was called with
    phase,          \* "start", "search", "rank", "choose", "done"
    branches,       \* the queue: per branch, in order of arrival, its items
    size, pushes,   \* _size and stats.totalPushes
    stateCache,     \* the paths taken from the queue
    tracked,        \* the PathTracker's paths
    expansions, trimmed

frontVars == <<request, phase, branches, size, pushes, stateCache, tracked, expansions, trimmed, selectionVars>>

World == request.world
Graph == World.net
Goal == EndId(Graph)
MAX_PATHS_TO_RETURN == request.limit
Neighbors(u) ==
    FlattenSeq([k \in 1..Len(Graph.links) |->
                  LET l == Graph.links[k] IN IF l.source = u /\ l.target \in Ids(Graph) THEN <<l.target>> ELSE <<>>])
\* buildHeuristicLinkMap: of parallel links the last one counts.
edgeDuration(u, v) ==
    LET k == Most({h \in Known(Graph) : Graph.links[h].source = u /\ Graph.links[h].target = v})
    IN  Graph.links[k].dur + Graph.links[k].lag

-----------------------------------------------------------------------------
\* Mutant: a node stays visited once it has been.
ExactUnvisited ==
    LET from[u \in Ids(Graph), visited \in SUBSET Ids(Graph)] ==
            IF u = Goal THEN <<<<u>>>>
            ELSE FlattenSeq([k \in 1..Len(Neighbors(u)) |->
                    LET v == Neighbors(u)[k]
                    IN  IF v \in visited THEN <<>>
                        ELSE LET s == from[v, visited \cup {u} \cup ToSet(SubSeq(Neighbors(u), 1, k - 1))]
                             IN  [j \in DOMAIN s |-> <<u>> \o s[j]]])
    IN  Distinct(from[StartId, {}])

\* enumerateAllPathsExact: the suffixes of a node are those of its neighbours,
\* up to the cap, and are remembered whatever was on the way to the node.  The
\* memo has no list of a node, or one.
enumerateAllPathsExact ==
    LET Memos == [Ids(Graph) -> SUBSET Seq(Seq(Ids(Graph)))]
        from[u \in Ids(Graph), visited \in SUBSET Ids(Graph), memo \in Memos] ==
            IF u = Goal THEN [found |-> <<<<u>>>>, memo |-> memo]
            ELSE IF memo[u] # {} THEN [found |-> CHOOSE s \in memo[u] : TRUE, memo |-> memo]
            ELSE LET more(acc, v) ==
                         IF v \in visited \cup {u} \/ Len(acc.found) >= MAX_PATHS_PER_NODE THEN acc
                         ELSE LET s == from[v, visited \cup {u}, acc.memo]
                              IN  [found |-> AtMost(acc.found \o [k \in DOMAIN s.found |-> <<u>> \o s.found[k]],
                                                    MAX_PATHS_PER_NODE),
                                   memo |-> s.memo]
                     all == FoldLeft(more, [found |-> <<>>, memo |-> memo], Neighbors(u))
                 IN  [found |-> all.found, memo |-> [all.memo EXCEPT ![u] = {all.found}]]
    IN  Distinct(from[StartId, {}, [u \in Ids(Graph) |-> {}]].found)

-----------------------------------------------------------------------------
(* The branch-balanced queue.  Priorities are scaled by Unit, so that the     *)
(* penalties of a half stay whole.                                            *)
Unit == 16
Item(p, est, crit) == [path |-> p, est |-> est, crit |-> crit]
\* _calculatePriority compares with zero, so the estimate counts alone unless
\* it is zero.
Priority(x) == Unit * (IF x.est # 0 THEN x.est ELSE IF x.crit # 0 THEN x.crit ELSE Len(x.path))
BranchOf(x) == IF Len(x.path) >= 2 THEN x.path[2] ELSE x.path[1]
\* branchPenalty to the power of the deviation less one: between a half and
\* three quarters for less than twice the average, from there on a half.
Weakened(v, count, average2) == IF count * 2 < 2 * average2 THEN (v * 3) \div 5 ELSE v \div 2

\* Mutant: a branch that is at its limit takes no more.
PushedUnlessFull(bs, x) ==
    LET id == BranchOf(x)
        at == {k \in DOMAIN bs : bs[k].id = id}
        new == [item |-> x, adjusted |-> Priority(x)]
    IN  IF at = {} THEN Append(bs, [id |-> id, items |-> <<new>>])
        ELSE IF Len(bs[Least(at)].items) >= branchLimit THEN bs
        ELSE [bs EXCEPT ![Least(at)].items = Append(@, new)]
PushedTo(bs, x) ==
    LET id == BranchOf(x)
        at == {k \in DOMAIN bs : bs[k].id = id}
        count == IF at = {} THEN 0 ELSE Len(bs[Least(at)].items)
        new == [item |-> x, adjusted |-> IF count >= branchLimit THEN Priority(x) \div 2 ELSE Priority(x)]
    IN  IF at = {} THEN Append(bs, [id |-> id, items |-> <<new>>])
        ELSE [bs EXCEPT ![Least(at)].items = Append(@, new)]
\* Every so many pushes the penalties are set anew by the size of the branch.
Held(bs) == SumFunction([k \in DOMAIN bs |-> Len(bs[k].items)])
Rebalanced(bs) ==
    [k \in DOMAIN bs |->
        [bs[k] EXCEPT !.items = [j \in DOMAIN @ |->
            LET c == Len(bs[k].items) * Len(bs)
                v == Priority(@[j].item)
            IN  [@[j] EXCEPT !.adjusted = IF 2 * c > 3 * Held(bs) THEN Weakened(v, c, 2 * Held(bs)) ELSE v]]]]
Push(q, x) ==
    LET bs == PushedTo(q.branches, x)
    IN  [branches |-> IF (q.pushes + 1) % rebalanceInterval = 0 THEN Rebalanced(bs) ELSE bs,
         size |-> q.size + 1, pushes |-> q.pushes + 1]

\* The first of the items with the highest adjusted priority.
Foremost(bs) ==
    LET all == UNION {{k} \X DOMAIN bs[k].items : k \in DOMAIN bs}
        v(a) == bs[a[1]].items[a[2]].adjusted
    IN  CHOOSE a \in all : \A b \in all : v(b) < v(a) \/ (v(b) = v(a) /\ (a[1] < b[1] \/ (a[1] = b[1] /\ a[2] <= b[2])))
Popped(bs) ==
    LET a == Foremost(bs)
        left == RemoveAt(bs[a[1]].items, a[2])
    IN  IF left = <<>> THEN RemoveAt(bs, a[1]) ELSE [bs EXCEPT ![a[1]].items = left]
\* trim keeps the items with the highest priorities.
Trim(bs, most) ==
    LET flat == FlattenSeq([k \in DOMAIN bs |-> [j \in DOMAIN bs[k].items |-> <<k, j>>]])
        v(a) == bs[a[1]].items[a[2]].adjusted
        rank(h) == Cardinality({g \in DOMAIN flat : v(flat[g]) > v(flat[h]) \/ (v(flat[g]) = v(flat[h]) /\ g < h)})
        kept == {flat[h] : h \in {g \in DOMAIN flat : rank(g) < most}}
        of(k) == SelectSeq([j \in DOMAIN bs[k].items |-> <<k, j>>], LAMBDA a : a \in kept)
    IN  SelectSeq([k \in DOMAIN bs |-> [bs[k] EXCEPT !.items = [i \in DOMAIN of(k) |-> bs[k].items[of(k)[i][2]]]]],
                  LAMBDA b : b.items # <<>>)

-----------------------------------------------------------------------------
IsCritical(u) == IF u \in request.critical THEN 1 ELSE 0
findAllPaths ==
    /\ phase = "start"
    /\ IF request.large
       THEN /\ branches' = PushedTo(<<>>, Item(<<StartId>>, 0, IsCritical(StartId)))
            /\ size' = 1 /\ pushes' = 1 /\ phase' = "search" /\ UNCHANGED tracked
       ELSE /\ tracked' = enumerateAllPathsExact
            /\ phase' = "rank" /\ UNCHANGED <<branches, size, pushes>>
    /\ UNCHANGED <<request, stateCache, expansions, trimmed, selectionVars>>

\* enumerateLongestPathsFirst, one state of the queue.
Successors(x) ==
    LET last == Last(x.path)
        next(v) == Item(Append(x.path, v), x.est + edgeDuration(last, v), x.crit + IsCritical(v))
    IN  FlattenSeq([k \in 1..Len(Neighbors(last)) |->
                      LET v == Neighbors(last)[k] IN IF v \in ToSet(x.path) THEN <<>> ELSE <<next(v)>>])
Full(paths) == Len(paths) >= MAX_PATHS_TO_RETURN
Expand ==
    /\ phase = "search" /\ size > 0 /\ expansions < MAX_EXPANSIONS /\ ~Full(tracked)
    /\ LET a == Foremost(branches)
           x == branches[a[1]].items[a[2]].item
           left == [branches |-> Popped(branches), size |-> size - 1, pushes |-> pushes]
           again == x.path \in stateCache
           complete == Last(x.path) = Goal
           q == IF again \/ complete THEN left ELSE FoldLeft(Push, left, Successors(x))
           cut == ~again /\ ~complete /\ q.size > 2 * MAX_PATHS_TO_RETURN
       IN  /\ stateCache' = stateCache \cup {x.path}
           /\ tracked' = IF complete /\ ~again THEN Append(tracked, x.path) ELSE tracked
           /\ branches' = IF cut THEN Trim(q.branches, MAX_PATHS_TO_RETURN) ELSE q.branches
           /\ size' = IF cut THEN MAX_PATHS_TO_RETURN ELSE q.size
           /\ pushes' = q.pushes
           /\ trimmed' = (trimmed \/ cut)
    /\ expansions' = expansions + 1
    /\ UNCHANGED <<request, phase, selectionVars>>
StopSearch ==
    /\ phase = "search" /\ (size = 0 \/ expansions >= MAX_EXPANSIONS \/ Full(tracked))
    /\ phase' = "rank"
    /\ UNCHANGED <<request, branches, size, pushes, stateCache, tracked, expansions, trimmed, selectionVars>>

Rank ==
    /\ phase = "rank"
    /\ ranked' =
         LET d(p) == calculatePathDuration(World, p)
             at(p) == CHOOSE k \in DOMAIN tracked : tracked[k] = p
             order == Ordered(ToSet(tracked), LAMBDA p, r : d(p) > d(r) \/ (d(p) = d(r) /\ at(p) < at(r)))
         IN  [paths |-> order, durations |-> [k \in DOMAIN order |-> d(order[k])]]
    /\ phase' = "choose"
    /\ UNCHANGED <<request, branches, size, pushes, stateCache, tracked, expansions, trimmed, shown, selectedBy>>

Choose ==
    /\ phase = "choose" /\ phase' = "done"
    /\ \/ /\ ~request.large \/ request.selectionMode = "raw"
          /\ shown' = ranked /\ selectedBy' = "all" /\ UNCHANGED ranked
       \/ request.large /\ request.selectionMode = "independent" /\ ShowIndependent
       \/ request.large /\ request.selectionMode = "outliers" /\ ShowOutliers
    /\ UNCHANGED <<request, branches, size, pushes, stateCache, tracked, expansions, trimmed>>
\* The selection by branches alone, which other pages may call on the result.
ChooseDiverse ==
    /\ phase = "choose" /\ ranked.paths # <<>> /\ phase' = "done"
    /\ ShowDiverse
    /\ UNCHANGED <<request, branches, size, pushes, stateCache, tracked, expansions, trimmed>>

FrontInit ==
    /\ request \in SearchRequests /\ phase = "start"
    /\ branches = <<>> /\ size = 0 /\ pushes = 0 /\ stateCache = {} /\ tracked = <<>>
    /\ expansions = 0 /\ trimmed = FALSE
    /\ ranked = [paths |-> <<>>, durations |-> <<>>] /\ shown = ranked /\ selectedBy = "none"
FrontNext == findAllPaths \/ Expand \/ StopSearch \/ Rank \/ Choose \/ ChooseDiverse
FrontSpec == FrontInit /\ [][FrontNext]_frontVars

-----------------------------------------------------------------------------
(* Properties *)
SimplePaths ==
    LET steps[k \in Nat] ==
            IF k = 0 THEN {<<StartId>>}
            ELSE UNION {{Append(p, v) : v \in ToSet(Neighbors(Last(p))) \ ToSet(p)} :
                        p \in {q \in steps[k - 1] : Last(q) # Goal}}
    IN  {p \in UNION {steps[k] : k \in 0..Cardinality(Ids(Graph))} : Last(p) = Goal}
Acyclic == Len(topologicalSort(Graph)) = Cardinality(Ids(Graph))

\* The ways from the start to the end, by link: parallel links make two of one path.
Routes ==
    LET at(r) == IF r = <<>> THEN StartId ELSE Graph.links[Last(r)].target
        steps[k \in Nat] ==
            IF k = 0 THEN {<<>>}
            ELSE UNION {{Append(r, h) : h \in {h \in Known(Graph) : Graph.links[h].source = at(r)}} :
                        r \in {q \in steps[k - 1] : at(q) # Goal}}
    IN  {r \in UNION {steps[k] : k \in 0..Cardinality(Ids(Graph))} : at(r) = Goal}

\* The exact enumeration finds every path of an acyclic network as long as the
\* cap allows for each route, a path over parallel links being kept once for
\* each of them; and on any network it finds only simple paths, although
\* suffixes are remembered whatever had been visited when they were found.
ExactFindsAll ==
    phase = "rank" /\ ~request.large =>
        /\ ToSet(tracked) \subseteq SimplePaths
        /\ Acyclic /\ Cardinality(Routes) <= MAX_PATHS_PER_NODE => ToSet(tracked) = SimplePaths

\* The search of a large network loses nothing but by trimming: every path to
\* the end is either found or has a beginning in the queue, over branches,
\* penalties, rebalancing and states skipped as seen.
NothingLost ==
    phase = "search" /\ ~trimmed =>
        /\ size = Held(branches)
        /\ \A p \in SimplePaths :
              Contains(tracked, p) \/ \E k \in DOMAIN branches : \E j \in DOMAIN branches[k].items :
                  IsPrefix(branches[k].items[j].item.path, p) /\ branches[k].items[j].item.path \notin stateCache

\* The longest path found stays on show, first, whatever the families,
\* branches, quotas and overlaps leave out; unless the durations have several
\* peaks, where only members of a cluster are shown.
LongestStaysShown ==
    phase = "done" /\ ranked.paths # <<>> /\ selectedBy # "clusters" =>
        shown.paths # <<>> /\ Head(shown.paths) = Head(ranked.paths) /\ Head(shown.durations) = Head(ranked.durations)

\* No path is shown twice, none without its own duration, none that was not found.
ShownOnce ==
    phase = "done" =>
        /\ Cardinality(ToSet(shown.paths)) = Len(shown.paths) /\ Len(shown.durations) = Len(shown.paths)
        /\ \A k \in DOMAIN shown.paths : \E j \in DOMAIN ranked.paths :
              ranked.paths[j] = shown.paths[k] /\ ranked.durations[j] = shown.durations[k]
        /\ selectedBy \in {"independent", "diverse", "clusters", "outliers"} => Len(shown.paths) <= SelectedMaxPaths

\* The selection keeps the longest path and lists nothing twice.
SelectionSound == LongestStaysShown /\ ShownOnce

-----------------------------------------------------------------------------
(***************************************************************************)
(* The array heaps of PathScripts.js: MinHeap, MaxHeap and PriorityQueue     *)
(* with its trim.  An item has a key and a number, that of its arrival.      *)
(***************************************************************************)
CONSTANTS HeapKeys, HeapPushes  \* HeapPushes: bound on the items pushed
ASSUME HeapAssumption == HeapKeys \subseteq Int /\ HeapPushes \in Nat

VARIABLES
    heapKind,   \* "min", "max" or "queue", which of the classes it is
    heap,       \* the array; the JavaScript index i is at i + 1
    arrived     \* how many items have been pushed

heapVars == <<heapKind, heap, arrived>>

\* a must not be below b; the queue's comparator puts the longest first.
Ahead(a, b) == IF heapKind = "min" THEN a.key < b.key ELSE a.key > b.key
Swap(h, i, j) == [h EXCEPT ![i] = h[j], ![j] = h[i]]
\* The loops, a turn at a time: at is the index they have come to.
SiftUp(h, i) ==
    LET turn[k \in Nat] ==
            IF k = 0 THEN [heap |-> h, at |-> i]
            ELSE LET s == turn[k - 1]
                     parent == s.at \div 2
                 IN  IF s.at = 1 \/ ~Ahead(s.heap[s.at], s.heap[parent]) THEN s
                     ELSE [heap |-> Swap(s.heap, s.at, parent), at |-> parent]
    IN  turn[Len(h)].heap
\* The child that comes before its parent and before the other child.
FirstChild(h, i) ==
    LET first == IF 2 * i <= Len(h) /\ Ahead(h[2 * i], h[i]) THEN 2 * i ELSE i
    IN  IF 2 * i + 1 <= Len(h) /\ Ahead(h[2 * i + 1], h[first]) THEN 2 * i + 1 ELSE first
\* Mutant: the right child is compared with the parent, not with the left one.
RightChild(h, i) ==
    IF 2 * i + 1 <= Len(h) /\ Ahead(h[2 * i + 1], h[i]) THEN 2 * i + 1
    ELSE IF 2 * i <= Len(h) /\ Ahead(h[2 * i], h[i]) THEN 2 * i ELSE i
Sink(s, next) == IF next = s.at THEN s ELSE [heap |-> Swap(s.heap, s.at, next), at |-> next]
SiftDownRight(h, i) ==
    LET turn[k \in Nat] == IF k = 0 THEN [heap |-> h, at |-> i]
                           ELSE LET s == turn[k - 1] IN Sink(s, RightChild(s.heap, s.at))
    IN  turn[Len(h)].heap
SiftDown(h, i) ==
    LET turn[k \in Nat] == IF k = 0 THEN [heap |-> h, at |-> i]
                           ELSE LET s == turn[k - 1] IN Sink(s, FirstChild(s.heap, s.at))
    IN  turn[Len(h)].heap

PushItem(key) ==
    /\ arrived < HeapPushes
    /\ arrived' = arrived + 1
    /\ heap' = LET h == Append(heap, [key |-> key, value |-> arrived + 1]) IN SiftUp(h, Len(h))
    /\ UNCHANGED heapKind
PopItem ==
    /\ heap # <<>>
    /\ heap' = IF Len(heap) = 1 THEN <<>> ELSE SiftDown([Front(heap) EXCEPT ![1] = Last(heap)], 1)
    /\ UNCHANGED <<heapKind, arrived>>

MinPush == heapKind = "min" /\ \E k \in HeapKeys : PushItem(k)
MinPop == heapKind = "min" /\ PopItem
MaxPush == heapKind = "max" /\ \E k \in HeapKeys : PushItem(k)
MaxPop == heapKind = "max" /\ PopItem
QueuePush == heapKind = "queue" /\ \E k \in HeapKeys : PushItem(k)
QueuePop == heapKind = "queue" /\ PopItem
\* trim sorts the array, stably, cuts it and sifts down from the middle.
QueueTrim ==
    /\ heapKind = "queue"
    /\ \E most \in 0..Len(heap) - 1 :
          LET before(i, j) == Ahead(heap[i], heap[j]) \/ (~Ahead(heap[j], heap[i]) /\ i < j)
              order == Ordered(DOMAIN heap, before)
              mid == Least({most, most \div 2 + 1})
          IN  heap' = FoldLeft(SiftDown, [k \in 1..most |-> heap[order[k]]], [k \in 1..mid |-> mid + 1 - k])
    /\ UNCHANGED <<heapKind, arrived>>

HeapInit == heapKind \in {"min", "max", "queue"} /\ heap = <<>> /\ arrived = 0
HeapNext == MinPush \/ MinPop \/ MaxPush \/ MaxPop \/ QueuePush \/ QueuePop \/ QueueTrim
HeapSpec == HeapInit /\ [][HeapNext]_heapVars

-----------------------------------------------------------------------------
\* What leaves a heap is never behind what stays, nothing else is lost, nothing
\* is twice in it: the search pops and trims in the order of the durations,
\* whatever the pushes, pops and cuts before.
BestFirst ==
    [][LET gone == ToSet(heap) \ ToSet(heap')
           stay == ToSet(heap) \cap ToSet(heap')
       IN  /\ Cardinality(ToSet(heap')) = Len(heap')
           /\ Len(heap') >= Len(heap) => gone = {}
           /\ heap # <<>> /\ Len(heap') < Len(heap) =>
                IF Len(heap') = Len(heap) - 1 /\ heap[1] \in gone
                THEN \A x \in stay : ~Ahead(x, heap[1])
                ELSE heapKind = "queue" /\ \A x \in gone, y \in stay : ~Ahead(x, y)]_heapVars
=============================================================================
