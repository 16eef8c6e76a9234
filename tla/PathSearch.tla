----------------------------- MODULE PathSearch -----------------------------
(***************************************************************************)
(* find_all_paths of paths/enumerate.py: what it hands to its two searches   *)
(* (the successor lists of the snapshot that build_dag made, which go        *)
(* forward, the two endpoints and the number of paths wanted), the searches, *)
(* and what a caller may take from either.  A large schedule is searched     *)
(* longest first, any other exactly.  A path is the sequence of its nodes.   *)
(***************************************************************************)
EXTENDS Integers, Sequences, FiniteSets, SequencesExt, Bags

CONSTANTS
    N,
    PathRequests,    \* succ: per node its hops, each with its target and what it
                 \* adds to the estimate (the node's duration and the lag)
    MAX_PATHS_PER_NODE, max_expansions, no_improvement_cap

Nodes == 1..N

\* Equal endpoints and endpoints outside the schedule never reach a search.
ASSUME PathRequestAssumption ==
    /\ N \in Nat
    /\ MAX_PATHS_PER_NODE \in Nat \ {0} /\ max_expansions \in Nat /\ no_improvement_cap \in Nat \ {0}
    /\ \A r \in PathRequests :
        /\ r.start_idx \in Nodes /\ r.end_idx \in Nodes /\ r.start_idx # r.end_idx
        /\ r.max_paths \in Nat \ {0} /\ r.is_large \in BOOLEAN
        /\ r.succ \in [Nodes -> Seq([to : Nodes, weight : Int])]
        /\ \A u \in Nodes : \A k \in 1..Len(r.succ[u]) : u < r.succ[u][k].to

VARIABLES pathRequest, searchStep

succ == pathRequest.succ
start_idx == pathRequest.start_idx
end_idx == pathRequest.end_idx
max_paths == pathRequest.max_paths

\* The paths from each node to the end, by definition.
AllPaths ==
    LET from[u \in Nodes] == IF u = end_idx THEN {<<u>>}
          ELSE {<<u>> \o p : p \in UNION {from[e.to] : e \in ToSet(succ[u])}}
    IN  from

-----------------------------------------------------------------------------
(***************************************************************************)
(* enumerate_all_paths_exact of paths/enumerate.py: a depth-first search    *)
(* with an explicit stack that memoises, per node, the suffixes from it to  *)
(* the end, cuts long suffix lists, and at last drops duplicates and cuts   *)
(* the result.  A path is the sequence of its nodes.                        *)
(***************************************************************************)
VARIABLES
    stack,        \* frames: the node, the next child, the suffixes so far
    memo,         \* the suffixes of the nodes that are finished
    cap_fired,
    out, truncated

-----------------------------------------------------------------------------
Capped(acc) == Len(acc) >= MAX_PATHS_PER_NODE

\* Suffixes are appended one by one until the list has reached the cap; one is
\* appended even to a list that has reached it before.
Extended(acc, node, sufs) ==
    LET room == IF Capped(acc) THEN 1 ELSE MAX_PATHS_PER_NODE - Len(acc)
        k == IF Len(sufs) < room THEN Len(sufs) ELSE room
    IN  acc \o [i \in 1..k |-> <<node>> \o sufs[i]]

Frame(u) == [node |-> u, ci |-> 1, acc |-> <<>>]
Top == Last(stack)
Children == succ[Top.node]
Child == Children[Top.ci].to
Searching == searchStep = "exact" /\ stack # <<>>

\* The top frame with its list replaced: past its last child when the cap is
\* reached, else at its next one.
Advance(acc) == [node |-> Top.node, acc |-> acc,
                 ci |-> IF Capped(acc) THEN Len(Children) + 1 ELSE Top.ci + 1]

-----------------------------------------------------------------------------
ExactInit ==
    /\ stack = <<Frame(start_idx)>>
    /\ memo = [u \in {} |-> <<>>]
    /\ cap_fired = FALSE
    /\ out = <<>> /\ truncated = FALSE

ReachEnd ==
    /\ Searching /\ Top.ci <= Len(Children) /\ Child = end_idx
    /\ LET acc == Append(Top.acc, <<Top.node, end_idx>>) IN
         /\ stack' = Append(Front(stack), Advance(acc))
         /\ cap_fired' = (cap_fired \/ Capped(acc))
    /\ UNCHANGED <<pathRequest, memo, out, truncated, searchStep>>

UseMemo ==
    /\ Searching /\ Top.ci <= Len(Children) /\ Child # end_idx /\ Child \in DOMAIN memo
    /\ LET acc == Extended(Top.acc, Top.node, memo[Child]) IN
         /\ stack' = Append(Front(stack), Advance(acc))
         /\ cap_fired' = (cap_fired \/ (memo[Child] # <<>> /\ Capped(acc)))
    /\ UNCHANGED <<pathRequest, memo, out, truncated, searchStep>>

\* The code also skips a child that is on the stack; links that go upward
\* never lead there.
Descend ==
    /\ Searching /\ Top.ci <= Len(Children) /\ Child # end_idx /\ Child \notin DOMAIN memo
    /\ stack' = Front(stack) \o <<[Top EXCEPT !.ci = @ + 1], Frame(Child)>>
    /\ UNCHANGED <<pathRequest, memo, cap_fired, out, truncated, searchStep>>

\* A frame that is finished hands its suffixes to its parent, which goes on
\* with its next child even if that fills its list.
Finish ==
    /\ Searching /\ Top.ci > Len(Children)
    /\ memo' = [u \in DOMAIN memo \cup {Top.node} |-> IF u = Top.node THEN Top.acc ELSE memo[u]]
    /\ IF Len(stack) = 1 THEN stack' = <<>> /\ UNCHANGED cap_fired
       ELSE LET below == Front(stack)
                parent == Last(below)
                acc == Extended(parent.acc, parent.node, Top.acc)
            IN  /\ stack' = Append(Front(below), [parent EXCEPT !.acc = acc])
                /\ cap_fired' = (cap_fired \/ (Top.acc # <<>> /\ Capped(acc)))
    /\ UNCHANGED <<pathRequest, out, truncated, searchStep>>

\* The distinct suffixes in their order, and the first max_paths of them.
Distinct(s) == FoldLeft(LAMBDA seen, p : IF Contains(seen, p) THEN seen ELSE Append(seen, p), <<>>, s)
Collect ==
    /\ searchStep = "exact" /\ stack = <<>>
    /\ LET all == Distinct(memo[start_idx]) IN
         /\ out' = IF Len(all) > max_paths THEN SubSeq(all, 1, max_paths) ELSE all
         /\ truncated' = (cap_fired \/ Len(all) > max_paths)
    /\ searchStep' = "done"
    /\ UNCHANGED <<pathRequest, stack, memo, cap_fired>>

ExactNext == ReachEnd \/ UseMemo \/ Descend \/ Finish \/ Collect

-----------------------------------------------------------------------------
(* Properties *)

ExactTypeOK ==
    /\ \A k \in 1..Len(stack) : /\ stack[k].node \in Nodes
                                /\ stack[k].ci \in 1..(Len(succ[stack[k].node]) + 1)
                                /\ stack[k].acc \in Seq(Seq(Nodes))
    /\ DOMAIN memo \subseteq Nodes
    /\ cap_fired \in BOOLEAN /\ truncated \in BOOLEAN
    /\ out \in Seq(Seq(Nodes)) /\ Len(out) <= max_paths

-----------------------------------------------------------------------------
(***************************************************************************)
(* enumerate_longest_paths_first of paths/enumerate.py and the _PathTracker *)
(* it fills: a search over partial paths that keeps the max_paths longest   *)
(* complete ones it meets.  The priority of a partial path (its estimate,   *)
(* critical activities and length, with a penalty for crowded branches)     *)
(* only orders the search, so the next one is any of the heap's here and    *)
(* the trim keeps any of them: what holds of every order holds of the       *)
(* code's.                                                                  *)
(***************************************************************************)
VARIABLES
    heap,         \* a bag of partial paths with their estimates
    state_cache,  \* the paths expanded, each with the estimate it had
    tracker,      \* the complete paths kept, with their durations
    expansions, expansions_since_improve,
    budget_exit, dropped, heap_trimmed,
    completed     \* history: the complete paths that were new to the tracker

flags == <<budget_exit, dropped, heap_trimmed>>

-----------------------------------------------------------------------------
is_full == Cardinality(tracker) >= max_paths
Shortest == {t \in tracker : \A u \in tracker : t.est <= u.est}
Tracked(path) == \E t \in tracker : t.path = path

\* A path that was expanded with at least this estimate is not expanded again.
Memoised(s) == \E c \in state_cache : c.path = s.path /\ c.est >= s.est
Cache(s) == state_cache' = {c \in state_cache : c.path # s.path} \cup {s}

\* The heap with the successors of s pushed.
Pushed(h, s) ==
    FoldLeft(LAMBDA bag, e : bag (+) SetToBag({[path |-> Append(s.path, e.to), est |-> s.est + e.weight]}),
             h, succ[Last(s.path)])
\* What the blow-up guard may leave of a heap.
Trimmed(h) ==
    IF BagCardinality(h) <= max_paths * 4 THEN {h}
    ELSE {b \in UNION {[S -> 1..(max_paths * 2)] : S \in SUBSET BagToSet(h)} :
            b \sqsubseteq h /\ BagCardinality(b) = max_paths * 2}

-----------------------------------------------------------------------------
LongestInit ==
    /\ heap = SetToBag({[path |-> <<start_idx>>, est |-> 0]})
    /\ state_cache = {} /\ tracker = {}
    /\ expansions = 0 /\ expansions_since_improve = 0
    /\ budget_exit = FALSE /\ dropped = FALSE /\ heap_trimmed = FALSE
    /\ completed = {}

\* A state is taken off the heap and, while the tracker is full, counts as an
\* expansion without improvement.
Pop(s) ==
    /\ searchStep = "longest_first" /\ expansions < max_expansions
    /\ s \in BagToSet(heap)
    /\ expansions' = expansions + 1
SinceImproved == expansions_since_improve + (IF is_full THEN 1 ELSE 0)
OutOfBudget == is_full /\ SinceImproved >= no_improvement_cap

GiveUp(s) ==
    /\ Pop(s) /\ OutOfBudget
    /\ heap' = heap (-) SetToBag({s})
    /\ budget_exit' = TRUE
    /\ expansions_since_improve' = SinceImproved
    /\ searchStep' = "done"
    /\ UNCHANGED <<pathRequest, state_cache, tracker, dropped, heap_trimmed, completed>>

SkipState(s) ==
    /\ Pop(s) /\ ~OutOfBudget /\ Memoised(s)
    /\ heap' = heap (-) SetToBag({s})
    /\ expansions_since_improve' = SinceImproved
    /\ UNCHANGED <<pathRequest, state_cache, tracker, flags, completed, searchStep>>

Expand(s) ==
    /\ Pop(s) /\ ~OutOfBudget /\ ~Memoised(s) /\ Last(s.path) # end_idx
    /\ Cache(s)
    /\ LET h == Pushed(heap (-) SetToBag({s}), s) IN
         /\ heap' \in Trimmed(h)
         /\ heap_trimmed' = (heap_trimmed \/ heap' # h)
    /\ expansions_since_improve' = SinceImproved
    /\ UNCHANGED <<pathRequest, tracker, budget_exit, dropped, completed, searchStep>>

\* _PathTracker.add: a path it has is not added again; when it is full, a path
\* that is no longer than the shortest is rejected and a longer one evicts it.
Add(s) ==
    /\ ~Tracked(s.path) /\ ~is_full
    /\ tracker' = tracker \cup {s} /\ dropped' = dropped
EvictSilently(s) ==
    /\ ~Tracked(s.path) /\ is_full /\ \E t \in Shortest : s.est > t.est
    /\ \E t \in Shortest : tracker' = (tracker \ {t}) \cup {s}
    /\ dropped' = dropped
Evict(s) ==
    /\ ~Tracked(s.path) /\ is_full /\ \E t \in Shortest : s.est > t.est
    /\ \E t \in Shortest : tracker' = (tracker \ {t}) \cup {s}
    /\ dropped' = TRUE
Keep(s) ==
    /\ \/ Tracked(s.path) /\ dropped' = dropped
       \/ /\ ~Tracked(s.path) /\ is_full /\ \E t \in Shortest : s.est <= t.est
          /\ dropped' = TRUE
    /\ tracker' = tracker

Complete(s) ==
    /\ Pop(s) /\ ~OutOfBudget /\ ~Memoised(s) /\ Last(s.path) = end_idx
    /\ Cache(s)
    /\ \/ (Add(s) \/ Evict(s)) /\ expansions_since_improve' = 0
       \/ Keep(s) /\ expansions_since_improve' = SinceImproved
    /\ completed' = IF Tracked(s.path) THEN completed ELSE completed \cup {s}
    /\ heap' = heap (-) SetToBag({s})
    /\ UNCHANGED <<pathRequest, budget_exit, heap_trimmed, searchStep>>

Stop ==
    /\ searchStep = "longest_first" /\ (BagToSet(heap) = {} \/ expansions >= max_expansions)
    /\ budget_exit' = (budget_exit \/ BagToSet(heap) # {})
    /\ searchStep' = "done"
    /\ UNCHANGED <<pathRequest, heap, state_cache, tracker, expansions, expansions_since_improve,
                   dropped, heap_trimmed, completed>>

\* What the search returns: the paths it kept and whether it sampled.
sampled == budget_exit \/ dropped \/ heap_trimmed
result == {t.path : t \in tracker}

LongestNext ==
    \/ \E s \in BagToSet(heap) : GiveUp(s)
    \/ \E s \in BagToSet(heap) : SkipState(s)
    \/ \E s \in BagToSet(heap) : Expand(s)
    \/ \E s \in BagToSet(heap) : Complete(s)
    \/ Stop

-----------------------------------------------------------------------------
(* Properties *)

LongestTypeOK ==
    /\ \A s \in BagToSet(heap) \cup state_cache \cup completed : Head(s.path) = start_idx
    /\ tracker \subseteq completed /\ Cardinality(tracker) <= max_paths
    /\ expansions \in 0..max_expansions
    /\ expansions_since_improve \in 0..no_improvement_cap
    /\ flags \in BOOLEAN \X BOOLEAN \X BOOLEAN

\* At every moment the tracker holds the longest of the complete paths it was
\* given: one that it does not hold is no longer than any that it does.  (A
\* path it holds already keeps the estimate it came with first, though a
\* parallel link may bring it again with a larger one.)
KeepsLongest ==
    \A c \in completed : ~Tracked(c.path) => \A t \in tracker : c.est <= t.est

-----------------------------------------------------------------------------
(* find_all_paths. *)
exactVars == <<stack, memo, cap_fired, out, truncated>>
longestVars == <<heap, state_cache, tracker, expansions, expansions_since_improve,
                 budget_exit, dropped, heap_trimmed, completed>>
searchVars == <<pathRequest, searchStep, exactVars, longestVars>>

\* What the caller is answered with.
paths == IF pathRequest.is_large THEN result ELSE ToSet(out)
corpus_truncated == IF pathRequest.is_large THEN sampled ELSE truncated

-----------------------------------------------------------------------------
SearchInit ==
    /\ pathRequest \in PathRequests
    /\ searchStep = IF pathRequest.is_large THEN "longest_first" ELSE "exact"
    /\ ExactInit /\ LongestInit

ExactSearch == ExactNext /\ UNCHANGED longestVars

LongestSearch == LongestNext /\ UNCHANGED exactVars

SearchNext == ExactSearch \/ LongestSearch

SearchSpec == SearchInit /\ [][SearchNext]_searchVars /\ WF_searchVars(SearchNext)

-----------------------------------------------------------------------------
(* Properties *)

SearchTypeOK ==
    /\ pathRequest \in PathRequests /\ searchStep \in {"exact", "longest_first", "done"}
    /\ ExactTypeOK /\ LongestTypeOK

\* An answer lists paths from start to end only, no path twice and no more than
\* were asked for, and when it says that the corpus is not truncated it lists
\* them all: whichever search made it, in whatever order the heap gave its
\* states, and although parallel links lead the searches along a path again.
\* Without the per-node cap the flag of the exact search is exact: max_paths
\* itself may be reached by a result that lists everything.
UntruncatedIsExhaustive ==
    searchStep = "done" =>
        /\ paths \subseteq AllPaths[start_idx] /\ Cardinality(paths) <= max_paths
        /\ Cardinality(paths) = IF pathRequest.is_large THEN Cardinality(tracker) ELSE Len(out)
        /\ ~corpus_truncated => paths = AllPaths[start_idx]
        /\ corpus_truncated /\ ~pathRequest.is_large /\ ~cap_fired => paths # AllPaths[start_idx]

\* The answer lists what there is, or says that it does not; what it leaves out
\* is no longer than what it lists.
SearchSound == SearchTypeOK /\ KeepsLongest /\ UntruncatedIsExhaustive
=============================================================================
