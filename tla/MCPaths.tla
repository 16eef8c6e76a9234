------------------------------ MODULE MCPaths ------------------------------
(* The page's dates and driving chains over small networks of every kind of   *)
(* link, the path search over grids and over one with two groups of paths, and *)
(* the heaps that the search keeps.                                           *)
EXTENDS PageDates, FrontPaths

PLink(s, t, type, lag) == [source |-> s, target |-> t, type |-> type, lag |-> lag]
Diamond(t) ==
    [days |-> (0 :> 0 @@ 1 :> 3 @@ 2 :> 2 @@ 3 :> 0),
     links |-> <<PLink(0, 1, "FS", 0), PLink(0, 2, "FS", 0), PLink(1, 2, t, 2), PLink(1, 3, "FS", 2),
                 PLink(2, 3, "FS", 0)>>]
Diamonds == {Diamond(t) : t \in {"FS", "SS", "FF", "SF"}}
Cyclic == {[days |-> (0 :> 0 @@ 1 :> 2 @@ 2 :> 1 @@ 3 :> 0),
            links |-> <<PLink(0, 1, "FS", 0), PLink(1, 2, "FS", 0), PLink(2, 1, "FS", 0), PLink(2, 3, "FS", 0)>>]}
\* A tail that the end does not wait for, a cycle, and a third way to the end.
Tailed == {[days |-> (0 :> 0 @@ 1 :> 3 @@ 2 :> 2 @@ 3 :> 1 @@ 4 :> 0),
            links |-> <<PLink(0, 1, "FS", 0), PLink(0, 2, "FS", 0), PLink(1, 4, "FS", 1), PLink(2, 4, "FS", 0),
                        PLink(0, 4, "FS", 2), PLink(2, 3, "FS", 0), PLink(1, 2, "FS", 0)>>]}
\* One way has float; with one link more the two are one after the other, or branch.
Floating == {[days |-> (0 :> 0 @@ 1 :> 3 @@ 2 :> 1 @@ 3 :> 1 @@ 4 :> 0),
              links |-> <<PLink(0, 1, "FS", 0), PLink(0, 2, "FS", 0), PLink(1, 4, "FS", 0), PLink(2, 3, "FS", 0),
                          PLink(3, 4, "FS", 0)>> \o x] :
                x \in {<<>>, <<PLink(3, 1, "FS", 0)>>, <<PLink(1, 3, "FS", 1)>>}}
MCPageNets == Diamonds \cup Cyclic \cup Tailed \cup Floating

FLink(s, t, dur) == [source |-> s, target |-> t, type |-> "FS", dur |-> dur, lag |-> 0]
Grid(a, b, c, extra) ==
    [days |-> (0 :> 0 @@ 1 :> a @@ 2 :> b @@ 3 :> c @@ 4 :> 2 @@ 5 :> 0),
     links |-> <<FLink(0, 1, 0), FLink(0, 2, 1), FLink(1, 3, 2), FLink(2, 3, 0), FLink(1, 4, 1), FLink(2, 4, 3),
                 FLink(3, 5, 1), FLink(4, 5, 0)>> \o extra]
SearchOf(n, large, mode, limit) ==
    [world |-> [net |-> n, dayHours |-> 8], large |-> large, critical |-> {0, 1, 5}, selectionMode |-> mode, limit |-> limit]
\* Two groups of five paths, one path longer and one shorter than all of them.
Bimodal ==
    [days |-> (0 :> 0 @@ 1 :> 52 @@ 2 :> 40 @@ 3 :> 20 @@ 4 :> 10 @@ 5 :> 3 @@ 6 :> 4 @@ 7 :> 4 @@ 8 :> 4 @@ 9 :> 5 @@ 10 :> 0),
     links |-> [k \in 1..4 |-> FLink(0, k, 40 - k)] \o <<FLink(1, 10, 1), FLink(4, 10, 2)>> \o
               [k \in 1..5 |-> FLink(2, 4 + k, k)] \o [k \in 1..5 |-> FLink(3, 4 + k, 0)] \o [k \in 1..5 |-> FLink(4 + k, 10, 1)]]
MCSearchRequests ==
    {SearchOf(Grid(a, 2, c, x), large, m, limit) :
        a \in {1, 9}, c \in {1, 4}, x \in {<<>>, <<FLink(3, 4, 1)>>, <<FLink(3, 4, 0), FLink(4, 3, 0)>>, <<FLink(1, 2, 0), FLink(0, 2, 2)>>},
        large \in BOOLEAN, m \in {"raw", "outliers", "independent"}, limit \in {1, 4}}
    \cup {SearchOf(Bimodal, TRUE, m, 20) : m \in {"raw", "outliers", "independent"}}

VARIABLE pathsMachine
vars == <<drivingPageVars, frontVars, heapVars, pathsMachine>>
NoNet == net = CHOOSE n \in PageNets : TRUE
NoRequest == request = CHOOSE r \in SearchRequests : TRUE
NoHeap == heapKind = "min" /\ HeapInit
MCInit ==
    \/ NoRequest /\ FrontInit /\ NoHeap /\ DrivingInit /\ pathsMachine = "dates"
    \/ NoNet /\ dayHours \in {1} /\ DrivingInit /\ NoHeap /\ FrontInit /\ pathsMachine = "search"
    \/ NoNet /\ dayHours \in {1} /\ DrivingInit /\ NoRequest /\ FrontInit /\ HeapInit /\ pathsMachine = "heap"
MCNext ==
    /\ pathsMachine' = pathsMachine
    /\ \/ pathsMachine = "dates" /\ DrivingNext /\ UNCHANGED <<frontVars, heapVars>>
       \/ pathsMachine = "search" /\ FrontNext /\ UNCHANGED <<drivingPageVars, heapVars>>
       \/ pathsMachine = "heap" /\ HeapNext /\ UNCHANGED <<drivingPageVars, frontVars>>
MCSpec == MCInit /\ [][MCNext]_vars
=============================================================================
