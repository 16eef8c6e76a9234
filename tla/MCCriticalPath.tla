-------------------------- MODULE MCCriticalPath ---------------------------
(* Instances of Cpm and CriticalPath for TLC.  The indices of the activities  *)
(* are names, so one topological order stands for all.                        *)
EXTENDS CriticalPath

\* The links with these relations and lags that go forward in order.
LinksAlong(order, rels, lags) ==
    {e \in [from : 1..N, to : 1..N, rel : rels, lag : lags] :
        \E i, j \in 1..N : i < j /\ order[i] = e.from /\ order[j] = e.to}

\* All snapshots with at most three of the links.
SmallSnapshots(order, chosen) ==
    {[order |-> order, links |-> ls] : ls \in {{}} \cup {{e, f, g} : e, f, g \in chosen}}

\* Three activities, every relation and lags.
MCSnapshots == SmallSnapshots(<<2, 1, 3>>, LinksAlong(<<2, 1, 3>>, Relations, {-1, 1}))
MCDurations == {0, 2}
MCStartDates == 0..3

=============================================================================
