--------------------------- MODULE ScheduleGraph ---------------------------
(***************************************************************************)
(* The precedence graphs that solver/dag.py works on.  Activities are their *)
(* indices (1..N here, 0..n-1 in the code); a link carries its relation and *)
(* lag.  pred, succ, pred_edges and succ_edges of DAGState are one set of   *)
(* links: they are four views of the same edges.                            *)
(***************************************************************************)
EXTENDS Integers

CONSTANT N  \* number of activities; with n = 0 the code returns at once

ASSUME SizeAssumption == N \in Nat \ {0}

Activities == 1..N
Relations == {"FS", "SS", "FF", "SF"}
Link == [from : Activities, to : Activities, rel : Relations, lag : Int]

\* s.order lists every activity once and every link of s goes forward in it.
WellFormed(s) ==
    /\ s.order \in [1..N -> Activities]
    /\ \A j \in Activities : \E i \in 1..N : s.order[i] = j
    /\ \A i, j \in 1..N : s.order[i] = s.order[j] => i = j
    /\ s.links \subseteq Link
    /\ \A e \in s.links : \A i, j \in 1..N :
          s.order[i] = e.from /\ s.order[j] = e.to => i < j

\* The activities on a cycle of links or downstream of one: the largest set
\* whose members all have a predecessor in it.
Trapped(links) ==
    UNION {C \in SUBSET Activities :
              \A c \in C : \E e \in links : e.to = c /\ e.from \in C}

\* Link e closes a cycle: whatever is closed under links and holds e.to also
\* holds e.from.
OnCycle(links, e) ==
    \A C \in SUBSET Activities :
        (e.to \in C /\ \A f \in links : f.from \in C => f.to \in C) => e.from \in C
=============================================================================
