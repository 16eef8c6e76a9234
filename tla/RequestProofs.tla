--------------------------- MODULE RequestProofs ----------------------------
(***************************************************************************)
(* Theorems about what the endpoints make of a request: the network build_dag *)
(* sorts (DagBuild) and the graph ensure_dag cuts and ties (SanitisedGraph), *)
(* for every number of activities and every set of links, cyclic or not; and *)
(* the reports of the outcome registry (OutcomeRegistry), for any number of *)
(* workers, classes and registrations.                                     *)
(***************************************************************************)
EXTENDS DagBuild, SanitisedGraph, OutcomeRegistry, FunctionTheorems,
        FiniteSetTheorems, SequenceTheorems, WellFoundedInduction, TLAPS

-----------------------------------------------------------------------------
(***************************************************************************)
(* DagBuild.                                                               *)
(***************************************************************************)

Unrepeated(s) == \A i, j \in 1..Len(s) : s[i] = s[j] => i = j

-----------------------------------------------------------------------------
(* Sequences without repetition, and their elements. *)

LEMMA ListedCardinality ==
    ASSUME NEW S, NEW s \in Seq(S), Unrepeated(s)
    PROVE  IsFiniteSet(Elems(s)) /\ Cardinality(Elems(s)) = Len(s)
<1>1. s \in Bijection(1..Len(s), Elems(s))
  <2>1. s \in [1..Len(s) -> Elems(s)]
    BY LenProperties DEF Elems
  <2>. QED
    BY <2>1 DEF Unrepeated, Elems, Bijection, Injection, Surjection, IsInjective
<1>2. Len(s) \in Nat /\ ExistsBijection(1..Len(s), Elems(s))
  BY <1>1, LenProperties DEF ExistsBijection
<1>. QED
  BY <1>2, FS_CountingElements, FS_NatBijection

LEMMA ElemsOfSeq ==
    ASSUME NEW S, NEW s \in Seq(S)
    PROVE  Elems(s) \subseteq S
BY ElementOfSeq DEF Elems

LEMMA ElemsAppend ==
    ASSUME NEW S, NEW s \in Seq(S), NEW x \in S
    PROVE  Elems(Append(s, x)) = Elems(s) \cup {x}
BY AppendProperties, LenProperties DEF Elems

LEMMA ElemsConcat ==
    ASSUME NEW S, NEW s \in Seq(S), NEW t \in Seq(S)
    PROVE  Elems(s \o t) = Elems(s) \cup Elems(t)
<1>. DEFINE m == Len(s)
            n == Len(t)
<1>1. m \in Nat /\ n \in Nat
  BY LenProperties
<1>2. /\ Len(s \o t) = m + n
      /\ \A i \in 1..(m + n) : (s \o t)[i] = IF i <= m THEN s[i] ELSE t[i - m]
  BY ConcatProperties
<1>3. ASSUME NEW i \in 1..n PROVE i + m \in 1..(m + n) /\ (s \o t)[i + m] = t[i]
  <2>1. i + m \in 1..(m + n) /\ ~(i + m <= m) /\ (i + m) - m = i
    BY <1>1
  <2>. QED
    BY <1>2, <2>1
<1>4. ASSUME NEW i \in 1..m PROVE i \in 1..(m + n) /\ (s \o t)[i] = s[i]
  BY <1>1, <1>2
<1>5. Elems(s) \cup Elems(t) \subseteq Elems(s \o t)
  <2>1. Elems(s \o t) = {(s \o t)[i] : i \in 1..(m + n)}
    BY <1>2 DEF Elems
  <2>2. ASSUME NEW i \in 1..m PROVE s[i] \in Elems(s \o t)
    BY <1>4, <2>1
  <2>3. ASSUME NEW i \in 1..n PROVE t[i] \in Elems(s \o t)
    BY <1>3, <2>1
  <2>. QED
    BY <2>2, <2>3 DEF Elems
<1>6. ASSUME NEW i \in 1..(m + n) PROVE (s \o t)[i] \in Elems(s) \cup Elems(t)
  <2>1. CASE i <= m
    BY <1>1, <1>4, <2>1 DEF Elems
  <2>2. CASE ~(i <= m)
    <3>1. i - m \in 1..n
      BY <1>1, <2>2
    <3>. QED
      BY <1>2, <2>2, <3>1 DEF Elems
  <2>. QED
    BY <2>1, <2>2
<1>. QED
  BY <1>2, <1>5, <1>6 DEF Elems

LEMMA ListedConcat ==
    ASSUME NEW S, NEW s \in Seq(S), NEW t \in Seq(S), Unrepeated(s), Unrepeated(t),
           Elems(s) \cap Elems(t) = {}
    PROVE  Unrepeated(s \o t)
<1>. DEFINE m == Len(s)
            n == Len(t)
<1>1. m \in Nat /\ n \in Nat
  BY LenProperties
<1>2. /\ Len(s \o t) = m + n
      /\ \A i \in 1..(m + n) : (s \o t)[i] = IF i <= m THEN s[i] ELSE t[i - m]
  BY ConcatProperties
<1>. SUFFICES ASSUME NEW i \in 1..(m + n), NEW j \in 1..(m + n),
                     (s \o t)[i] = (s \o t)[j]
              PROVE  i = j
  BY <1>2 DEF Unrepeated
<1>3. CASE i <= m /\ j <= m
  BY <1>1, <1>2, <1>3 DEF Unrepeated
<1>4. CASE ~(i <= m) /\ ~(j <= m)
  <2>1. i - m \in 1..n /\ j - m \in 1..n
    BY <1>1, <1>4
  <2>2. t[i - m] = t[j - m]
    BY <1>2, <1>4
  <2>3. i - m = j - m
    BY <2>1, <2>2 DEF Unrepeated
  <2>. QED
    BY <1>1, <2>3
<1>5. CASE i <= m /\ ~(j <= m)
  <2>1. i \in 1..m /\ j - m \in 1..n
    BY <1>1, <1>5
  <2>2. s[i] = t[j - m]
    BY <1>2, <1>5
  <2>. QED
    BY <2>1, <2>2 DEF Elems
<1>6. CASE ~(i <= m) /\ j <= m
  <2>1. j \in 1..m /\ i - m \in 1..n
    BY <1>1, <1>6
  <2>2. s[j] = t[i - m]
    BY <1>2, <1>6
  <2>. QED
    BY <2>1, <2>2 DEF Elems
<1>. QED
  BY <1>3, <1>4, <1>5, <1>6

LEMMA ListedAppend ==
    ASSUME NEW S, NEW s \in Seq(S), NEW x \in S, Unrepeated(s), x \notin Elems(s)
    PROVE  Unrepeated(Append(s, x))
<1>1. Len(s) \in Nat /\ Len(Append(s, x)) = Len(s) + 1
  BY AppendProperties, LenProperties
<1>2. /\ \A i \in 1..Len(s) : Append(s, x)[i] = s[i]
      /\ Append(s, x)[Len(s) + 1] = x
  BY AppendProperties
<1>3. \A i \in 1..(Len(s) + 1) : i \in 1..Len(s) \/ i = Len(s) + 1
  BY <1>1
<1>. QED
  BY <1>1, <1>2, <1>3 DEF Unrepeated, Elems

\* Taking the head off a sequence without repetition takes one element away.
LEMMA ListedTail ==
    ASSUME NEW S, NEW s \in Seq(S), s # <<>>, Unrepeated(s)
    PROVE  /\ Unrepeated(Tail(s)) /\ Head(s) \in Elems(s)
           /\ Elems(Tail(s)) = Elems(s) \ {Head(s)}
<1>. DEFINE n == Len(s)
<1>1. n \in Nat \ {0}
  BY EmptySeq
<1>2. /\ Len(Tail(s)) = n - 1 /\ Head(s) = s[1]
      /\ \A i \in 1..(n - 1) : Tail(s)[i] = s[i + 1]
  BY HeadTailProperties
<1>3. Unrepeated(Tail(s))
  <2>. SUFFICES ASSUME NEW i \in 1..(n - 1), NEW j \in 1..(n - 1), Tail(s)[i] = Tail(s)[j]
                PROVE  i = j
    BY <1>2 DEF Unrepeated
  <2>1. i + 1 \in 1..n /\ j + 1 \in 1..n /\ s[i + 1] = s[j + 1]
    BY <1>1, <1>2
  <2>2. i + 1 = j + 1
    BY <2>1 DEF Unrepeated
  <2>. QED
    BY <2>2
<1>4. Head(s) \in Elems(s)
  BY <1>1, <1>2 DEF Elems
<1>5. ASSUME NEW i \in 1..(n - 1) PROVE Tail(s)[i] \in Elems(s) \ {Head(s)}
  <2>1. i + 1 \in 1..n /\ 1 \in 1..n /\ i + 1 # 1
    BY <1>1
  <2>2. s[i + 1] # s[1]
    BY <2>1 DEF Unrepeated
  <2>. QED
    BY <1>2, <2>1, <2>2 DEF Elems
<1>6. ASSUME NEW i \in 1..n, s[i] # Head(s) PROVE s[i] \in Elems(Tail(s))
  <2>1. i - 1 \in 1..(n - 1) /\ (i - 1) + 1 = i
    BY <1>1, <1>2, <1>6
  <2>. QED
    BY <1>2, <2>1 DEF Elems
<1>7. Elems(Tail(s)) = Elems(s) \ {Head(s)}
  BY <1>2, <1>5, <1>6 DEF Elems
<1>. QED
  BY <1>3, <1>4, <1>7

LEMMA ListingFacts ==
    ASSUME NEW S, IsFiniteSet(S), NEW s \in Listings(S)
    PROVE  s \in Seq(S) /\ Unrepeated(s) /\ Elems(s) = S /\ Len(s) = Cardinality(S)
<1>1. Cardinality(S) \in Nat
  BY FS_CardinalityType
<1>2. s \in Seq(S) /\ Len(s) = Cardinality(S)
  BY <1>1 DEF Listings
<1>3. s \in Injection(1..Cardinality(S), S)
  BY DEF Listings, Injection, IsInjective
<1>4. IsFiniteSet(1..Cardinality(S)) /\ Cardinality(1..Cardinality(S)) = Cardinality(S)
  BY <1>1, FS_Interval
<1>5. s \in Surjection(1..Cardinality(S), S)
  BY <1>3, <1>4, FS_Injection
<1>. QED
  BY <1>2, <1>5 DEF Listings, Unrepeated, Elems, Surjection

-----------------------------------------------------------------------------
(* Cycles. *)

LEMMA TrappedIntro ==
    ASSUME NEW ls, NEW C \in SUBSET Activities,
           \A c \in C : \E e \in ls : e.to = c /\ e.from \in C
    PROVE  C \subseteq Trapped(ls)
BY DEF Trapped

LEMMA TrappedElim ==
    ASSUME NEW ls, NEW a \in Trapped(ls)
    PROVE  a \in Activities /\ \E e \in ls : e.to = a /\ e.from \in Trapped(ls)
<1>1. PICK C \in SUBSET Activities :
          /\ a \in C
          /\ \A c \in C : \E e \in ls : e.to = c /\ e.from \in C
  BY DEF Trapped
<1>2. C \subseteq Trapped(ls)
  BY <1>1, TrappedIntro
<1>. QED
  BY <1>1, <1>2

-----------------------------------------------------------------------------
(* What the request becomes. *)

LEMMA AdjacencyType ==
    ASSUME NEW r \in Requests
    PROVE  Adjacency(r) \subseteq Link /\ IsFiniteSet(Adjacency(r))
<1>. DEFINE S == {e \in r : e.from \in Activities /\ e.to \in Activities /\ e.from # e.to}
            f == [e \in S |-> [e EXCEPT !.rel = Relation(e.rel)]]
<1>1. S \subseteq RawLink /\ IsFiniteSet(S)
  BY RequestAssumption, FS_Subset
<1>2. ASSUME NEW e \in S PROVE f[e] \in Link
  BY <1>1 DEF RawLink, Link, Relation, Relations
<1>3. Adjacency(r) = {f[e] : e \in S}
  BY DEF Adjacency
<1>4. f \in Surjection(S, Adjacency(r))
  BY <1>3 DEF Surjection
<1>. QED
  BY <1>1, <1>2, <1>3, <1>4, FS_Surjection

-----------------------------------------------------------------------------
(* The inductive invariant: while the sort runs, in_deg counts the links from *)
(* activities not yet visited, the queue and topo hold exactly the activities *)
(* whose count is zero, and every visited activity comes after all its        *)
(* predecessors.                                                              *)

KahnInv ==
    /\ adjacency = Adjacency(request)
    /\ Unrepeated(topo) /\ Unrepeated(queue) /\ Elems(queue) \cap visited = {}
    /\ \A s \in Activities : in_deg[s] = Cardinality(Pending(s))
    /\ \A s \in Activities : in_deg[s] = 0 <=> s \in visited \cup Elems(queue)
    /\ \A e \in adjacency : \A j \in 1..Len(topo) : topo[j] = e.to =>
          \E i \in 1..Len(topo) : i < j /\ topo[i] = e.from
    /\ visited \cap Trapped(adjacency) = {}

DagInv ==
    /\ DagTypeOK /\ QueuedOnce
    /\ dagStep = "read" => topo = <<>> /\ queue = <<>>
    /\ dagStep = "kahn" => KahnInv
    /\ SnapshotWellFormed /\ LossOnlyAmongTrapped /\ TrappedLast

LEMMA ActivitiesFinite == IsFiniteSet(Activities) /\ Cardinality(Activities) = N
  BY SizeAssumption, FS_Interval DEF Activities

\* A count is zero exactly when no link is pending.
LEMMA PendingZero ==
    ASSUME IsFiniteSet(adjacency), NEW s
    PROVE  /\ IsFiniteSet(Pending(s))
           /\ Cardinality(Pending(s)) \in Nat
           /\ Cardinality(Pending(s)) = 0 <=> Pending(s) = {}
<1>1. Pending(s) \subseteq adjacency
  BY DEF Pending
<1>. QED
  BY <1>1, FS_Subset, FS_EmptySet, FS_CardinalityType

LEMMA ReadKeeps == DagInv /\ ReadLinks => DagInv'
<1>. SUFFICES ASSUME DagInv, ReadLinks PROVE DagInv'
  OBVIOUS
<1>. DEFINE Z == {s \in Activities : in_deg'[s] = 0}
<1>1. /\ dagStep = "read" /\ dagStep' = "kahn" /\ request' = request /\ topo' = topo
      /\ adjacency' = Adjacency(request) /\ topo = <<>>
      /\ in_deg' = [s \in Activities |-> Cardinality({e \in adjacency' : e.to = s})]
      /\ queue' \in Ascending(Z)
  BY DEF ReadLinks, DagInv
<1>2. adjacency' \subseteq Link /\ IsFiniteSet(adjacency') /\ request \in Requests
  BY <1>1, AdjacencyType DEF DagInv, DagTypeOK
<1>3. Elems(topo) = {} /\ Len(topo) = 0 /\ topo \in Seq(Activities)
  BY <1>1 DEF Elems
<1>4. IsFiniteSet(Z)
  BY ActivitiesFinite, FS_Subset
<1>5. queue' \in Seq(Z) /\ Unrepeated(queue') /\ Elems(queue') = Z
  BY <1>1, <1>4, ListingFacts DEF Ascending
<1>6. queue' \in Seq(Activities)
  BY <1>5, SeqMonotonic
<1>7. ASSUME NEW s \in Activities
      PROVE  in_deg'[s] = Cardinality(Pending(s)') /\ in_deg'[s] \in Nat
  <2>1. Pending(s)' = {e \in adjacency' : e.to = s}
    BY <1>1, <1>3 DEF Pending, visited
  <2>2. IsFiniteSet({e \in adjacency' : e.to = s})
    BY <1>2, FS_Subset
  <2>. QED
    BY <1>1, <2>1, <2>2, FS_CardinalityType
<1>8. DagTypeOK'
  BY <1>1, <1>2, <1>3, <1>6, <1>7 DEF DagTypeOK
<1>9. KahnInv'
  <2>1. visited' = {} /\ Unrepeated(topo') /\ Len(topo') = 0
    BY <1>1, <1>3 DEF visited, Unrepeated
  <2>2. \A s \in Activities : in_deg'[s] = 0 <=> s \in visited' \cup Elems(queue')
    BY <1>5, <2>1
  <2>. QED
    BY <1>1, <1>5, <1>7, <2>1, <2>2 DEF KahnInv
<1>. QED
  BY <1>1, <1>3, <1>5, <1>8, <1>9
  DEF DagInv, QueuedOnce, SnapshotWellFormed, LossOnlyAmongTrapped, TrappedLast,
      Unrepeated, Elems, visited

LEMMA VisitKeeps == DagInv /\ Visit => DagInv'
<1>. SUFFICES ASSUME DagInv, Visit PROVE DagInv'
  OBVIOUS
<1>. DEFINE node == Head(queue)
            FromHere(s) == {e \in adjacency : e.from = node /\ e.to = s}
            R == {s \in Activities : /\ \E e \in adjacency : e.from = node /\ e.to = s
                                     /\ in_deg'[s] = 0}
<1>1. /\ dagStep = "kahn" /\ dagStep' = "kahn" /\ queue # <<>>
      /\ request' = request /\ adjacency' = adjacency /\ topo' = Append(topo, node)
      /\ in_deg' = [s \in Activities |-> in_deg[s] - Cardinality(FromHere(s))]
  BY DEF Visit
<1>2. PICK ready \in Listings(R) : queue' = Tail(queue) \o ready
  BY DEF Visit, Ready
<1>3. DagTypeOK /\ KahnInv
  BY <1>1 DEF DagInv
<1>4. queue \in Seq(Activities) /\ topo \in Seq(Activities) /\ IsFiniteSet(adjacency)
  BY <1>3 DEF DagTypeOK
<1>5. /\ node \in Activities /\ Tail(queue) \in Seq(Activities)
      /\ Unrepeated(Tail(queue)) /\ node \in Elems(queue)
      /\ Elems(Tail(queue)) = Elems(queue) \ {node}
  BY <1>1, <1>3, <1>4, ListedTail, HeadTailProperties DEF KahnInv
<1>6. node \notin visited /\ Pending(node) = {}
  BY <1>3, <1>4, <1>5, PendingZero DEF KahnInv
<1>7. topo' \in Seq(Activities) /\ visited' = visited \cup {node} /\ Unrepeated(topo')
  BY <1>1, <1>3, <1>4, <1>5, <1>6, ElemsAppend, ListedAppend, AppendProperties
  DEF KahnInv, visited
<1>8. ASSUME NEW s \in Activities
      PROVE  in_deg'[s] = Cardinality(Pending(s)') /\ in_deg'[s] \in Nat
  <2>1. FromHere(s) \subseteq Pending(s) /\ Pending(s)' = Pending(s) \ FromHere(s)
    BY <1>1, <1>6, <1>7 DEF Pending
  <2>2. IsFiniteSet(Pending(s)) /\ in_deg[s] = Cardinality(Pending(s))
    BY <1>3, <1>4, PendingZero DEF KahnInv
  <2>3. /\ Pending(s) \cap FromHere(s) = FromHere(s)
        /\ IsFiniteSet(Pending(s) \ FromHere(s))
        /\ Cardinality(Pending(s) \ FromHere(s)) = Cardinality(Pending(s)) - Cardinality(Pending(s) \cap FromHere(s))
    BY <2>1, <2>2, FS_Difference
  <2>4. Cardinality(Pending(s)') = in_deg[s] - Cardinality(FromHere(s))
    BY <2>1, <2>2, <2>3
  <2>5. Cardinality(Pending(s)') \in Nat
    BY <2>1, <2>3, FS_CardinalityType
  <2>. QED
    BY <1>1, <2>4, <2>5
\* The activities that join the queue had a pending link before.
<1>9. /\ R \subseteq Activities /\ IsFiniteSet(R)
      /\ ready \in Seq(Activities) /\ Unrepeated(ready) /\ Elems(ready) = R
  <2>1. R \subseteq Activities /\ IsFiniteSet(R)
    BY ActivitiesFinite, FS_Subset
  <2>. QED
    BY <1>2, <2>1, ListingFacts, SeqMonotonic
<1>10. ASSUME NEW s \in R PROVE s \notin visited \cup Elems(queue)
  <2>1. PICK e \in adjacency : e.from = node /\ e.to = s
    OBVIOUS
  <2>2. e \in Pending(s)
    BY <1>6, <2>1 DEF Pending
  <2>3. in_deg[s] # 0
    BY <1>3, <1>4, <2>2, PendingZero DEF KahnInv
  <2>. QED
    BY <1>3, <2>3 DEF KahnInv
<1>11. /\ queue' \in Seq(Activities) /\ Unrepeated(queue')
       /\ Elems(queue') = (Elems(queue) \ {node}) \cup R
  <2>1. Elems(Tail(queue)) \cap Elems(ready) = {}
    BY <1>5, <1>9, <1>10
  <2>2. Unrepeated(Tail(queue) \o ready)
    BY <1>5, <1>9, <2>1, ListedConcat
  <2>3. Tail(queue) \o ready \in Seq(Activities)
    BY <1>5, <1>9, ConcatProperties
  <2>4. Elems(Tail(queue) \o ready) = Elems(Tail(queue)) \cup Elems(ready)
    <3>1. Tail(queue) \in Seq(Activities) /\ ready \in Seq(Activities)
      BY <1>5, <1>9
    <3>. HIDE DEF R
    <3>. QED
      BY <3>1, ElemsConcat
  <2>5. Elems(Tail(queue) \o ready) = (Elems(queue) \ {node}) \cup R
    BY <1>5, <1>9, <2>4
  <2>. QED
    BY <1>2, <2>2, <2>3, <2>5
<1>12. DagTypeOK'
  BY <1>1, <1>3, <1>7, <1>8, <1>11 DEF DagTypeOK
<1>13. Elems(queue') \cap visited' = {}
  BY <1>3, <1>7, <1>10, <1>11, <1>5 DEF KahnInv
<1>14. ASSUME NEW s \in Activities
       PROVE  in_deg'[s] = 0 <=> s \in visited' \cup Elems(queue')
  <2>1. CASE \E e \in adjacency : e.from = node /\ e.to = s
    <3>1. PICK e \in adjacency : e.from = node /\ e.to = s
      BY <2>1
    <3>2. e \in Pending(s)
      BY <1>6, <3>1 DEF Pending
    <3>3. in_deg[s] # 0
      BY <1>3, <1>4, <3>2, PendingZero DEF KahnInv
    <3>4. s \notin visited \cup Elems(queue)
      BY <1>3, <3>3 DEF KahnInv
    <3>. QED
      BY <1>5, <1>7, <1>11, <2>1, <3>4
  <2>2. CASE ~\E e \in adjacency : e.from = node /\ e.to = s
    <3>1. FromHere(s) = {} /\ in_deg[s] \in Nat
      BY <1>3, <2>2 DEF DagTypeOK
    <3>2. in_deg'[s] = in_deg[s]
      BY <1>1, <3>1, FS_EmptySet
    <3>. QED
      BY <1>3, <1>5, <1>7, <1>11, <2>2, <3>2 DEF KahnInv
  <2>. QED
    BY <2>1, <2>2
<1>15. ASSUME NEW e \in adjacency, NEW j \in 1..Len(topo'), topo'[j] = e.to
       PROVE  \E i \in 1..Len(topo') : i < j /\ topo'[i] = e.from
  <2>1. /\ Len(topo) \in Nat /\ Len(topo') = Len(topo) + 1
        /\ \A i \in 1..Len(topo) : topo'[i] = topo[i]
        /\ topo'[Len(topo) + 1] = node
    BY <1>1, <1>4, <1>5, AppendProperties, LenProperties
  <2>2. CASE j \in 1..Len(topo)
    <3>1. PICK i \in 1..Len(topo) : i < j /\ topo[i] = e.from
      BY <1>3, <1>15, <2>1, <2>2 DEF KahnInv
    <3>. QED
      BY <2>1, <3>1
  <2>3. CASE j = Len(topo) + 1
    <3>1. e.to = node
      BY <1>15, <2>1, <2>3
    <3>2. e.from \in visited
      BY <1>6, <3>1 DEF Pending
    <3>3. PICK i \in 1..Len(topo) : topo[i] = e.from
      BY <3>2 DEF visited, Elems
    <3>. QED
      BY <2>1, <2>3, <3>3
  <2>. QED
    BY <2>1, <2>2, <2>3
<1>16. node \notin Trapped(adjacency)
  <2>. SUFFICES ASSUME node \in Trapped(adjacency) PROVE FALSE
    OBVIOUS
  <2>1. PICK e \in adjacency : e.to = node /\ e.from \in Trapped(adjacency)
    BY TrappedElim
  <2>2. e.from \in visited
    BY <1>6, <2>1 DEF Pending
  <2>. QED
    BY <1>3, <2>1, <2>2 DEF KahnInv
<1>17. KahnInv'
  <2>1. adjacency' = Adjacency(request') /\ visited' \cap Trapped(adjacency') = {}
    BY <1>1, <1>3, <1>7, <1>16 DEF KahnInv
  <2>2. \A e \in adjacency' : \A j \in 1..Len(topo') : topo'[j] = e.to =>
          \E i \in 1..Len(topo') : i < j /\ topo'[i] = e.from
    BY <1>1, <1>15
  <2>. QED
    BY <1>7, <1>8, <1>11, <1>13, <1>14, <2>1, <2>2 DEF KahnInv
<1>18. QueuedOnce'
  BY <1>11, <1>13 DEF QueuedOnce, Unrepeated
<1>. QED
  BY <1>1, <1>12, <1>17, <1>18
  DEF DagInv, SnapshotWellFormed, LossOnlyAmongTrapped, TrappedLast

LEMMA FinishKeeps == DagInv /\ FinishAcyclic => DagInv'
<1>. SUFFICES ASSUME DagInv, FinishAcyclic PROVE DagInv'
  OBVIOUS
<1>1. /\ dagStep = "kahn" /\ dagStep' = "done" /\ queue = <<>> /\ Len(topo) = N
      /\ request' = request /\ adjacency' = adjacency /\ in_deg' = in_deg
      /\ queue' = queue /\ topo' = topo
  BY DEF FinishAcyclic
<1>2. DagTypeOK /\ KahnInv /\ QueuedOnce
  BY <1>1 DEF DagInv
<1>3. topo \in Seq(Activities)
  BY <1>2 DEF DagTypeOK
<1>4. visited = Activities
  <2>1. visited \subseteq Activities
    BY <1>3, ElemsOfSeq DEF visited
  <2>2. Cardinality(visited) = Cardinality(Activities)
    BY <1>1, <1>2, <1>3, ListedCardinality, ActivitiesFinite DEF visited, KahnInv
  <2>. QED
    BY <2>1, <2>2, ActivitiesFinite, FS_Subset
<1>5. WellFormed([order |-> topo, links |-> adjacency])
  <2>1. topo \in [1..N -> Activities]
    BY <1>1, <1>3, LenProperties
  <2>2. \A j \in Activities : \E i \in 1..N : topo[i] = j
    BY <1>1, <1>4 DEF visited, Elems
  <2>3. \A i, j \in 1..N : topo[i] = topo[j] => i = j
    BY <1>1, <1>2 DEF KahnInv, Unrepeated
  <2>4. ASSUME NEW e \in adjacency, NEW i \in 1..N, NEW j \in 1..N,
               topo[i] = e.from, topo[j] = e.to
        PROVE  i < j
    <3>1. PICK k \in 1..N : k < j /\ topo[k] = e.from
      BY <1>1, <1>2, <2>4 DEF KahnInv
    <3>. QED
      BY <2>3, <2>4, <3>1
  <2>5. adjacency \subseteq Link
    BY <1>2 DEF DagTypeOK
  <2>. QED
    BY <2>1, <2>2, <2>3, <2>4, <2>5 DEF WellFormed
<1>6. Trapped(adjacency) = {}
  <2>1. Trapped(adjacency) \subseteq Activities
    BY DEF Trapped
  <2>. QED
    BY <1>2, <1>4, <2>1 DEF KahnInv
<1>7. DagTypeOK' /\ QueuedOnce'
  BY <1>1, <1>2 DEF DagTypeOK, QueuedOnce
<1>8. SnapshotWellFormed'
  BY <1>1, <1>5 DEF SnapshotWellFormed
<1>9. LossOnlyAmongTrapped' /\ TrappedLast'
  BY <1>1, <1>2, <1>6 DEF LossOnlyAmongTrapped, TrappedLast, KahnInv
<1>. QED
  BY <1>1, <1>7, <1>8, <1>9 DEF DagInv

LEMMA BreakKeeps == DagInv /\ BreakCycles => DagInv'
<1>. SUFFICES ASSUME DagInv, BreakCycles PROVE DagInv'
  OBVIOUS
<1>. DEFINE rest == Activities \ visited
            m == Len(topo)
<1>1. /\ dagStep = "kahn" /\ dagStep' = "done" /\ queue = <<>> /\ queue' = queue
      /\ request' = request /\ adjacency' = Forward(topo', adjacency) /\ in_deg' = in_deg
  BY DEF BreakCycles
<1>2. PICK last \in Ascending(rest) : topo' = topo \o last
  BY DEF BreakCycles
<1>3. DagTypeOK /\ KahnInv /\ QueuedOnce
  BY <1>1 DEF DagInv
<1>4. topo \in Seq(Activities) /\ visited \subseteq Activities /\ IsFiniteSet(rest)
  BY <1>3, ElemsOfSeq, ActivitiesFinite, FS_Subset DEF DagTypeOK, visited
<1>5. last \in Seq(Activities) /\ Unrepeated(last) /\ Elems(last) = rest
  BY <1>2, <1>4, ListingFacts, SeqMonotonic DEF Ascending
<1>6. /\ topo' \in Seq(Activities) /\ Unrepeated(topo') /\ Elems(topo') = Activities
  <2>1. Elems(topo) \cap Elems(last) = {} /\ Elems(topo) \cup Elems(last) = Activities
    BY <1>4, <1>5 DEF visited
  <2>2. Unrepeated(topo \o last)
    BY <1>3, <1>4, <1>5, <2>1, ListedConcat DEF KahnInv
  <2>. QED
    BY <1>2, <1>4, <1>5, <2>1, <2>2, ElemsConcat, ConcatProperties
<1>7. Len(topo') = N
  BY <1>6, ListedCardinality, ActivitiesFinite
<1>8. /\ topo' \in [1..N -> Activities]
      /\ \A j \in Activities : \E i \in 1..N : topo'[i] = j
      /\ \A i, j \in 1..N : topo'[i] = topo'[j] => i = j
  BY <1>6, <1>7, LenProperties DEF Elems, Unrepeated
\* Where the two parts of the order lie.
<1>9. /\ m \in Nat /\ m <= N
      /\ \A i \in 1..m : i \in 1..N /\ topo'[i] = topo[i]
      /\ \A i \in 1..N : i > m => topo'[i] \in rest
      /\ \A i \in 1..N : i <= m => topo'[i] \in visited
  <2>1. /\ m \in Nat /\ Len(last) \in Nat /\ N = m + Len(last)
        /\ \A i \in 1..N : topo'[i] = IF i <= m THEN topo[i] ELSE last[i - m]
    BY <1>2, <1>4, <1>5, <1>7, LenProperties, ConcatProperties
  <2>2. \A i \in 1..N : i > m => i - m \in 1..Len(last)
    BY <2>1
  <2>3. \A i \in 1..N : i > m => topo'[i] \in rest
    BY <1>5, <2>1, <2>2 DEF Elems
  <2>4. \A i \in 1..N : i <= m => topo'[i] \in visited
    BY <2>1 DEF visited, Elems
  <2>. QED
    BY <2>1, <2>3, <2>4
<1>10. adjacency' \subseteq adjacency
  BY <1>1 DEF Forward
<1>11. DagTypeOK'
  BY <1>1, <1>3, <1>6, <1>10, FS_Subset DEF DagTypeOK
<1>12. SnapshotWellFormed'
  <2>1. adjacency' \subseteq Link
    BY <1>11 DEF DagTypeOK
  <2>2. ASSUME NEW e \in adjacency', NEW i \in 1..N, NEW j \in 1..N,
               topo'[i] = e.from, topo'[j] = e.to
        PROVE  i < j
    <3>1. PICK a, b \in 1..N : topo'[a] = e.from /\ topo'[b] = e.to /\ a < b
      BY <1>1 DEF Forward
    <3>2. a = i /\ b = j
      BY <1>8, <2>2, <3>1
    <3>. QED
      BY <3>1, <3>2
  <2>. QED
    BY <1>8, <2>1, <2>2 DEF SnapshotWellFormed, WellFormed
\* An activity the sort did not reach has a predecessor it did not reach.
<1>13. rest \subseteq Trapped(adjacency)
  <2>1. ASSUME NEW c \in rest PROVE \E e \in adjacency : e.to = c /\ e.from \in rest
    <3>1. in_deg[c] # 0
      BY <1>1, <1>3 DEF KahnInv, Elems
    <3>2. Pending(c) # {}
      BY <1>3, <3>1, PendingZero DEF KahnInv, DagTypeOK
    <3>3. PICK e \in adjacency : e.to = c /\ e.from \notin visited
      BY <3>2 DEF Pending
    <3>4. e.from \in Activities
      BY <1>3 DEF DagTypeOK, Link
    <3>. QED
      BY <3>3, <3>4
  <2>. QED
    BY <2>1, TrappedIntro
<1>14. LossOnlyAmongTrapped'
  <2>. SUFFICES ASSUME NEW e \in adjacency, e \notin adjacency'
                PROVE  e.from \in rest /\ e.to \in rest
    BY <1>1, <1>3, <1>13 DEF LossOnlyAmongTrapped, KahnInv
  <2>1. e.from \in Activities /\ e.to \in Activities
    BY <1>3 DEF DagTypeOK, Link
  <2>2. PICK a, b \in 1..N : topo'[a] = e.from /\ topo'[b] = e.to
    BY <1>8, <2>1
  <2>3. ~(a < b)
    BY <1>1, <2>2 DEF Forward
  <2>4. b > m
    <3>. SUFFICES ASSUME b \in 1..m PROVE FALSE
      BY <1>9
    <3>1. topo[b] = e.to
      BY <1>9, <2>2
    <3>2. PICK i \in 1..m : i < b /\ topo[i] = e.from
      BY <1>3, <3>1 DEF KahnInv
    <3>3. topo'[i] = e.from /\ i \in 1..N
      BY <1>9, <3>2
    <3>4. i = a
      BY <1>8, <2>2, <3>3
    <3>. QED
      BY <2>3, <3>2, <3>4
  <2>5. a > m
    BY <1>9, <2>3, <2>4
  <2>. QED
    BY <1>9, <2>2, <2>4, <2>5
<1>15. TrappedLast'
  <2>. SUFFICES ASSUME NEW i \in 1..N, NEW j \in 1..N, topo'[i] \in Trapped(adjacency), i < j
                PROVE  topo'[j] \in Trapped(adjacency)
    BY <1>1, <1>3 DEF TrappedLast, KahnInv
  <2>1. i > m
    BY <1>3, <1>9 DEF KahnInv
  <2>2. j > m
    BY <1>9, <2>1
  <2>. QED
    BY <1>9, <1>13, <2>2
<1>16. QueuedOnce'
  BY <1>1, <1>3 DEF QueuedOnce
<1>. QED
  BY <1>1, <1>11, <1>12, <1>14, <1>15, <1>16 DEF DagInv

\* The invariant holds of every run of build_dag.
THEOREM DagInvariance == DagSpec => []DagInv
<1>1. DagInit => DagInv
  <2>. SUFFICES ASSUME DagInit PROVE DagInv
    OBVIOUS
  <2>1. DagTypeOK
    BY FS_EmptySet DEF DagInit, DagTypeOK
  <2>2. Len(queue) = 0 /\ QueuedOnce
    BY DEF DagInit, QueuedOnce
  <2>. QED
    BY <2>1, <2>2 DEF DagInit, DagInv, SnapshotWellFormed, LossOnlyAmongTrapped, TrappedLast
<1>2. DagInv /\ UNCHANGED dagVars => DagInv'
  <2>. SUFFICES ASSUME DagInv, UNCHANGED dagVars PROVE DagInv'
    OBVIOUS
  <2>1. /\ request' = request /\ adjacency' = adjacency /\ in_deg' = in_deg
        /\ queue' = queue /\ topo' = topo /\ dagStep' = dagStep
    BY DEF dagVars
  <2>2. visited' = visited /\ \A s : Pending(s)' = Pending(s)
    BY <2>1 DEF visited, Pending
  <2>3. DagTypeOK' /\ QueuedOnce'
    BY <2>1, <2>2 DEF DagInv, DagTypeOK, QueuedOnce
  <2>4. (dagStep' = "kahn" => KahnInv') /\ (dagStep' = "read" => topo' = <<>> /\ queue' = <<>>)
    BY <2>1, <2>2 DEF DagInv, KahnInv
  <2>5. SnapshotWellFormed' /\ LossOnlyAmongTrapped' /\ TrappedLast'
    BY <2>1 DEF DagInv, SnapshotWellFormed, LossOnlyAmongTrapped, TrappedLast
  <2>. QED
    BY <2>3, <2>4, <2>5 DEF DagInv
<1>3. DagInv /\ [DagNext]_dagVars => DagInv'
  BY <1>2, ReadKeeps, VisitKeeps, FinishKeeps, BreakKeeps DEF DagNext
<1>. QED
  BY <1>1, <1>3, PTL DEF DagSpec

\* build_dag keeps its types: links stay between known activities.
THEOREM DagTypeCorrect == DagSpec => []DagTypeOK
  BY DagInvariance, PTL DEF DagInv

\* The visited check of the sort's loop is dead code.
THEOREM NeverRequeued == DagSpec => []QueuedOnce
  BY DagInvariance, PTL DEF DagInv

\* What build_dag hands to run_cpm, for every request: a permutation of the
\* activities in which every kept link goes forward.  It is what Cpm assumes.
THEOREM SnapshotIsOrdered == DagSpec => []SnapshotWellFormed
  BY DagInvariance, PTL DEF DagInv

\* Only links between activities on or downstream of a cycle are ever lost.
THEOREM LossIsConfined == DagSpec => []LossOnlyAmongTrapped
  BY DagInvariance, PTL DEF DagInv

\* The sort reaches exactly the activities that no cycle leads to.
THEOREM ReachesTheRest == DagSpec => []TrappedLast
  BY DagInvariance, PTL DEF DagInv

\* Whatever cycles a request has, breaking them costs what it must and no more.
THEOREM BreakingIsSound == DagSpec => []CyclesBroken
<1>1. SnapshotWellFormed /\ LossOnlyAmongTrapped /\ TrappedLast => CyclesBroken
  BY DEF CyclesBroken
<1>. QED
  BY <1>1, SnapshotIsOrdered, LossIsConfined, ReachesTheRest, PTL

-----------------------------------------------------------------------------
(***************************************************************************)
(* SanitisedGraph.                                                         *)
(***************************************************************************)

Onwards(es, C) == \A f \in es : f.from \in C => f.to \in C

\* While links are removed and milestones tied, no risk has been passed yet;
\* what has been removed closed a cycle of the request.
RemovalInv ==
    /\ metricsRequest \in MetricsRequests /\ edges \subseteq Hop
    /\ sanitiseStep \in {"remove", "connect", "propagate", "done"}
    /\ sanitiseStep \in {"remove", "connect"} =>
         /\ edges \subseteq metricsRequest.links
         /\ \A e \in removed_edges : OnCycle(metricsRequest.links, e)
         /\ tied = <<>> /\ settled = {} /\ not_converged = {}
    /\ sanitiseStep = "connect" => (cycles_remaining <=> Cyclic(edges))

\* Risk is settled upstream first, and what is settled has its final value.
RiskInv ==
    /\ prop \in [Activities -> SUBSET Activities] /\ settled \subseteq Activities
    /\ sanitiseStep = "done" => settled = Activities
    /\ UNION not_converged \subseteq settled
    /\ ~Cyclic(edges) => not_converged = {}
    /\ \A n \in settled :
         /\ Into(edges, n) \subseteq settled
         /\ prop[n] = IF n \in UNION not_converged THEN {n}
                      ELSE {n} \cup UNION {prop[p] : p \in Into(edges, n)}
         /\ ~Cyclic(edges) => prop[n] = {m \in Activities : Reaches(edges, m, n)}

MetricsInv == RemovalInv /\ BetweenMilestones /\ RiskInv

-----------------------------------------------------------------------------
(* Reachability, as the sets that links do not leave say it. *)

LEMMA ReachesBySets ==
    ASSUME NEW es, NEW u, NEW v
    PROVE  Reaches(es, u, v) <=>
             \A C \in SUBSET Activities : u \in C /\ Onwards(es, C) => v \in C
BY DEF Reaches, OnCycle, Onwards, hop

LEMMA OnCycleReaches ==
    ASSUME NEW es, NEW e
    PROVE  OnCycle(es, e) <=> Reaches(es, e.to, e.from)
BY DEF Reaches, OnCycle, hop

LEMMA ReachesItself ==
    ASSUME NEW es, NEW u
    PROVE  Reaches(es, u, u)
BY ReachesBySets

LEMMA ReachesOn ==
    ASSUME NEW es, NEW u, NEW v, NEW w, Reaches(es, u, v), Reaches(es, v, w)
    PROVE  Reaches(es, u, w)
BY ReachesBySets

LEMMA LinkReaches ==
    ASSUME NEW es, NEW e \in es
    PROVE  Reaches(es, e.from, e.to)
BY ReachesBySets DEF Onwards

LEMMA MoreLinksReach ==
    ASSUME NEW es, NEW fs, es \subseteq fs, NEW u, NEW v, Reaches(es, u, v)
    PROVE  Reaches(fs, u, v)
<1>1. \A C : Onwards(fs, C) => Onwards(es, C)
  BY DEF Onwards
<1>. QED
  BY <1>1, ReachesBySets

LEMMA LastLink ==
    ASSUME NEW es, es \subseteq Hop, NEW u \in Activities, NEW v \in Activities,
           u # v, Reaches(es, u, v)
    PROVE  \E e \in es : e.to = v /\ Reaches(es, u, e.from)
<1>. DEFINE C == {w \in Activities : w = u \/ \E e \in es : e.to = w /\ Reaches(es, u, e.from)}
<1>1. ASSUME NEW f \in es, f.from \in C PROVE f.to \in C
  <2>1. f.from \in Activities /\ f.to \in Activities
    BY DEF Hop
  <2>2. Reaches(es, u, f.from)
    <3>1. CASE f.from = u
      BY <3>1, ReachesItself
    <3>2. CASE \E e \in es : e.to = f.from /\ Reaches(es, u, e.from)
      <4>1. PICK e \in es : e.to = f.from /\ Reaches(es, u, e.from)
        BY <3>2
      <4>2. Reaches(es, e.from, f.from)
        BY <4>1, LinkReaches
      <4>. QED
        BY <4>1, <4>2, ReachesOn
    <3>. QED
      BY <1>1, <3>1, <3>2
  <2>. QED
    BY <2>1, <2>2
<1>2. C \in SUBSET Activities /\ u \in C /\ Onwards(es, C)
  BY <1>1 DEF Onwards
<1>3. v \in C
  BY <1>2, ReachesBySets
<1>. QED
  BY <1>3

LEMMA FirstLink ==
    ASSUME NEW es, es \subseteq Hop, NEW u \in Activities, NEW v \in Activities,
           u # v, Reaches(es, u, v)
    PROVE  \E e \in es : e.from = u /\ Reaches(es, e.to, v)
<1>. DEFINE C == {w \in Activities : w = u \/ ~Reaches(es, w, v)}
<1>. SUFFICES ASSUME \A e \in es : e.from = u => ~Reaches(es, e.to, v) PROVE FALSE
  OBVIOUS
<1>1. ASSUME NEW f \in es, f.from \in C PROVE f.to \in C
  <2>1. f.from \in Activities /\ f.to \in Activities
    BY DEF Hop
  <2>2. CASE f.from = u
    BY <2>1, <2>2
  <2>3. CASE ~Reaches(es, f.from, v)
    BY <2>1, <2>3, LinkReaches, ReachesOn
  <2>. QED
    BY <1>1, <2>2, <2>3
<1>2. C \in SUBSET Activities /\ u \in C /\ Onwards(es, C)
  BY <1>1 DEF Onwards
<1>3. v \in C
  BY <1>2, ReachesBySets
<1>. QED
  BY <1>3, ReachesItself


LEMMA LeastNat ==
    ASSUME NEW S \in SUBSET Nat, S # {}
    PROVE  \E m \in S : \A k \in S : m <= k
<1>1. PICK m \in S : \A y \in S : <<y, m>> \notin OpToRel(<, Nat)
  BY NatLessThanWellFounded, WFMin
<1>2. \A k \in S : ~(k < m)
  BY <1>1 DEF OpToRel
<1>. QED
  BY <1>2

LEMMA SomeActivities ==
    ASSUME NEW X \in SUBSET Activities
    PROVE  IsFiniteSet(X) /\ Cardinality(X) \in Nat
<1>1. IsFiniteSet(Activities)
  BY SizeAssumption, FS_Interval DEF Activities
<1>2. IsFiniteSet(X)
  BY <1>1, FS_Subset
<1>. QED
  BY <1>2, FS_CardinalityType

\* Among sets of activities one is least: no other is smaller than it.
LEMMA LeastSet ==
    ASSUME NEW X, X # {}, NEW F \in [X -> SUBSET Activities]
    PROVE  \E n \in X : \A m \in X : F[m] \subseteq F[n] => F[m] = F[n]
<1>. DEFINE Counts == {Cardinality(F[n]) : n \in X}
<1>1. \A n \in X : IsFiniteSet(F[n]) /\ Cardinality(F[n]) \in Nat
  BY SomeActivities
<1>2. Counts \in SUBSET Nat /\ Counts # {}
  BY <1>1
<1>3. PICK c \in Counts : \A k \in Counts : c <= k
  <2>. HIDE DEF Counts
  <2>. QED
    BY <1>2, LeastNat
<1>4. PICK n \in X : c = Cardinality(F[n])
  BY <1>3
<1>5. ASSUME NEW m \in X, F[m] \subseteq F[n] PROVE F[m] = F[n]
  <2>1. IsFiniteSet(F[n]) /\ F[m] \in SUBSET F[n]
    BY <1>1, <1>5
  <2>2. Cardinality(F[m]) <= Cardinality(F[n])
    BY <2>1, FS_Subset
  <2>3. Cardinality(F[n]) <= Cardinality(F[m])
    BY <1>3, <1>4
  <2>4. Cardinality(F[n]) = Cardinality(F[m])
    BY <1>1, <2>2, <2>3
  <2>. QED
    BY <2>1, <2>4, FS_Subset
<1>. QED
  BY <1>5

\* Going back for ever within a set, or going on, ends in a cycle.
LEMMA BackForever ==
    ASSUME NEW es, es \subseteq Hop, NEW X \in SUBSET Activities, X # {},
           \A n \in X : \E e \in es : e.to = n /\ e.from \in X
    PROVE  Cyclic(es)
<1>. SUFFICES ASSUME ~Cyclic(es) PROVE FALSE
  OBVIOUS
<1>. DEFINE Met == [n \in X |-> {m \in X : Reaches(es, m, n)}]
<1>1. PICK n \in X : \A m \in X : Met[m] \subseteq Met[n] => Met[m] = Met[n]
  <2>1. Met \in [X -> SUBSET Activities]
    OBVIOUS
  <2>. HIDE DEF Met
  <2>. QED
    BY <2>1, LeastSet
<1>2. PICK e \in es : e.to = n /\ e.from \in X
  OBVIOUS
<1>3. Reaches(es, e.from, e.to) /\ ~Reaches(es, e.to, e.from)
  BY LinkReaches, OnCycleReaches DEF Cyclic
<1>4. Met[e.from] \subseteq Met[n]
  BY <1>2, <1>3, ReachesOn
<1>5. n \in Met[n] /\ n \notin Met[e.from]
  BY <1>2, <1>3, ReachesItself
<1>. QED
  BY <1>1, <1>2, <1>4, <1>5

LEMMA OnForever ==
    ASSUME NEW es, es \subseteq Hop, NEW X \in SUBSET Activities, X # {},
           \A n \in X : \E e \in es : e.from = n /\ e.to \in X
    PROVE  Cyclic(es)
<1>. SUFFICES ASSUME ~Cyclic(es) PROVE FALSE
  OBVIOUS
<1>. DEFINE Met == [n \in X |-> {m \in X : Reaches(es, n, m)}]
<1>1. PICK n \in X : \A m \in X : Met[m] \subseteq Met[n] => Met[m] = Met[n]
  <2>1. Met \in [X -> SUBSET Activities]
    OBVIOUS
  <2>. HIDE DEF Met
  <2>. QED
    BY <2>1, LeastSet
<1>2. PICK e \in es : e.from = n /\ e.to \in X
  OBVIOUS
<1>3. Reaches(es, e.from, e.to) /\ ~Reaches(es, e.to, e.from)
  BY LinkReaches, OnCycleReaches DEF Cyclic
<1>4. Met[e.to] \subseteq Met[n]
  BY <1>2, <1>3, ReachesOn
<1>5. n \in Met[n] /\ n \notin Met[e.to]
  BY <1>2, <1>3, ReachesItself
<1>. QED
  BY <1>1, <1>2, <1>4, <1>5

LEMMA CyclesStay ==
    ASSUME NEW es, NEW fs, es \subseteq fs, Cyclic(es)
    PROVE  Cyclic(fs)
<1>1. PICK e \in es : Reaches(es, e.to, e.from)
  BY OnCycleReaches DEF Cyclic
<1>. QED
  BY <1>1, MoreLinksReach, OnCycleReaches DEF Cyclic

-----------------------------------------------------------------------------
(* Tying what is loose to a start s that nothing leads to and an end t that *)
(* leads nowhere.                                                           *)

Untied(es, s, t) ==
    /\ es \subseteq Hop /\ s \in Activities /\ t \in Activities /\ s # t
    /\ Into(es, s) = {} /\ OutOf(es, t) = {}

LEMMA TyingLinks ==
    ASSUME NEW es, NEW s, NEW t, Untied(es, s, t)
    PROVE  LET fs == FromStart(es, s)  gs == ToEnd(fs, t) IN
           /\ es \subseteq fs /\ fs \subseteq gs /\ gs \subseteq Hop
           /\ \A x \in gs : x \in es \/ x.from = s \/ x.to = t
           /\ \A x \in gs : x.to # s /\ x.from # t
           /\ \A n \in Activities : n # s /\ Into(es, n) = {} => hop(s, n) \in fs
           /\ \A n \in Activities : n # t /\ OutOf(fs, n) = {} => hop(n, t) \in gs
<1>. DEFINE fs == FromStart(es, s)
            gs == ToEnd(fs, t)
<1>1. \A u, v \in Activities : hop(u, v) \in Hop /\ hop(u, v).from = u /\ hop(u, v).to = v
  BY DEF hop, Hop
<1>2. \A x \in fs : x \in es \/ (x \in Hop /\ x.from = s /\ x.to # s)
  BY <1>1 DEF FromStart, Untied
<1>3. \A x \in gs : x \in fs \/ (x \in Hop /\ x.to = t /\ x.from # t)
  BY <1>1 DEF ToEnd, Untied
<1>4. \A x \in es : x.to # s /\ x.from # t
  BY DEF Untied, Into, OutOf
<1>5. es \subseteq fs /\ fs \subseteq gs
  BY DEF FromStart, ToEnd
<1>6. \A n \in Activities : n # s /\ Into(es, n) = {} => hop(s, n) \in fs
  BY DEF FromStart
<1>7. \A n \in Activities : n # t /\ OutOf(fs, n) = {} => hop(n, t) \in gs
  BY DEF ToEnd
<1>8. s # t /\ es \subseteq Hop
  BY DEF Untied
<1>. QED
  BY <1>2, <1>3, <1>4, <1>5, <1>6, <1>7, <1>8

LEMMA TyingClosesNoCycle ==
    ASSUME NEW es, NEW s, NEW t, Untied(es, s, t), ~Cyclic(es)
    PROVE  ~Cyclic(ToEnd(FromStart(es, s), t))
<1>. DEFINE gs == ToEnd(FromStart(es, s), t)
<1>1. /\ gs \subseteq Hop
      /\ \A x \in gs : x \in es \/ x.from = s \/ x.to = t
      /\ \A x \in gs : x.to # s /\ x.from # t
  BY TyingLinks
<1>2. s \in Activities /\ t \in Activities /\ es \subseteq Hop
  BY DEF Untied
<1>. HIDE DEF gs
<1>. SUFFICES ASSUME NEW x \in gs, Reaches(gs, x.to, x.from) PROVE FALSE
  BY OnCycleReaches DEF Cyclic, gs
<1>3. x.to \in Activities /\ x.from \in Activities /\ x.to # s /\ x.from # t
  BY <1>1 DEF Hop
<1>4. CASE x.to = t
  BY <1>1, <1>2, <1>3, <1>4, FirstLink
<1>5. CASE x.from = s
  BY <1>1, <1>2, <1>3, <1>5, LastLink
<1>6. CASE x \in es /\ x.to # t /\ x.from # s
  <2>. SUFFICES ASSUME NEW C \in SUBSET Activities, x.to \in C, Onwards(es, C)
                PROVE  x.from \in C
    BY <1>6, ReachesBySets, OnCycleReaches DEF Cyclic
  <2>. DEFINE D == (C \ {s}) \cup {t}
  <2>1. ASSUME NEW f \in gs, f.from \in D PROVE f.to \in D
    <3>1. f.from # t /\ f.to # s
      BY <1>1
    <3>2. f.from \in C /\ f.from # s
      BY <2>1, <3>1
    <3>3. f.to = t \/ f \in es
      BY <1>1, <3>2
    <3>. QED
      BY <3>1, <3>2, <3>3 DEF Onwards
  <2>2. D \in SUBSET Activities /\ x.to \in D /\ Onwards(gs, D)
    BY <1>2, <1>3, <2>1 DEF Onwards
  <2>3. x.from \in D
    BY <2>2, ReachesBySets
  <2>. QED
    BY <1>3, <2>3
<1>. QED
  BY <1>1, <1>4, <1>5, <1>6

LEMMA TyingReachesAll ==
    ASSUME NEW es, NEW s, NEW t, Untied(es, s, t), ~Cyclic(es), NEW n \in Activities
    PROVE  LET gs == ToEnd(FromStart(es, s), t) IN Reaches(gs, s, n) /\ Reaches(gs, n, t)
<1>. DEFINE fs == FromStart(es, s)
            gs == ToEnd(fs, t)
<1>1. /\ es \subseteq fs /\ fs \subseteq gs /\ gs \subseteq Hop
      /\ \A m \in Activities : m # s /\ Into(es, m) = {} => hop(s, m) \in fs
      /\ \A m \in Activities : m # t /\ OutOf(fs, m) = {} => hop(m, t) \in gs
  BY TyingLinks
<1>2. s \in Activities /\ t \in Activities /\ es \subseteq Hop /\ ~Cyclic(gs)
  BY TyingClosesNoCycle DEF Untied
<1>3. \A u, v : hop(u, v).from = u /\ hop(u, v).to = v
  BY DEF hop
<1>. HIDE DEF fs, gs
<1>4. Reaches(gs, s, n)
  <2>. DEFINE X == {m \in Activities : ~Reaches(gs, s, m)}
  <2>1. ASSUME NEW m \in X PROVE \E e \in es : e.to = m /\ e.from \in X
    <3>1. m # s
      BY ReachesItself
    <3>2. hop(s, m) \notin gs
      BY <1>3, LinkReaches
    <3>3. PICK e \in es : e.to = m
      BY <1>1, <3>1, <3>2 DEF Into
    <3>4. e \in gs /\ e.from \in Activities
      BY <1>1, <1>2 DEF Hop
    <3>5. ~Reaches(gs, s, e.from)
      BY <3>3, <3>4, LinkReaches, ReachesOn
    <3>. QED
      BY <3>3, <3>4, <3>5
  <2>2. X = {}
    <3>1. ~Cyclic(es) /\ X \in SUBSET Activities
      OBVIOUS
    <3>. HIDE DEF X
    <3>. QED
      BY <1>2, <2>1, <3>1, BackForever
  <2>. QED
    BY <2>2
<1>5. Reaches(gs, n, t)
  <2>. DEFINE X == {m \in Activities : ~Reaches(gs, m, t)}
  <2>1. ASSUME NEW m \in X PROVE \E e \in fs : e.from = m /\ e.to \in X
    <3>1. m # t
      BY ReachesItself
    <3>2. hop(m, t) \notin gs
      BY <1>3, LinkReaches
    <3>3. PICK e \in fs : e.from = m
      BY <1>1, <3>1, <3>2 DEF OutOf
    <3>4. e \in gs /\ e.to \in Activities
      BY <1>1 DEF Hop
    <3>5. ~Reaches(gs, e.to, t)
      BY <3>3, <3>4, LinkReaches, ReachesOn
    <3>. QED
      BY <3>3, <3>4, <3>5
  <2>2. X = {}
    <3>1. ~Cyclic(fs) /\ fs \subseteq Hop /\ X \in SUBSET Activities
      BY <1>1, <1>2, CyclesStay
    <3>. HIDE DEF X
    <3>. QED
      BY <2>1, <3>1, OnForever
  <2>. QED
    BY <2>2
<1>. QED
  BY <1>4, <1>5 DEF fs, gs

-----------------------------------------------------------------------------
(* Components. *)

\* A component of more than one activity holds a predecessor of each of them.
LEMMA WithinComponent ==
    ASSUME edges \subseteq Hop, NEW c \in Activities,
           NEW n \in Component(c), NEW k \in Component(c), n # k
    PROVE  /\ Into(edges, n) \cap Component(c) # {}
           /\ Cyclic(edges)
<1>1. /\ n \in Activities /\ k \in Activities
      /\ Reaches(edges, k, n) /\ Reaches(edges, n, k)
      /\ Reaches(edges, c, k) /\ Reaches(edges, n, c)
  BY ReachesOn DEF Component
<1>2. PICK e \in edges : e.to = n /\ Reaches(edges, k, e.from)
  BY <1>1, LastLink
<1>3. e.from \in Activities /\ e.from \in Into(edges, n) /\ Reaches(edges, e.from, n)
  BY <1>2, LinkReaches DEF Hop, Into
<1>4. Reaches(edges, c, e.from) /\ Reaches(edges, e.from, c) /\ Reaches(edges, n, e.from)
  BY <1>1, <1>2, <1>3, ReachesOn
<1>5. e.from \in Component(c)
  BY <1>3, <1>4 DEF Component
<1>. QED
  BY <1>2, <1>3, <1>4, <1>5, OnCycleReaches DEF Cyclic

LEMMA ComponentFacts ==
    ASSUME edges \subseteq Hop, NEW C \in Components
    PROVE  /\ C \subseteq Activities
           /\ \E c \in Activities : c \in C /\ C = Component(c)
           /\ ~Cyclic(edges) => \A n, k \in C : n = k
<1>1. PICK c \in Activities : C = Component(c)
  BY DEF Components
<1>2. c \in C /\ C \subseteq Activities
  BY <1>1, ReachesItself DEF Component
<1>. QED
  BY <1>1, <1>2, WithinComponent

LEMMA IntoFacts ==
    ASSUME NEW es, es \subseteq Hop, NEW n \in Activities
    PROVE  /\ Into(es, n) \subseteq Activities
           /\ \A p \in Into(es, n) : Reaches(es, p, n)
           /\ ~Cyclic(es) => n \notin Into(es, n)
<1>1. ASSUME NEW p \in Into(es, n)
      PROVE  p \in Activities /\ Reaches(es, p, n) /\ (p = n => Cyclic(es))
  <2>1. PICK e \in es : e.to = n /\ e.from = p
    BY DEF Into
  <2>. QED
    BY <2>1, LinkReaches, ReachesItself, OnCycleReaches DEF Hop, Cyclic
<1>. QED
  BY <1>1

\* What an activity gets from upstream, it gets through its predecessors.
LEMMA Upstream ==
    ASSUME NEW es, es \subseteq Hop, NEW n \in Activities
    PROVE  {m \in Activities : Reaches(es, m, n)}
             = {n} \cup UNION {{m \in Activities : Reaches(es, m, p)} : p \in Into(es, n)}
<1>1. ASSUME NEW m \in Activities, Reaches(es, m, n), m # n
      PROVE  \E p \in Into(es, n) : Reaches(es, m, p)
  <2>1. PICK e \in es : e.to = n /\ Reaches(es, m, e.from)
    BY <1>1, LastLink
  <2>. QED
    BY <2>1 DEF Into
<1>2. ASSUME NEW p \in Into(es, n), NEW m \in Activities, Reaches(es, m, p)
      PROVE  Reaches(es, m, n)
  BY <1>2, IntoFacts, ReachesOn
<1>3. Reaches(es, n, n)
  BY ReachesItself
<1>. QED
  BY <1>1, <1>2, <1>3

-----------------------------------------------------------------------------
(* Every step keeps the invariant. *)

LEMMA MetricsInitially == SanitiseInit => MetricsInv
<1>. SUFFICES ASSUME SanitiseInit PROVE MetricsInv
  OBVIOUS
<1>1. RemovalInv
  BY MetricsRequestAssumption DEF SanitiseInit, RemovalInv
<1>2. BetweenMilestones
  BY DEF SanitiseInit, BetweenMilestones
<1>3. RiskInv
  BY DEF SanitiseInit, RiskInv
<1>. QED
  BY <1>1, <1>2, <1>3 DEF MetricsInv

\* While nothing is settled, the edges may change.
LEMMA NothingSettledYet ==
    ASSUME RiskInv, settled = {}, not_converged = {}, UNCHANGED risk, sanitiseStep' # "done"
    PROVE  RiskInv'
BY DEF RiskInv, risk

LEMMA RemoveEdgeStep == MetricsInv /\ RemoveEdge => MetricsInv'
<1>. SUFFICES ASSUME MetricsInv, RemoveEdge PROVE MetricsInv'
  OBVIOUS
<1>1. PICK e \in Cuts(edges) : edges' = edges \ {e} /\ removed_edges' = removed_edges \cup {e}
  BY DEF RemoveEdge
<1>2. /\ sanitiseStep = "remove" /\ sanitiseStep' = "remove"
      /\ UNCHANGED <<metricsRequest, cycles_remaining, tied, risk>>
  BY DEF RemoveEdge
<1>3. OnCycle(metricsRequest.links, e)
  <2>1. Reaches({f \in edges : Before(e, f)}, e.to, e.from)
    BY OnCycleReaches DEF Cuts
  <2>2. {f \in edges : Before(e, f)} \subseteq metricsRequest.links
    BY <1>2 DEF MetricsInv, RemovalInv
  <2>3. Reaches(metricsRequest.links, e.to, e.from)
    BY <2>1, <2>2, MoreLinksReach
  <2>. QED
    BY <2>3, OnCycleReaches
<1>4. RemovalInv'
  BY <1>1, <1>2, <1>3 DEF MetricsInv, RemovalInv, risk
<1>5. BetweenMilestones'
  BY <1>2 DEF BetweenMilestones
<1>6. RiskInv'
  BY <1>2, NothingSettledYet DEF MetricsInv, RemovalInv
<1>. QED
  BY <1>4, <1>5, <1>6 DEF MetricsInv

LEMMA EndRemovalStep == MetricsInv /\ EndRemoval => MetricsInv'
<1>. SUFFICES ASSUME MetricsInv, EndRemoval PROVE MetricsInv'
  OBVIOUS
<1>1. /\ sanitiseStep = "remove" /\ sanitiseStep' = "connect"
      /\ cycles_remaining' = Cyclic(edges)
      /\ UNCHANGED <<metricsRequest, edges, removed_edges, tied, risk>>
  BY DEF EndRemoval
<1>2. Cyclic(edges)' = Cyclic(edges)
  BY <1>1 DEF Cyclic, OnCycle
<1>3. RemovalInv'
  BY <1>1, <1>2 DEF MetricsInv, RemovalInv, risk
<1>4. BetweenMilestones'
  BY <1>1 DEF BetweenMilestones
<1>5. RiskInv'
  BY <1>1, NothingSettledYet DEF MetricsInv, RemovalInv
<1>. QED
  BY <1>3, <1>4, <1>5 DEF MetricsInv

LEMMA TyingKeepsHops ==
    ASSUME NEW es, es \subseteq Hop, NEW s \in Activities, NEW t \in Activities
    PROVE  ToEnd(FromStart(es, s), t) \subseteq Hop
<1>1. \A u, v \in Activities : hop(u, v) \in Hop
  BY DEF hop, Hop
<1>. QED
  BY <1>1 DEF ToEnd, FromStart

LEMMA ConnectStep == MetricsInv /\ Connect => MetricsInv'
<1>. SUFFICES ASSUME MetricsInv, Connect PROVE MetricsInv'
  OBVIOUS
<1>1. /\ sanitiseStep = "connect" /\ sanitiseStep' = "propagate"
      /\ UNCHANGED <<metricsRequest, removed_edges, cycles_remaining, risk>>
      /\ metricsRequest \in MetricsRequests /\ edges \subseteq Hop
      /\ cycles_remaining <=> Cyclic(edges)
      /\ tied = <<>> /\ settled = {} /\ not_converged = {}
  BY DEF Connect, MetricsInv, RemovalInv
<1>2. ASSUME UNCHANGED <<edges, tied>> PROVE edges' \subseteq Hop /\ BetweenMilestones'
  BY <1>1, <1>2 DEF BetweenMilestones
<1>3. ASSUME NEW c \in Chosen, edges' = ToEnd(FromStart(edges, c[1]), c[2]), tied' = c
      PROVE  edges' \subseteq Hop /\ BetweenMilestones'
  <2>1. /\ c[1] \in Activities /\ Into(edges, c[1]) = {}
        /\ c[2] \in Activities /\ OutOf(edges, c[2]) = {}
    <3>1. c[1] \in start_milestones /\ c[2] \in end_milestones
      BY DEF Chosen, Preferred
    <3>. QED
      BY <1>1, <3>1, MetricsRequestAssumption DEF start_milestones, end_milestones
  <2>2. edges' \subseteq Hop
    BY <1>1, <1>3, <2>1, TyingKeepsHops
  <2>3. ASSUME ~cycles_remaining', tied'[1] # tied'[2]
        PROVE  /\ ~Cyclic(edges')
               /\ \A n \in Activities : Reaches(edges', tied'[1], n) /\ Reaches(edges', n, tied'[2])
    <3>1. Untied(edges, c[1], c[2]) /\ ~Cyclic(edges)
      BY <1>1, <1>3, <2>1, <2>3 DEF Untied
    <3>. QED
      BY <1>3, <3>1, TyingClosesNoCycle, TyingReachesAll
  <2>4. BetweenMilestones'
    BY <2>3 DEF BetweenMilestones
  <2>. QED
    BY <2>2, <2>4
<1>4. edges' \subseteq Hop /\ BetweenMilestones'
  BY <1>2, <1>3 DEF Connect
<1>5. RemovalInv'
  BY <1>1, <1>4 DEF RemovalInv
<1>6. RiskInv'
  BY <1>1, NothingSettledYet DEF MetricsInv
<1>. QED
  BY <1>4, <1>5, <1>6 DEF MetricsInv

\* While risk is passed along, the graph stays as it is.
LEMMA GraphStays ==
    ASSUME MetricsInv, sanitiseStep = "propagate", sanitiseStep' \in {"propagate", "done"},
           UNCHANGED <<metricsRequest, edges, removed_edges, cycles_remaining, tied>>
    PROVE  RemovalInv' /\ BetweenMilestones'
<1>1. RemovalInv'
  BY DEF MetricsInv, RemovalInv
<1>2. BetweenMilestones'
  BY DEF MetricsInv, BetweenMilestones
<1>. QED
  BY <1>1, <1>2

\* What an activity has settled on stays right when others settle.
LEMMA SettledStays ==
    ASSUME MetricsInv, edges' = edges, NEW C, C \subseteq Activities, C \cap settled = {},
           settled' = settled \cup C,
           \A n \in Activities \ C : prop'[n] = prop[n],
           \A n \in settled : n \in UNION not_converged' <=> n \in UNION not_converged,
           NEW n \in settled
    PROVE  /\ Into(edges, n) \subseteq settled'
           /\ prop'[n] = IF n \in UNION not_converged' THEN {n}
                         ELSE {n} \cup UNION {prop'[p] : p \in Into(edges, n)}
           /\ ~Cyclic(edges) => prop'[n] = {m \in Activities : Reaches(edges, m, n)}
<1>1. /\ settled \subseteq Activities /\ Into(edges, n) \subseteq settled
      /\ prop[n] = IF n \in UNION not_converged THEN {n}
                   ELSE {n} \cup UNION {prop[p] : p \in Into(edges, n)}
      /\ ~Cyclic(edges) => prop[n] = {m \in Activities : Reaches(edges, m, n)}
  BY DEF MetricsInv, RiskInv
<1>2. prop'[n] = prop[n] /\ \A p \in Into(edges, n) : prop'[p] = prop[p]
  BY <1>1
<1>3. UNION {prop'[p] : p \in Into(edges, n)} = UNION {prop[p] : p \in Into(edges, n)}
  BY <1>2
<1>. QED
  BY <1>1, <1>2, <1>3

\* A component's activities get their own risk, the component's and what comes
\* from outside it.
LEMMA PropagateSettles ==
    ASSUME MetricsInv, NEW C \in Components, Due(C),
           prop' = [n \in Activities |-> IF n \in C THEN C \cup Inherited(C) ELSE prop[n]],
           NEW n \in C
    PROVE  /\ n \notin UNION not_converged
           /\ Into(edges, n) \subseteq settled \cup C
           /\ prop'[n] = {n} \cup UNION {prop'[p] : p \in Into(edges, n)}
           /\ ~Cyclic(edges) => prop'[n] = {m \in Activities : Reaches(edges, m, n)}
<1>1. /\ edges \subseteq Hop /\ prop \in [Activities -> SUBSET Activities]
      /\ settled \subseteq Activities /\ UNION not_converged \subseteq settled
      /\ C \cap settled = {} /\ External(C) \subseteq settled
  BY DEF MetricsInv, RemovalInv, RiskInv, Due
<1>2. /\ C \subseteq Activities /\ n \in Activities
      /\ ~Cyclic(edges) => C = {n}
  BY <1>1, ComponentFacts
<1>3. PICK c \in Activities : C = Component(c)
  BY <1>1, ComponentFacts
<1>4. /\ Into(edges, n) \subseteq Activities
      /\ Into(edges, n) \subseteq External(C) \cup C
  BY <1>1, <1>2, IntoFacts DEF External
<1>5. /\ \A k \in C : prop'[k] = C \cup Inherited(C)
      /\ \A p \in External(C) : prop'[p] = prop[p] /\ prop[p] \subseteq Inherited(C)
  BY <1>1, <1>2 DEF External, Inherited
<1>6. UNION {prop'[p] : p \in Into(edges, n)} \subseteq C \cup Inherited(C)
  BY <1>4, <1>5
<1>7. C \cup Inherited(C) = {n} \cup UNION {prop'[p] : p \in Into(edges, n)}
  <2>1. CASE C = {n}
    <3>1. \A p \in External(C) : p \in Into(edges, n)
      BY <2>1 DEF External
    <3>2. Inherited(C) \subseteq UNION {prop'[p] : p \in Into(edges, n)}
      BY <1>5, <3>1 DEF Inherited
    <3>. QED
      BY <1>6, <2>1, <3>2
  <2>2. CASE \E k \in C : k # n
    <3>1. PICK p \in Into(edges, n) : p \in C
      BY <1>1, <1>3, <2>2, WithinComponent
    <3>2. prop'[p] = C \cup Inherited(C)
      BY <1>5, <3>1
    <3>. QED
      BY <1>6, <3>1, <3>2
  <2>. QED
    BY <2>1, <2>2
<1>8. n \notin UNION not_converged /\ Into(edges, n) \subseteq settled \cup C
  BY <1>1, <1>4
<1>9. prop'[n] = {n} \cup UNION {prop'[p] : p \in Into(edges, n)}
  BY <1>5, <1>7
<1>10. ASSUME ~Cyclic(edges) PROVE prop'[n] = {m \in Activities : Reaches(edges, m, n)}
  <2>. DEFINE Up(p) == {m \in Activities : Reaches(edges, m, p)}
  <2>1. \A p \in Into(edges, n) : p \in settled /\ p \in External(C)
    BY <1>1, <1>2, <1>4, <1>10, IntoFacts
  <2>2. \A p \in settled : prop[p] = Up(p)
    BY <1>10 DEF MetricsInv, RiskInv
  <2>3. Up(n) = {n} \cup UNION {Up(p) : p \in Into(edges, n)}
    BY <1>1, <1>2, Upstream
  <2>. HIDE DEF Up
  <2>4. \A p \in Into(edges, n) : prop'[p] = Up(p)
    BY <1>5, <2>1, <2>2
  <2>5. {prop'[p] : p \in Into(edges, n)} = {Up(p) : p \in Into(edges, n)}
    BY <2>4
  <2>6. prop'[n] = Up(n)
    BY <1>9, <2>3, <2>5
  <2>. QED
    BY <2>6 DEF Up
<1>. QED
  BY <1>8, <1>9, <1>10

LEMMA PropagateStep == MetricsInv /\ Propagate => MetricsInv'
<1>. SUFFICES ASSUME MetricsInv, Propagate PROVE MetricsInv'
  OBVIOUS
<1>1. PICK C \in Components :
          /\ Due(C)
          /\ prop' = [n \in Activities |-> IF n \in C THEN C \cup Inherited(C) ELSE prop[n]]
          /\ settled' = settled \cup C
  BY DEF Propagate
<1>2. /\ sanitiseStep = "propagate" /\ sanitiseStep' = "propagate"
      /\ UNCHANGED <<metricsRequest, edges, removed_edges, cycles_remaining, tied, not_converged>>
  BY DEF Propagate
<1>3. RemovalInv' /\ BetweenMilestones'
  BY <1>2, GraphStays
<1>4. /\ edges \subseteq Hop /\ C \subseteq Activities /\ C \cap settled = {}
      /\ prop \in [Activities -> SUBSET Activities] /\ settled \subseteq Activities
      /\ UNION not_converged \subseteq settled
      /\ ~Cyclic(edges) => not_converged = {}
  BY <1>1, ComponentFacts DEF MetricsInv, RemovalInv, RiskInv, Due
<1>5. prop' \in [Activities -> SUBSET Activities]
  <2>1. Inherited(C) \subseteq Activities
    <3>1. \A p \in External(C) : p \in Activities
      BY <1>4, IntoFacts DEF External
    <3>. QED
      BY <1>4, <3>1 DEF Inherited
  <2>2. \A n \in Activities : C \cup Inherited(C) \in SUBSET Activities /\ prop[n] \in SUBSET Activities
    BY <1>4, <2>1
  <2>. QED
    BY <1>1, <2>2
<1>6. ASSUME NEW n \in settled'
      PROVE  /\ Into(edges, n) \subseteq settled'
             /\ prop'[n] = IF n \in UNION not_converged' THEN {n}
                           ELSE {n} \cup UNION {prop'[p] : p \in Into(edges, n)}
             /\ ~Cyclic(edges) => prop'[n] = {m \in Activities : Reaches(edges, m, n)}
  <2>1. CASE n \in settled
    <3>1. \A k \in Activities \ C : prop'[k] = prop[k]
      BY <1>1
    <3>. QED
      BY <1>1, <1>2, <1>4, <2>1, <3>1, SettledStays
  <2>2. CASE n \in C
    BY <1>1, <1>2, <2>2, PropagateSettles
  <2>. QED
    BY <1>1, <2>1, <2>2
<1>7. RiskInv'
  BY <1>1, <1>2, <1>4, <1>5, <1>6 DEF RiskInv
<1>. QED
  BY <1>3, <1>7 DEF MetricsInv

LEMMA FallBackStep == MetricsInv /\ FallBack => MetricsInv'
<1>. SUFFICES ASSUME MetricsInv, FallBack PROVE MetricsInv'
  OBVIOUS
<1>1. PICK C \in Components :
          /\ Due(C) /\ Cardinality(C) > 1
          /\ prop' = [n \in Activities |-> IF n \in C THEN {n} ELSE prop[n]]
          /\ settled' = settled \cup C
          /\ not_converged' = not_converged \cup {C}
  BY DEF FallBack
<1>2. /\ sanitiseStep = "propagate" /\ sanitiseStep' = "propagate"
      /\ UNCHANGED <<metricsRequest, edges, removed_edges, cycles_remaining, tied>>
  BY DEF FallBack
<1>3. RemovalInv' /\ BetweenMilestones'
  BY <1>2, GraphStays
<1>4. /\ edges \subseteq Hop /\ C \subseteq Activities /\ C \cap settled = {}
      /\ External(C) \subseteq settled
      /\ prop \in [Activities -> SUBSET Activities] /\ settled \subseteq Activities
      /\ UNION not_converged \subseteq settled
  BY <1>1, ComponentFacts DEF MetricsInv, RemovalInv, RiskInv, Due
<1>5. Cyclic(edges)
  <2>. SUFFICES ASSUME ~Cyclic(edges) PROVE FALSE
    OBVIOUS
  <2>1. PICK c \in C : C = {c}
    BY <1>4, ComponentFacts
  <2>. QED
    <3>1. Cardinality({c}) = 1
      BY FS_Singleton
    <3>. QED
      BY <1>1, <2>1, <3>1
<1>6. prop' \in [Activities -> SUBSET Activities]
  BY <1>1, <1>4
<1>7. UNION not_converged' = (UNION not_converged) \cup C
  BY <1>1
<1>8. ASSUME NEW n \in settled'
      PROVE  /\ Into(edges, n) \subseteq settled'
             /\ prop'[n] = IF n \in UNION not_converged' THEN {n}
                           ELSE {n} \cup UNION {prop'[p] : p \in Into(edges, n)}
  <2>1. CASE n \in settled
    <3>1. /\ \A k \in Activities \ C : prop'[k] = prop[k]
          /\ \A k \in settled : k \in UNION not_converged' <=> k \in UNION not_converged
      BY <1>1, <1>4, <1>7
    <3>. QED
      BY <1>1, <1>2, <1>4, <2>1, <3>1, SettledStays
  <2>2. CASE n \in C
    <3>1. Into(edges, n) \subseteq External(C) \cup C
      BY <2>2 DEF External
    <3>. QED
      BY <1>1, <1>4, <1>7, <2>2, <3>1
  <2>. QED
    BY <1>1, <2>1, <2>2
<1>9. RiskInv'
  BY <1>1, <1>2, <1>4, <1>5, <1>6, <1>7, <1>8 DEF RiskInv
<1>. QED
  BY <1>3, <1>9 DEF MetricsInv

LEMMA ReturnMetricsStep == MetricsInv /\ ReturnMetrics => MetricsInv'
<1>. SUFFICES ASSUME MetricsInv, ReturnMetrics PROVE MetricsInv'
  OBVIOUS
<1>1. /\ sanitiseStep = "propagate" /\ sanitiseStep' = "done" /\ settled = Activities
      /\ UNCHANGED <<metricsRequest, edges, removed_edges, cycles_remaining, tied, risk>>
  BY DEF ReturnMetrics
<1>2. RemovalInv' /\ BetweenMilestones'
  BY <1>1, GraphStays
<1>3. RiskInv'
  BY <1>1 DEF MetricsInv, RiskInv, risk
<1>. QED
  BY <1>2, <1>3 DEF MetricsInv

\* The invariant holds in every state of a /graph-metrics request.
THEOREM MetricsInvariance == SanitiseSpec => []MetricsInv
<1>1. MetricsInv /\ UNCHANGED sanitiseVars => MetricsInv'
  <2>. SUFFICES ASSUME MetricsInv, UNCHANGED sanitiseVars PROVE MetricsInv'
    OBVIOUS
  <2>1. UNCHANGED <<metricsRequest, edges, removed_edges, cycles_remaining, tied,
                    prop, settled, not_converged, sanitiseStep>>
    BY DEF sanitiseVars
  <2>2. RemovalInv'
    BY <2>1 DEF MetricsInv, RemovalInv
  <2>3. BetweenMilestones'
    BY <2>1 DEF MetricsInv, BetweenMilestones
  <2>4. RiskInv'
    <3>1. \A n \in settled :
             /\ Into(edges, n) \subseteq settled'
             /\ prop'[n] = IF n \in UNION not_converged' THEN {n}
                           ELSE {n} \cup UNION {prop'[p] : p \in Into(edges, n)}
             /\ ~Cyclic(edges) => prop'[n] = {m \in Activities : Reaches(edges, m, n)}
      <4>1. settled' = settled \cup {} /\ {} \subseteq Activities /\ {} \cap settled = {}
        BY <2>1
      <4>. QED
        BY <2>1, <4>1, SettledStays
    <3>. QED
      BY <2>1, <3>1 DEF MetricsInv, RiskInv
  <2>. QED
    BY <2>2, <2>3, <2>4 DEF MetricsInv
<1>2. MetricsInv /\ [SanitiseNext]_sanitiseVars => MetricsInv'
  BY <1>1, RemoveEdgeStep, EndRemovalStep, ConnectStep, PropagateStep, FallBackStep, ReturnMetricsStep
  DEF SanitiseNext
<1>. QED
  BY <1>2, MetricsInitially, PTL DEF SanitiseSpec

\* The warnings of the answer tell which links were taken and whether cycles
\* are left; where both milestones are tied everything lies between them; and
\* each activity's propagated risk is its own and its predecessors', whatever
\* the order in which _risk_propagation took the components.
THEOREM MetricsAreSound == SanitiseSpec => []MetricsSound
<1>1. MetricsInv => MetricsSound
  <2>. SUFFICES ASSUME MetricsInv PROVE MetricsSound
    OBVIOUS
  <2>1. RemovalIsTold
    BY DEF MetricsInv, RemovalInv, RemovalIsTold
  <2>2. RiskFollowsLinks
    BY DEF MetricsInv, RiskInv, RiskFollowsLinks
  <2>. QED
    BY <2>1, <2>2 DEF MetricsInv, MetricsSound
<1>. QED
  BY <1>1, MetricsInvariance, PTL

-----------------------------------------------------------------------------
(***************************************************************************)
(* OutcomeRegistry.                                                        *)
(***************************************************************************)

(* The inductive invariant of the registry.                                   *)
Stored(store) == {k \in Keys : store[k] # None}
KeysLeft(h) == {keys[h][i] : i \in 1..Len(keys[h])}
Found(h) == {found[h][i] : i \in 1..Len(found[h])}
AskedAbout(h, k) == asked[h] \in {All, k[1]}

\* What may be listed is finite, also when the classes and the projects are not.
FinitelyStored == IsFiniteSet(Stored(redis)) /\ \A w \in Workers : IsFiniteSet(Stored(_inproc[w]))
Shapes ==
    /\ reportStep \in [Handlers -> {"idle", "scan", "read"}] /\ asked \in [Handlers -> Classes \cup {All}]
    /\ keys \in [Handlers -> Seq(Keys)] /\ found \in [Handlers -> Seq([key : Keys, record : 1..registered])]
    /\ reading_from_redis \in [Handlers -> BOOLEAN] /\ storage \in [Handlers -> {"none", "redis", "in_process"}]
    /\ began \in [Handlers -> [Keys -> 0..registered]] /\ undisturbed \in [Handlers -> BOOLEAN]

\* While nothing disturbs a report its store only grows, the keys still to be
\* read are in it, and what was due when it began is read or still to be read,
\* unless the limit cut the listing.
Awaited(h) ==
    /\ \A k \in Keys : began[h][k] <= Store(h[1])[k]
    /\ reportStep[h] = "read" =>
        /\ reading_from_redis[h] = Reachable(h[1])
        /\ \A k \in KeysLeft(h) : Store(h[1])[k] # None
Kept(h) ==
    /\ \A k \in KeysLeft(h) : AskedAbout(h, k)
    /\ \A r \in Found(h) : r.record >= began[h][r.key] /\ AskedAbout(h, r.key)
    /\ Len(keys[h]) + Len(found[h]) < LIMIT =>
          Matching(began[h], asked[h]) \subseteq KeysLeft(h) \cup {r.key : r \in Found(h)}
-----------------------------------------------------------------------------
\* What ReportInv says of one report, and that a step keeps it of the reports
\* it leaves alone.
ReportOf(h) ==
    /\ reportStep[h] = "scan" => keys[h] = <<>> /\ found[h] = <<>>
    /\ reportStep[h] = "idle" => keys[h] = <<>>
    /\ undisturbed[h] /\ reportStep[h] # "idle" => Awaited(h)
    /\ undisturbed[h] /\ reportStep[h] # "scan" => Kept(h)
ReportInv == \A h \in Handlers : ReportOf(h)
RegistryInv == RegistryTypeOK /\ Shapes /\ FinitelyStored /\ ReportInv

LEMMA OtherReport ==
    ASSUME NEW g \in Handlers, ReportOf(g),
           UNCHANGED <<redis, _inproc, redis_up, redis_client>>,
           UNCHANGED <<reportStep[g], asked[g], keys[g], found[g], began[g], undisturbed[g], reading_from_redis[g]>>
    PROVE  ReportOf(g)'
<1>1. Store(g[1])' = Store(g[1]) /\ Reachable(g[1])' = Reachable(g[1])
  BY DEF Store, Reachable
<1>2. KeysLeft(g)' = KeysLeft(g) /\ Found(g)' = Found(g)
  BY DEF KeysLeft, Found
<1>3. Awaited(g) => Awaited(g)'
  BY <1>1, <1>2 DEF Awaited
<1>4. Matching(began[g], asked[g])' = Matching(began[g], asked[g])
  BY DEF Matching
<1>5. Kept(g) => Kept(g)'
  BY <1>2, <1>4 DEF Kept, AskedAbout
<1>. QED
  BY <1>3, <1>5 DEF ReportOf

-----------------------------------------------------------------------------
(* The listings of a set of keys, cut at the limit.                           *)
LEMMA CutFacts ==
    ASSUME NEW S, NEW t \in Seq(S), Len(t) > LIMIT
    PROVE  SubSeq(t, 1, LIMIT) \in Seq(S) /\ Len(SubSeq(t, 1, LIMIT)) = LIMIT
<1>1. LIMIT \in Nat \ {0} /\ LIMIT \in 1..Len(t)
  BY RegistryAssumption, LenProperties
<1>. QED
  BY <1>1, SubSeqProperties

LEMMA OrderFacts ==
    ASSUME NEW S, IsFiniteSet(S), NEW t \in Orders(S)
    PROVE  t \in Seq(S) /\ S = {t[i] : i \in 1..Len(t)}
<1>1. Cardinality(S) \in Nat
  BY FS_CardinalityType
<1>2. t \in [1..Cardinality(S) -> S] /\ {t[i] : i \in DOMAIN t} = S
  BY DEF Orders
<1>3. t \in Seq(S) /\ DOMAIN t = 1..Len(t)
  BY <1>1, <1>2, IsASeq, LenProperties
<1>. QED
  BY <1>2, <1>3

\* A listing, with or without a key twice, is no longer than the limit, and one
\* that is shorter has every key.
LEMMA ListingComplete ==
    ASSUME NEW S, IsFiniteSet(S), NEW s \in Listed(S) \cup Repeated(S)
    PROVE  /\ s \in Seq(S) /\ Len(s) <= LIMIT
           /\ Len(s) < LIMIT => S \subseteq {s[i] : i \in 1..Len(s)}
<1>0. LIMIT \in Nat \ {0}
  BY RegistryAssumption
<1>1. CASE s \in Orders(S) /\ Len(s) <= LIMIT
  BY <1>1, OrderFacts
<1>2. ASSUME NEW t \in Orders(S), Len(t) > LIMIT, s = SubSeq(t, 1, LIMIT)
      PROVE  s \in Seq(S) /\ Len(s) = LIMIT
  BY <1>2, OrderFacts, CutFacts
<1>3. ASSUME NEW t \in Orders(S), NEW k \in S
      PROVE  /\ Append(t, k) \in Seq(S)
             /\ S \subseteq {Append(t, k)[i] : i \in 1..Len(Append(t, k))}
  <2>1. t \in Seq(S) /\ S = {t[i] : i \in 1..Len(t)}
    BY OrderFacts
  <2>2. /\ Append(t, k) \in Seq(S) /\ Len(Append(t, k)) = Len(t) + 1
        /\ \A i \in 1..Len(t) : Append(t, k)[i] = t[i]
    BY <2>1, AppendProperties
  <2>3. Len(t) \in Nat /\ \A i \in 1..Len(t) : i \in 1..(Len(t) + 1)
    BY <2>1, LenProperties
  <2>. QED
    BY <2>1, <2>2, <2>3
<1>4. CASE s \in Longer(S) /\ Len(s) <= LIMIT
  <2>1. PICK t \in Orders(S), k \in S : s = Append(t, k)
    BY <1>4 DEF Longer
  <2>2. /\ Append(t, k) \in Seq(S)
        /\ S \subseteq {Append(t, k)[i] : i \in 1..Len(Append(t, k))}
    BY <1>3
  <2>. QED
    BY <1>4, <2>1, <2>2
<1>5. ASSUME NEW t \in Longer(S), Len(t) > LIMIT, s = SubSeq(t, 1, LIMIT)
      PROVE  s \in Seq(S) /\ Len(s) = LIMIT
  <2>1. t \in Seq(S)
    <3>1. PICK u \in Orders(S), k \in S : t = Append(u, k)
      BY DEF Longer
    <3>2. Append(u, k) \in Seq(S)
      BY <1>3
    <3>. QED
      BY <3>1, <3>2
  <2>. QED
    BY <1>5, <2>1, CutFacts
<1>6. \/ s \in Orders(S) /\ Len(s) <= LIMIT
      \/ \E t \in Orders(S) : Len(t) > LIMIT /\ s = SubSeq(t, 1, LIMIT)
      \/ s \in Longer(S) /\ Len(s) <= LIMIT
      \/ \E t \in Longer(S) : Len(t) > LIMIT /\ s = SubSeq(t, 1, LIMIT)
  BY DEF Listed, Repeated
<1>. QED
  BY <1>0, <1>1, <1>2, <1>4, <1>5, <1>6

LEMMA RecordsGrow ==
    ASSUME NEW m \in Nat, NEW n \in Nat, m <= n
    PROVE  /\ 0..m \subseteq 0..n
           /\ [Keys -> 0..m] \subseteq [Keys -> 0..n]
           /\ Seq([key : Keys, record : 1..m]) \subseteq Seq([key : Keys, record : 1..n])
<1>1. 0..m \subseteq 0..n /\ 1..m \subseteq 1..n
  OBVIOUS
<1>2. [key : Keys, record : 1..m] \subseteq [key : Keys, record : 1..n]
  BY <1>1
<1>. QED
  BY <1>1, <1>2, SeqMonotonic

-----------------------------------------------------------------------------
(* The invariant holds initially and every action keeps it.                   *)
LEMMA RegistryInitially == RegistryInit => RegistryInv
<1>. SUFFICES ASSUME RegistryInit PROVE RegistryInv
  OBVIOUS
<1>0. registered = 0 /\ MaxRegistrations \in Nat /\ LIMIT \in Nat \ {0}
  BY RegistryAssumption DEF RegistryInit
<1>1. redis = [k \in Keys |-> 0] /\ _inproc = [w \in Workers |-> [k \in Keys |-> 0]]
  BY DEF RegistryInit, None
<1>2. redis_up \in BOOLEAN /\ redis_client \in [Workers -> BOOLEAN]
  BY DEF RegistryInit
<1>3. \A S : <<>> \in Seq(S) /\ Len(<<>>) = 0
  BY EmptySeq
<1>4. Shapes
  BY <1>0, <1>1, <1>3 DEF RegistryInit, Shapes, None
<1>5. RegistryTypeOK
  BY <1>0, <1>1, <1>2, <1>3, <1>4 DEF RegistryTypeOK, Shapes, RegistryInit
<1>6. FinitelyStored
  <2>1. Stored(redis) = {} /\ \A w \in Workers : Stored(_inproc[w]) = {}
    BY <1>1 DEF Stored, None
  <2>. QED
    BY <2>1, FS_EmptySet DEF FinitelyStored
<1>7. ReportInv
  BY <1>4 DEF ReportInv, ReportOf, RegistryInit
<1>. QED
  BY <1>4, <1>5, <1>6, <1>7 DEF RegistryInv

LEMMA RegisterStep ==
    ASSUME RegistryInv, NEW w \in Workers, NEW k \in Keys, Register(w, k)
    PROVE  RegistryInv'
<1>. DEFINE r == registered + 1
<1>1. /\ registered \in Nat /\ r \in Nat \ {0} /\ registered <= r /\ registered' = r /\ r \in 0..MaxRegistrations
      /\ UNCHANGED <<env, report, began, undisturbed>>
  BY RegistryAssumption DEF RegistryInv, RegistryTypeOK, Register
<1>2. /\ redis \in [Keys -> 0..registered] /\ _inproc \in [Workers -> [Keys -> 0..registered]]
      /\ redis_up \in BOOLEAN /\ redis_client \in [Workers -> BOOLEAN]
  BY DEF RegistryInv, RegistryTypeOK
<1>3. /\ redis' \in {redis, [redis EXCEPT ![k] = r]}
      /\ _inproc' \in {_inproc, [_inproc EXCEPT ![w][k] = r]}
  BY <1>1 DEF Register
<1>4. redis' \in [Keys -> 0..r] /\ _inproc' \in [Workers -> [Keys -> 0..r]]
  <2>1. redis \in [Keys -> 0..r] /\ \A v \in Workers : _inproc[v] \in [Keys -> 0..r]
    BY <1>1, <1>2, RecordsGrow
  <2>2. r \in 0..r
    BY <1>1
  <2>3. \A f \in [Keys -> 0..r] : [f EXCEPT ![k] = r] \in [Keys -> 0..r]
    BY <2>2
  <2>4. redis' \in [Keys -> 0..r]
    BY <1>3, <2>1, <2>3
  <2>5. [_inproc[w] EXCEPT ![k] = r] \in [Keys -> 0..r]
    BY <2>1, <2>3
  <2>6. _inproc \in [Workers -> [Keys -> 0..r]]
    BY <1>2, <2>1
  <2>. QED
    BY <1>3, <2>4, <2>5, <2>6
<1>5. Shapes'
  <2>1. [Keys -> 0..registered] \subseteq [Keys -> 0..r]
    BY <1>1, RecordsGrow
  <2>2. Seq([key : Keys, record : 1..registered]) \subseteq Seq([key : Keys, record : 1..r])
    BY <1>1, RecordsGrow
  <2>. QED
    BY <1>1, <2>1, <2>2 DEF RegistryInv, Shapes, report
<1>6. RegistryTypeOK'
  BY <1>1, <1>2, <1>4, <1>5 DEF RegistryInv, RegistryTypeOK, Shapes, env, report
<1>7. FinitelyStored'
  <2>1. ASSUME NEW store \in [Keys -> 0..registered], NEW next \in {store, [store EXCEPT ![k] = r]}, IsFiniteSet(Stored(store))
        PROVE  IsFiniteSet(Stored(next))
    <3>1. Stored(next) \subseteq Stored(store) \cup {k}
      BY DEF Stored
    <3>2. IsFiniteSet(Stored(store) \cup {k})
      BY <2>1, FS_AddElement
    <3>. QED
      BY <3>1, <3>2, FS_Subset
  <2>2. IsFiniteSet(Stored(redis)')
    BY <1>2, <1>3, <2>1 DEF RegistryInv, FinitelyStored, Stored
  <2>3. ASSUME NEW v \in Workers PROVE IsFiniteSet(Stored(_inproc[v])')
    <3>1. _inproc'[v] \in {_inproc[v], [_inproc[v] EXCEPT ![k] = r]} /\ _inproc[v] \in [Keys -> 0..registered]
      BY <1>2, <1>3
    <3>. QED
      BY <2>1, <3>1 DEF RegistryInv, FinitelyStored, Stored
  <2>. QED
    BY <2>2, <2>3 DEF FinitelyStored
\* A registration makes a record newer.
<1>8. ASSUME NEW v \in Workers, NEW j \in Keys
      PROVE  /\ Store(v)[j] \in Nat /\ Store(v)'[j] \in Nat /\ Store(v)[j] <= Store(v)'[j]
             /\ Reachable(v)' = Reachable(v)
  <2>1. Reachable(v)' = Reachable(v)
    BY <1>1 DEF Reachable, env
  <2>2. redis[j] \in 0..registered /\ redis'[j] \in {redis[j], r}
    BY <1>2, <1>3
  <2>3. _inproc[v][j] \in 0..registered /\ _inproc'[v][j] \in {_inproc[v][j], r}
    BY <1>2, <1>3
  <2>. QED
    BY <1>1, <2>1, <2>2, <2>3 DEF Store
<1>9. ReportInv'
  <2>. SUFFICES ASSUME NEW h \in Handlers
                PROVE  ReportOf(h)'
    BY DEF ReportInv
  <2>1. UNCHANGED <<reportStep, asked, keys, found, reading_from_redis, storage, began, undisturbed>>
    BY <1>1 DEF report
  <2>2. Kept(h) => Kept(h)'
    BY <2>1 DEF Kept, KeysLeft, Found, AskedAbout, Matching
  <2>3. ASSUME Awaited(h), undisturbed[h] PROVE Awaited(h)'
    <3>1. h[1] \in Workers
      BY RegistryAssumption
    <3>2. ASSUME NEW j \in Keys PROVE began'[h][j] <= Store(h[1])'[j]
      <4>1. began[h][j] \in Nat /\ began[h][j] <= Store(h[1])[j]
        BY <1>1, <2>3 DEF Awaited, RegistryInv, Shapes
      <4>. QED
        BY <1>8, <2>1, <3>1, <4>1
    <3>3. ASSUME reportStep[h] = "read", NEW j \in KeysLeft(h) PROVE Store(h[1])'[j] # None
      <4>1. j \in Keys
        BY ElementOfSeq DEF KeysLeft, RegistryInv, Shapes
      <4>2. Store(h[1])[j] # 0
        BY <2>3, <3>3 DEF Awaited, None
      <4>. QED
        BY <1>8, <3>1, <4>1, <4>2 DEF None
    <3>. QED
      BY <1>8, <2>1, <2>3, <3>1, <3>2, <3>3 DEF Awaited, KeysLeft
  <2>. QED
    BY <2>1, <2>2, <2>3 DEF ReportInv, ReportOf, RegistryInv
<1>. QED
  BY <1>5, <1>6, <1>7, <1>9 DEF RegistryInv

LEMMA BeginStep ==
    ASSUME RegistryInv, NEW h \in Handlers, BeginReport(h)
    PROVE  RegistryInv'
<1>1. UNCHANGED <<redis, _inproc, registered, redis_up, redis_client, reading_from_redis, storage>>
  BY DEF BeginReport, stores, env
<1>2. h[1] \in Workers /\ registered \in 0..MaxRegistrations /\ MaxRegistrations \in Nat /\ LIMIT \in Nat \ {0}
  BY RegistryAssumption DEF RegistryInv, RegistryTypeOK
<1>3. Store(h[1]) \in [Keys -> 0..registered]
  BY <1>2 DEF RegistryInv, RegistryTypeOK, Store
<1>4. \A S : <<>> \in Seq(S) /\ Len(<<>>) = 0
  BY EmptySeq
<1>5. PICK c \in Classes \cup {All} : asked' = [asked EXCEPT ![h] = c]
  BY DEF BeginReport
<1>6. Shapes'
  BY <1>1, <1>3, <1>4, <1>5 DEF RegistryInv, Shapes, BeginReport
<1>7. \A g \in Handlers : Len(keys'[g]) + Len(found'[g]) <= LIMIT
  BY <1>2, <1>4 DEF RegistryInv, RegistryTypeOK, Shapes, BeginReport
<1>8. RegistryTypeOK'
  BY <1>1, <1>6, <1>7 DEF RegistryInv, RegistryTypeOK, Shapes
<1>9. FinitelyStored'
  BY <1>1 DEF RegistryInv, FinitelyStored, Stored
<1>10. ReportInv'
  <2>1. Store(h[1])' = Store(h[1]) /\ Reachable(h[1])' = Reachable(h[1])
    BY <1>1 DEF Store, Reachable
  <2>2. ASSUME NEW g \in Handlers, g # h PROVE ReportOf(g)'
    <3>1. UNCHANGED <<reportStep[g], asked[g], keys[g], found[g], began[g], undisturbed[g], reading_from_redis[g]>>
      BY <1>1, <1>5, <2>2 DEF BeginReport, RegistryInv, Shapes
    <3>. QED
      BY <1>1, <3>1, OtherReport DEF RegistryInv, ReportInv
  <2>4. /\ reportStep'[h] = "scan" /\ keys'[h] = <<>> /\ found'[h] = <<>> /\ began'[h] = Store(h[1])
    BY DEF BeginReport, RegistryInv, Shapes
  <2>5. Awaited(h)'
    <3>1. \A k \in Keys : Store(h[1])[k] <= Store(h[1])[k]
      BY <1>2, <1>3
    <3>. QED
      BY <1>2, <2>1, <2>4, <3>1 DEF Awaited
  <2>. QED
    BY <2>2, <2>4, <2>5 DEF ReportInv, ReportOf
<1>. QED
  BY <1>6, <1>8, <1>9, <1>10 DEF RegistryInv

\* The keys a scan lists are those its store holds now: what was due when the
\* report began is among them, the store having only grown since.
LEMMA ScanStep ==
    ASSUME RegistryInv, NEW h \in Handlers, Scan(h)
    PROVE  RegistryInv'
<1>. DEFINE S == Matching(Store(h[1]), asked[h])
<1>1. UNCHANGED <<redis, _inproc, registered, redis_up, redis_client, asked, found, storage, began, undisturbed>>
  BY DEF Scan, stores, env
<1>2. h[1] \in Workers /\ registered \in 0..MaxRegistrations /\ MaxRegistrations \in Nat /\ LIMIT \in Nat \ {0}
  BY RegistryAssumption DEF RegistryInv, RegistryTypeOK
<1>3. Store(h[1]) \in [Keys -> 0..registered]
  BY <1>2 DEF RegistryInv, RegistryTypeOK, Store
<1>4. IsFiniteSet(S) /\ S \subseteq Keys
  <2>1. S \subseteq Stored(Store(h[1])) /\ S \subseteq Keys
    BY DEF Matching, Stored
  <2>2. IsFiniteSet(Stored(Store(h[1])))
    BY <1>2 DEF RegistryInv, FinitelyStored, Store
  <2>. QED
    BY <2>1, <2>2, FS_Subset
<1>5. PICK s \in Listed(S) \cup Repeated(S) : keys' = [keys EXCEPT ![h] = s]
  BY DEF Scan
<1>6. /\ s \in Seq(S) /\ Len(s) \in Nat /\ Len(s) <= LIMIT
      /\ Len(s) < LIMIT => S \subseteq {s[i] : i \in 1..Len(s)}
      /\ {s[i] : i \in 1..Len(s)} \subseteq S
      /\ s \in Seq(Keys)
  <2>1. /\ s \in Seq(S) /\ Len(s) <= LIMIT
        /\ Len(s) < LIMIT => S \subseteq {s[i] : i \in 1..Len(s)}
    BY <1>4, ListingComplete
  <2>2. Len(s) \in Nat /\ {s[i] : i \in 1..Len(s)} \subseteq S
    BY <2>1, LenProperties, ElementOfSeq
  <2>3. s \in Seq(Keys)
    BY <1>4, <2>1, SeqMonotonic
  <2>. QED
    BY <2>1, <2>2, <2>3
<1>7. /\ reportStep[h] = "scan" /\ reportStep' = [reportStep EXCEPT ![h] = "read"]
      /\ reading_from_redis' = [reading_from_redis EXCEPT ![h] = Reachable(h[1])]
      /\ found[h] = <<>>
  BY DEF Scan, RegistryInv, ReportInv, ReportOf
<1>8. Reachable(h[1]) \in BOOLEAN
  BY <1>2 DEF Reachable, RegistryInv, RegistryTypeOK
<1>9. Shapes'
  BY <1>1, <1>5, <1>6, <1>7, <1>8 DEF RegistryInv, Shapes
<1>10. \A g \in Handlers : Len(keys'[g]) + Len(found'[g]) <= LIMIT
  <2>1. Len(<<>>) = 0
    BY EmptySeq
  <2>. QED
    BY <1>1, <1>2, <1>5, <1>6, <1>7, <2>1 DEF RegistryInv, RegistryTypeOK, Shapes
<1>11. RegistryTypeOK'
  BY <1>1, <1>9, <1>10 DEF RegistryInv, RegistryTypeOK, Shapes
<1>12. FinitelyStored'
  BY <1>1 DEF RegistryInv, FinitelyStored, Stored
<1>13. ReportInv'
  <2>1. Store(h[1])' = Store(h[1]) /\ Reachable(h[1])' = Reachable(h[1])
    BY <1>1 DEF Store, Reachable
  <2>2. ASSUME NEW g \in Handlers, g # h PROVE ReportOf(g)'
    <3>1. UNCHANGED <<reportStep[g], asked[g], keys[g], found[g], began[g], undisturbed[g], reading_from_redis[g]>>
      BY <1>1, <1>5, <1>7, <2>2 DEF RegistryInv, Shapes
    <3>. QED
      BY <1>1, <3>1, OtherReport DEF RegistryInv, ReportInv
  <2>4. /\ reportStep'[h] = "read" /\ keys'[h] = s /\ found'[h] = <<>> /\ reading_from_redis'[h] = Reachable(h[1])
        /\ asked'[h] = asked[h] /\ began'[h] = began[h] /\ undisturbed'[h] = undisturbed[h]
    BY <1>1, <1>5, <1>7 DEF RegistryInv, Shapes
  <2>5. KeysLeft(h)' \subseteq S /\ Found(h)' = {} /\ (Len(s) < LIMIT => S \subseteq KeysLeft(h)')
    <3>1. Len(<<>>) = 0
      BY EmptySeq
    <3>. QED
      BY <1>6, <2>4, <3>1 DEF KeysLeft, Found
  <2>6. ASSUME undisturbed[h] PROVE Awaited(h)' /\ Kept(h)'
    <3>1. Awaited(h)
      BY <1>7, <2>6 DEF RegistryInv, ReportInv, ReportOf
    <3>2. Awaited(h)'
      BY <1>2, <2>1, <2>4, <2>5, <3>1 DEF Awaited, Matching
    <3>3. \A k \in Keys : began[h][k] \in Nat /\ Store(h[1])[k] \in Nat /\ began[h][k] <= Store(h[1])[k]
      BY <1>2, <1>3, <3>1 DEF Awaited, RegistryInv, Shapes
    <3>4. Matching(began[h], asked[h]) \subseteq S
      BY <3>3 DEF Matching, None
    <3>5. Len(keys'[h]) + Len(found'[h]) = Len(s)
      BY <1>6, <2>4, EmptySeq
    <3>6. Kept(h)'
      BY <2>4, <2>5, <3>4, <3>5 DEF Kept, AskedAbout, Matching
    <3>. QED
      BY <3>2, <3>6
  <2>. QED
    BY <2>2, <2>4, <2>6 DEF ReportInv, ReportOf
<1>. QED
  BY <1>9, <1>11, <1>12, <1>13 DEF RegistryInv

\* One key is read: its record, if it still has one, is no older than when the
\* report began.
LEMMA ReadStep ==
    ASSUME RegistryInv, NEW h \in Handlers, Read(h)
    PROVE  RegistryInv'
<1>. DEFINE k == Head(keys[h])
            r == IF ~reading_from_redis[h] THEN _inproc[h[1]][k]
                 ELSE IF redis_up THEN redis[k] ELSE None
            e == [key |-> k, record |-> r]
<1>1. UNCHANGED <<redis, _inproc, registered, redis_up, redis_client, reportStep, asked, reading_from_redis, storage, began, undisturbed>>
  BY DEF Read, stores, env
<1>2. h[1] \in Workers /\ registered \in 0..MaxRegistrations /\ MaxRegistrations \in Nat /\ LIMIT \in Nat \ {0}
  BY RegistryAssumption DEF RegistryInv, RegistryTypeOK
<1>3. keys[h] \in Seq(Keys) /\ found[h] \in Seq([key : Keys, record : 1..registered])
  BY DEF RegistryInv, Shapes
<1>4. /\ reportStep[h] = "read" /\ keys[h] # <<>> /\ keys' = [keys EXCEPT ![h] = Tail(keys[h])]
      /\ found' = IF r = None THEN found ELSE [found EXCEPT ![h] = Append(found[h], e)]
  BY DEF Read
<1>5. /\ k \in Keys /\ Tail(keys[h]) \in Seq(Keys) /\ Len(keys[h]) \in Nat /\ Len(Tail(keys[h])) = Len(keys[h]) - 1
      /\ \A i \in 1..Len(Tail(keys[h])) : Tail(keys[h])[i] = keys[h][i + 1]
      /\ k = keys[h][1] /\ Len(keys[h]) >= 1
  BY <1>3, <1>4, HeadTailProperties, EmptySeq, LenProperties
<1>6. r \in 0..registered
  BY <1>2, <1>5 DEF RegistryInv, RegistryTypeOK, None
<1>7. r # None => e \in [key : Keys, record : 1..registered]
  BY <1>2, <1>5, <1>6 DEF None
<1>. HIDE DEF k, r, e
<1>8. r # None => /\ Append(found[h], e) \in Seq([key : Keys, record : 1..registered])
                  /\ Len(Append(found[h], e)) = Len(found[h]) + 1
                  /\ \A i \in 1..Len(found[h]) : Append(found[h], e)[i] = found[h][i]
                  /\ Append(found[h], e)[Len(found[h]) + 1] = e
  BY <1>3, <1>7, AppendProperties
<1>9. Len(found[h]) \in Nat
  BY <1>3, LenProperties
<1>10. keys'[h] = Tail(keys[h]) /\ found'[h] = IF r = None THEN found[h] ELSE Append(found[h], e)
  BY <1>4 DEF RegistryInv, Shapes
<1>20. Len(keys'[h]) = Len(keys[h]) - 1 /\ Len(found'[h]) = IF r = None THEN Len(found[h]) ELSE Len(found[h]) + 1
  BY <1>5, <1>8, <1>10
<1>21. Len(keys'[h]) + Len(found'[h]) <= LIMIT /\ (r # None => Len(keys'[h]) + Len(found'[h]) = Len(keys[h]) + Len(found[h]))
  <2>1. Len(keys[h]) + Len(found[h]) <= LIMIT
    BY DEF RegistryInv, RegistryTypeOK
  <2>2. \A m, n \in Nat : m + n <= LIMIT => (m - 1) + n <= LIMIT /\ (m - 1) + (n + 1) = m + n
    BY <1>2
  <2>3. /\ (Len(keys[h]) - 1) + Len(found[h]) <= LIMIT
        /\ (Len(keys[h]) - 1) + (Len(found[h]) + 1) = Len(keys[h]) + Len(found[h])
    BY <1>5, <1>9, <2>1, <2>2
  <2>4. CASE r = None
    BY <1>20, <2>3, <2>4
  <2>5. CASE r # None
    BY <1>20, <2>1, <2>3, <2>5
  <2>. QED
    BY <2>4, <2>5
<1>11. Shapes'
  <2>1. keys' \in [Handlers -> Seq(Keys)]
    BY <1>4, <1>5 DEF RegistryInv, Shapes
  <2>2. found' \in [Handlers -> Seq([key : Keys, record : 1..registered])]
    BY <1>4, <1>8 DEF RegistryInv, Shapes
  <2>. QED
    BY <1>1, <2>1, <2>2 DEF RegistryInv, Shapes
<1>12. ASSUME NEW g \in Handlers PROVE Len(keys'[g]) + Len(found'[g]) <= LIMIT
  <2>1. CASE g = h
    BY <1>21, <2>1
  <2>2. CASE g # h
    BY <1>4, <2>2 DEF RegistryInv, RegistryTypeOK, Shapes
  <2>. QED
    BY <2>1, <2>2
<1>13. RegistryTypeOK'
  BY <1>1, <1>11, <1>12 DEF RegistryInv, RegistryTypeOK, Shapes
<1>14. FinitelyStored'
  BY <1>1 DEF RegistryInv, FinitelyStored, Stored
<1>15. ASSUME NEW g \in Handlers, g # h PROVE ReportOf(g)'
  <2>1. UNCHANGED <<reportStep[g], asked[g], keys[g], found[g], began[g], undisturbed[g], reading_from_redis[g]>>
    BY <1>1, <1>4, <1>15 DEF RegistryInv, Shapes
  <2>. QED
    BY <1>1, <2>1, OtherReport DEF RegistryInv, ReportInv
<1>16. KeysLeft(h)' \subseteq KeysLeft(h) /\ KeysLeft(h) \subseteq KeysLeft(h)' \cup {k} /\ k \in KeysLeft(h)
  <2>1. KeysLeft(h)' = {Tail(keys[h])[i] : i \in 1..Len(Tail(keys[h]))}
    BY <1>10 DEF KeysLeft
  <2>2. ASSUME NEW x \in KeysLeft(h)' PROVE x \in KeysLeft(h)
    <3>1. PICK i \in 1..(Len(keys[h]) - 1) : x = keys[h][i + 1]
      BY <1>5, <2>1
    <3>. QED
      BY <1>5, <3>1 DEF KeysLeft
  <2>3. ASSUME NEW x \in KeysLeft(h), x # k PROVE x \in KeysLeft(h)'
    <3>1. PICK i \in 1..Len(keys[h]) : x = keys[h][i]
      BY DEF KeysLeft
    <3>2. i # 1 /\ i - 1 \in 1..(Len(keys[h]) - 1) /\ (i - 1) + 1 = i
      BY <1>5, <2>3, <3>1
    <3>. QED
      BY <1>5, <2>1, <3>1, <3>2
  <2>4. k \in KeysLeft(h)
    <3>1. 1 \in 1..Len(keys[h])
      BY <1>5
    <3>. QED
      BY <1>5, <3>1 DEF KeysLeft
  <2>. QED
    BY <2>2, <2>3, <2>4
<1>17. Found(h)' = IF r = None THEN Found(h) ELSE Found(h) \cup {e}
  <2>1. CASE r = None
    BY <1>10, <2>1 DEF Found
  <2>2. CASE r # None
    <3>1. 1..(Len(found[h]) + 1) = 1..Len(found[h]) \cup {Len(found[h]) + 1}
      BY <1>9
    <3>2. Found(h)' = {Append(found[h], e)[i] : i \in 1..(Len(found[h]) + 1)}
      BY <1>8, <1>10, <2>2 DEF Found
    <3>3. Found(h)' = {Append(found[h], e)[i] : i \in 1..Len(found[h])} \cup {e}
      BY <1>8, <2>2, <3>1, <3>2
    <3>4. {Append(found[h], e)[i] : i \in 1..Len(found[h])} = Found(h)
      BY <1>8, <2>2 DEF Found
    <3>. QED
      BY <2>2, <3>3, <3>4
  <2>. QED
    BY <2>1, <2>2
<1>18. ASSUME undisturbed[h] PROVE Awaited(h)' /\ Kept(h)'
  <2>1. Awaited(h) /\ Kept(h)
    BY <1>4, <1>18 DEF RegistryInv, ReportInv, ReportOf
  <2>2. Store(h[1])' = Store(h[1]) /\ Reachable(h[1])' = Reachable(h[1])
    BY <1>1 DEF Store, Reachable
  <2>3. Awaited(h)'
    BY <1>1, <1>16, <2>1, <2>2 DEF Awaited
  <2>4. r = Store(h[1])[k] /\ r # None /\ began[h][k] <= r
    <3>1. reading_from_redis[h] = Reachable(h[1]) /\ Store(h[1])[k] # None /\ began[h][k] <= Store(h[1])[k]
      BY <1>4, <1>5, <1>16, <2>1 DEF Awaited
    <3>2. r = Store(h[1])[k]
      BY <3>1 DEF Store, Reachable, r
    <3>. QED
      BY <3>1, <3>2
  <2>5. AskedAbout(h, k) /\ e.record >= began[h][e.key] /\ AskedAbout(h, e.key)
    <3>1. AskedAbout(h, k)
      BY <1>16, <2>1 DEF Kept
    <3>2. began[h][k] \in Nat /\ r \in Nat
      BY <1>2, <1>5, <1>6 DEF RegistryInv, Shapes
    <3>. QED
      BY <2>4, <3>1, <3>2 DEF e
  <2>6. Found(h)' = Found(h) \cup {e}
    BY <1>17, <2>4
  <2>7. Matching(began[h], asked[h])' = Matching(began[h], asked[h])
    BY <1>1 DEF Matching
  <2>8. Len(keys'[h]) + Len(found'[h]) = Len(keys[h]) + Len(found[h])
    BY <1>21, <2>4
  <2>9. ASSUME Len(keys'[h]) + Len(found'[h]) < LIMIT
        PROVE  Matching(began[h], asked[h]) \subseteq KeysLeft(h)' \cup {x.key : x \in Found(h)'}
    <3>1. Matching(began[h], asked[h]) \subseteq KeysLeft(h) \cup {x.key : x \in Found(h)}
      BY <2>1, <2>8, <2>9 DEF Kept
    <3>2. {x.key : x \in Found(h)'} = {x.key : x \in Found(h)} \cup {e.key}
      BY <2>6
    <3>3. e.key = k
      BY DEF e
    <3>. QED
      BY <1>16, <3>1, <3>2, <3>3
  <2>10. \A x \in Found(h)' : x.record >= began[h][x.key] /\ AskedAbout(h, x.key)
    BY <2>1, <2>5, <2>6 DEF Kept
  <2>11. \A x \in KeysLeft(h)' : AskedAbout(h, x)
    BY <1>16, <2>1 DEF Kept
  <2>12. Kept(h)'
    BY <1>1, <2>7, <2>9, <2>10, <2>11 DEF Kept, AskedAbout
  <2>. QED
    BY <2>3, <2>12
<1>19. ReportInv'
  BY <1>1, <1>4, <1>15, <1>18 DEF ReportInv, ReportOf
<1>. QED
  BY <1>11, <1>13, <1>14, <1>19 DEF RegistryInv

LEMMA FinishStep ==
    ASSUME RegistryInv, NEW h \in Handlers, Finish(h)
    PROVE  RegistryInv'
<1>1. UNCHANGED <<redis, _inproc, registered, redis_up, redis_client, asked, keys, found, reading_from_redis, began, undisturbed>>
  BY DEF Finish, stores, env
<1>2. reportStep[h] = "read" /\ keys[h] = <<>> /\ reportStep' = [reportStep EXCEPT ![h] = "idle"]
  BY DEF Finish
<1>3. Shapes'
  BY <1>1, <1>2 DEF RegistryInv, Shapes, Finish
<1>4. RegistryTypeOK'
  BY <1>1, <1>3 DEF RegistryInv, RegistryTypeOK, Shapes
<1>5. FinitelyStored'
  BY <1>1 DEF RegistryInv, FinitelyStored, Stored
<1>6. ASSUME NEW g \in Handlers, g # h PROVE ReportOf(g)'
  <2>1. UNCHANGED <<reportStep[g], asked[g], keys[g], found[g], began[g], undisturbed[g], reading_from_redis[g]>>
    BY <1>1, <1>2, <1>6 DEF RegistryInv, Shapes
  <2>. QED
    BY <1>1, <2>1, OtherReport DEF RegistryInv, ReportInv
<1>7. Kept(h) => Kept(h)'
  <2>1. KeysLeft(h)' = KeysLeft(h) /\ Found(h)' = Found(h)
    BY <1>1 DEF KeysLeft, Found
  <2>2. Matching(began[h], asked[h])' = Matching(began[h], asked[h])
    BY <1>1 DEF Matching
  <2>. QED
    BY <1>1, <2>1, <2>2 DEF Kept, AskedAbout
<1>8. ReportOf(h)'
  BY <1>1, <1>2, <1>7 DEF RegistryInv, ReportInv, ReportOf, Shapes
<1>. QED
  BY <1>3, <1>4, <1>5, <1>6, <1>8 DEF RegistryInv, ReportInv

\* What fails, expires or restarts ends what is owed to the reports under way.
LEMMA DisturbedStep ==
    ASSUME RegistryInv, Expire \/ Outage \/ \E w \in Workers : Restart(w)
    PROVE  RegistryInv'
<1>1. /\ registered' = registered /\ asked' = asked /\ reading_from_redis' = reading_from_redis /\ began' = began
      /\ undisturbed' = [h \in Handlers |-> FALSE]
  BY DEF Expire, Outage, Restart, Disturb, stores, report
<1>2. /\ redis \in [Keys -> 0..registered] /\ _inproc \in [Workers -> [Keys -> 0..registered]]
      /\ redis_up \in BOOLEAN /\ redis_client \in [Workers -> BOOLEAN]
      /\ registered \in Nat /\ 0 \in 0..registered /\ LIMIT \in Nat
  BY RegistryAssumption DEF RegistryInv, RegistryTypeOK
<1>3. ASSUME NEW k \in Keys, NEW f \in [Keys -> 0..registered]
      PROVE  /\ [f EXCEPT ![k] = None] \in [Keys -> 0..registered]
             /\ Stored([f EXCEPT ![k] = None]) \subseteq Stored(f)
  BY <1>2 DEF Stored, None
<1>4. /\ [k \in Keys |-> None] \in [Keys -> 0..registered]
      /\ Stored([k \in Keys |-> None]) = {}
  BY <1>2 DEF Stored, None
<1>. DEFINE Shrinks == /\ redis' \in [Keys -> 0..registered] /\ Stored(redis') \subseteq Stored(redis)
                       /\ _inproc' \in [Workers -> [Keys -> 0..registered]]
                       /\ \A w \in Workers : Stored(_inproc'[w]) \subseteq Stored(_inproc[w])
<1>5. Shrinks
  <2>1. CASE Expire
    <3>1. PICK k \in Keys :
             \/ redis' = [redis EXCEPT ![k] = None] /\ UNCHANGED _inproc
             \/ /\ \E w \in Workers : _inproc' = [_inproc EXCEPT ![w] = [_inproc[w] EXCEPT ![k] = None]]
                /\ UNCHANGED redis
      BY <2>1, <1>2 DEF Expire
    <3>2. CASE redis' = [redis EXCEPT ![k] = None] /\ UNCHANGED _inproc
      BY <1>2, <1>3, <3>2
    <3>3. ASSUME NEW w \in Workers, _inproc' = [_inproc EXCEPT ![w] = [_inproc[w] EXCEPT ![k] = None]], UNCHANGED redis
          PROVE  Shrinks
      <4>1. _inproc[w] \in [Keys -> 0..registered]
        BY <1>2
      <4>2. /\ [_inproc[w] EXCEPT ![k] = None] \in [Keys -> 0..registered]
            /\ Stored([_inproc[w] EXCEPT ![k] = None]) \subseteq Stored(_inproc[w])
        BY <1>3, <4>1
      <4>. QED
        BY <1>2, <3>3, <4>2
    <3>. QED
      BY <3>1, <3>2, <3>3
  <2>2. CASE Outage
    BY <1>2, <2>2 DEF Outage, stores
  <2>3. ASSUME NEW w \in Workers, Restart(w)
        PROVE  Shrinks
    BY <1>2, <1>4, <2>3 DEF Restart
  <2>. QED
    BY <2>1, <2>2, <2>3
<1>6. redis_up' \in BOOLEAN /\ redis_client' \in [Workers -> BOOLEAN]
  <2>1. ASSUME NEW w \in Workers, Restart(w) PROVE redis_up' \in BOOLEAN /\ redis_client' \in [Workers -> BOOLEAN]
    <3>1. PICK c \in {redis_up, FALSE} : redis_client' = [redis_client EXCEPT ![w] = c]
      BY <2>1 DEF Restart
    <3>. QED
      BY <1>2, <2>1, <3>1 DEF Restart
  <2>. QED
    BY <1>2, <2>1 DEF Expire, Outage, env
<1>. DEFINE Stands == /\ reportStep' \in [Handlers -> {"idle", "scan", "read"}] /\ storage' \in [Handlers -> {"none", "redis", "in_process"}]
                      /\ keys' \in [Handlers -> Seq(Keys)] /\ found' \in [Handlers -> Seq([key : Keys, record : 1..registered])]
                      /\ \A h \in Handlers :
                            \/ UNCHANGED <<keys[h], found[h], reportStep[h]>>
                            \/ keys'[h] = <<>> /\ found'[h] = <<>> /\ reportStep'[h] = "idle"
<1>7. Stands
  <2>0. \A S : <<>> \in Seq(S)
    BY EmptySeq
  <2>1. CASE Expire \/ Outage
    BY <2>1 DEF Expire, Outage, report, RegistryInv, Shapes
  <2>2. ASSUME NEW w \in Workers, Restart(w) PROVE Stands
    BY <2>0, <2>2 DEF Restart, RegistryInv, Shapes
  <2>. QED
    BY <2>1, <2>2
<1>8. Shapes'
  BY <1>1, <1>7 DEF RegistryInv, Shapes
<1>9. ASSUME NEW h \in Handlers PROVE Len(keys'[h]) + Len(found'[h]) <= LIMIT
  <2>1. Len(<<>>) = 0
    BY EmptySeq
  <2>2. Len(keys[h]) + Len(found[h]) <= LIMIT
    BY DEF RegistryInv, RegistryTypeOK
  <2>3. CASE UNCHANGED <<keys[h], found[h]>>
    BY <2>2, <2>3
  <2>4. CASE keys'[h] = <<>> /\ found'[h] = <<>>
    BY <1>2, <2>1, <2>4
  <2>. QED
    BY <1>7, <2>3, <2>4
<1>10. RegistryTypeOK'
  BY <1>1, <1>5, <1>6, <1>8, <1>9 DEF RegistryInv, RegistryTypeOK, Shapes
<1>11. FinitelyStored'
  <2>1. IsFiniteSet(Stored(redis'))
    BY <1>5, FS_Subset DEF RegistryInv, FinitelyStored
  <2>2. ASSUME NEW w \in Workers PROVE IsFiniteSet(Stored(_inproc'[w]))
    BY <1>5, FS_Subset DEF RegistryInv, FinitelyStored
  <2>. QED
    BY <2>1, <2>2 DEF FinitelyStored, Stored
<1>12. ReportInv'
  BY <1>1, <1>7 DEF RegistryInv, ReportInv, ReportOf
<1>. QED
  BY <1>8, <1>10, <1>11, <1>12 DEF RegistryInv

-----------------------------------------------------------------------------
(* The theorems. *)

\* The inductive invariant holds in every state of the registry.
THEOREM RegistryInvariance == RegistrySpec => []RegistryInv
<1>1. ASSUME RegistryInv, [RegistryNext]_registryVars PROVE RegistryInv'
  <2>1. CASE RegistryNext
    BY <1>1, <2>1, BeginStep, ScanStep, ReadStep, FinishStep, RegisterStep, DisturbedStep
       DEF RegistryNext, ReportStep
  <2>2. CASE UNCHANGED registryVars
    <3>1. RegistryTypeOK' /\ Shapes' /\ FinitelyStored'
      BY <1>1, <2>2 DEF RegistryInv, RegistryTypeOK, Shapes, FinitelyStored, Stored, registryVars, stores, env, report
    <3>2. \A h \in Handlers : ReportOf(h)'
      BY <1>1, <2>2, OtherReport DEF RegistryInv, ReportInv, registryVars, stores, env, report
    <3>. QED
      BY <3>1, <3>2 DEF RegistryInv, ReportInv
  <2>. QED
    BY <1>1, <2>1, <2>2
<1>. QED
  BY <1>1, RegistryInitially, PTL DEF RegistrySpec

\* A calibration report that nothing fails under has every record its store
\* held when it began, unless the limit cut it, none older and none of another
\* class, however the registrations of other workers race with it; and no
\* report, disturbed or not, is longer than the limit.
THEOREM ReportsAreSound == RegistrySpec => []ReportsSound
<1>1. ASSUME RegistryInv, NEW h \in Handlers, Finished(h), undisturbed[h]
      PROVE  LET due == Matching(began[h], asked[h])
                 got == {found[h][i] : i \in 1..Len(found[h])}
             IN  /\ Len(found[h]) < LIMIT => due \subseteq {r.key : r \in got}
                 /\ \A r \in got : r.record >= began[h][r.key] /\ asked[h] \in {All, r.key[1]}
  <2>1. Kept(h) /\ keys[h] = <<>>
    BY <1>1 DEF RegistryInv, ReportInv, ReportOf, Finished
  <2>2. Len(keys[h]) = 0 /\ KeysLeft(h) = {} /\ Len(found[h]) \in Nat
    BY <1>1, <2>1, EmptySeq, LenProperties DEF KeysLeft, RegistryInv, Shapes
  <2>. QED
    BY <2>1, <2>2 DEF Kept, Found, AskedAbout
<1>2. RegistryInv => ReportsSound
  BY <1>1 DEF ReportsSound, ReportComplete, RegistryInv
<1>. QED
  BY <1>2, RegistryInvariance, PTL
=============================================================================
