------------------------- MODULE CriticalPathProofs -------------------------
(* Theorems about Cpm, CriticalPath and DrivingGraph, for every number of    *)
(* activities, every snapshot whose links go forward in its order, and every *)
(* choice of durations and lags; in the second half, for every limit and     *)
(* tolerance of the driving graph too, and every schedule whose activities   *)
(* all lie between its start and its end.                                    *)
EXTENDS TLAPS, CriticalPath, DrivingGraph, WellFoundedInduction, SequenceTheorems

-----------------------------------------------------------------------------
(* The inductive invariant.  A date is settled from the visit of its         *)
(* activity on; both loops visit a link's far end before they read it, which *)
(* is what order being topological gives.                                    *)

ForwardSettled(q) == q \in 1..N /\ (pc = "forward" => q < pos)
BackwardSettled(q) == q \in 1..N /\ (pc = "done" \/ (pc = "backward" /\ q > pos))

EarlySettled(j) == EF[j] = ES[j] + durations[j] /\ IsMax(ES[j], StartBounds(j))
LateSettled(i) == LS[i] = LF[i] - durations[i] /\ IsMin(LF[i], FinishBounds(i))

EarlyInv == \A q \in 1..N : ForwardSettled(q) => EarlySettled(topo_order[q])
LateInv  == \A q \in 1..N : BackwardSettled(q) => LateSettled(topo_order[q])
LeastInv == \A S \in Schedules : Feasible(S) =>
               \A q \in 1..N : ForwardSettled(q) => ES[topo_order[q]] <= S[topo_order[q]]
GreatestInv == \A S \in Schedules : Feasible(S) /\ Fits(S) =>
               \A q \in 1..N : BackwardSettled(q) => S[topo_order[q]] <= LS[topo_order[q]]
FloatInv == \A q \in 1..N : BackwardSettled(q) => ES[topo_order[q]] <= LS[topo_order[q]]
MakespanInv == pc # "forward" => IsMax(makespan, {EF[j] : j \in Activities})
SlackInv == pc = "done" =>
               /\ TF = [j \in Activities |-> LS[j] - ES[j]]
               /\ critical_mask = {j \in Activities : TF[j] = 0}

IInv == /\ TypeOK /\ EarlyInv /\ LateInv /\ LeastInv /\ GreatestInv
        /\ FloatInv /\ MakespanInv /\ SlackInv

-----------------------------------------------------------------------------
(* The snapshot: its links are typed and go forward in its order.            *)

LEMMA LinkType ==
    ASSUME TypeOK, NEW e \in links
    PROVE  /\ e.from \in Activities /\ e.to \in Activities
           /\ e.lag \in Int /\ e.rel \in Relations
           /\ ForwardBound(e) \in Int /\ BackwardBound(e) \in Int
<1>1. e \in Link
  BY DEF TypeOK, WellFormed
<1>2. durations \in [Activities -> Nat]
  BY DurationAssumption DEF TypeOK
<1>. QED
  BY <1>1, <1>2 DEF TypeOK, Link, ForwardBound, BackwardBound

LEMMA LinkGoesForward ==
    ASSUME TypeOK, NEW e \in links
    PROVE  \E a, b \in 1..N : topo_order[a] = e.from /\ topo_order[b] = e.to /\ a < b
<1>1. e.from \in Activities /\ e.to \in Activities
  BY LinkType
<1>. QED
  BY <1>1 DEF TypeOK, WellFormed

LEMMA OrderFacts ==
    ASSUME TypeOK
    PROVE  /\ \A q \in 1..N : topo_order[q] \in Activities
           /\ \A j \in Activities : \E q \in 1..N : topo_order[q] = j
           /\ \A p, q \in 1..N : topo_order[p] = topo_order[q] => p = q
BY DEF TypeOK, WellFormed

LEMMA DurationFacts ==
    ASSUME TypeOK
    PROVE  durations \in [Activities -> Nat]
BY DurationAssumption DEF TypeOK

-----------------------------------------------------------------------------
(* Type correctness. *)

LEMMA TypeInit == Init => TypeOK
<1>. SUFFICES ASSUME Init PROVE TypeOK
  OBVIOUS
<1>1. PICK s \in Snapshots : topo_order = s.order /\ links = s.links
  BY DEF Init
<1>2. WellFormed([order |-> topo_order, links |-> links])
  BY <1>1, SnapshotAssumption DEF WellFormed
<1>3. pos \in 0..(N + 1) /\ runs \in 1..MaxRuns
  BY SizeAssumption, RunsAssumption DEF Init
<1>. QED
  BY <1>2, <1>3 DEF Init, TypeOK

LEMMA TypeStep == TypeOK /\ [Next]_vars => TypeOK'
<1>. SUFFICES ASSUME TypeOK, [Next]_vars PROVE TypeOK'
  OBVIOUS
<1>. USE SizeAssumption, DurationFacts
<1>0. WellFormed([order |-> topo_order, links |-> links])'
  <2>1. topo_order' = topo_order /\ links' = links
    BY DEF Next, ForwardVisit, TakeMakespan, BackwardVisit, TakeSlack, Rerun, vars, graph
  <2>. QED
    BY <2>1 DEF TypeOK
<1>1. CASE ForwardVisit
  <2>. DEFINE j == topo_order[pos]
  <2>1. j \in Activities
    BY <1>0, <1>1, OrderFacts DEF ForwardVisit, TypeOK
  <2>2. PICK m \in StartBounds(j) : /\ IsMax(m, StartBounds(j))
                                    /\ ES' = [ES EXCEPT ![j] = m]
                                    /\ EF' = [EF EXCEPT ![j] = m + durations[j]]
    BY <1>0, <1>1 DEF ForwardVisit
  <2>3. m \in Nat
    <3>1. m \in Int
      BY <2>2, LinkType DEF StartBounds, LinksInto
    <3>2. 0 <= m
      BY <2>2 DEF IsMax, StartBounds
    <3>. QED
      BY <3>1, <3>2
  <2>4. ES' \in [Activities -> Nat] /\ EF' \in [Activities -> Nat]
    BY <2>1, <2>2, <2>3 DEF TypeOK
  <2>5. pos' \in 0..(N + 1) /\ pos' >= 1
    BY <1>0, <1>1 DEF ForwardVisit, TypeOK
  <2>. QED
    BY <1>0, <1>1, <2>4, <2>5 DEF ForwardVisit, TypeOK, late, slack
<1>2. CASE TakeMakespan
  <2>1. makespan' \in Nat /\ LF' \in [Activities -> Int]
    BY <1>0, <1>2 DEF TakeMakespan, TypeOK
  <2>. QED
    BY <1>0, <1>2, <2>1 DEF TakeMakespan, TypeOK, early, slack
<1>3. CASE BackwardVisit
  <2>. DEFINE i == topo_order[pos]
  <2>1. i \in Activities
    BY <1>0, <1>3, OrderFacts DEF BackwardVisit, TypeOK
  <2>2. PICK m \in FinishBounds(i) : /\ LF' = [LF EXCEPT ![i] = m]
                                     /\ LS' = [LS EXCEPT ![i] = m - durations[i]]
    BY <1>0, <1>3 DEF BackwardVisit
  <2>3. m \in Int
    BY <2>2, LinkType DEF FinishBounds, LinksFrom, TypeOK
  <2>4. LF' \in [Activities -> Int] /\ LS' \in [Activities -> Int]
    BY <2>1, <2>2, <2>3 DEF TypeOK
  <2>5. pos' \in 0..(N + 1) /\ pos' <= N
    BY <1>0, <1>3 DEF BackwardVisit, TypeOK
  <2>. QED
    BY <1>0, <1>3, <2>4, <2>5 DEF BackwardVisit, TypeOK, early, slack
<1>4. CASE TakeSlack
  BY <1>0, <1>4 DEF TakeSlack, TypeOK, early, late
<1>5. CASE Rerun
  <2>1. durations' \in [Activities -> Durations] /\ ES' \in [Activities -> Nat]
    BY <1>0, <1>5 DEF Rerun
  <2>2. runs' \in 1..MaxRuns /\ pos' \in 0..(N + 1)
    BY <1>0, <1>5, RunsAssumption DEF Rerun, TypeOK
  <2>. QED
    BY <1>0, <1>5, <2>1, <2>2 DEF Rerun, TypeOK, late, slack
<1>6. CASE UNCHANGED vars
  BY <1>0, <1>6 DEF vars, early, late, slack, TypeOK
<1>. QED
  BY <1>1, <1>2, <1>3, <1>4, <1>5, <1>6 DEF Next

\* The dates, the mask and the loop counters of run_cpm keep their types:
\* no early date is negative whatever the lags, and the snapshot stays an order
\* that its links go forward in.
THEOREM TypeCorrect == Spec => []TypeOK
  BY TypeInit, TypeStep, PTL DEF Spec

-----------------------------------------------------------------------------
(* What each loop iteration leaves settled. *)

\* The visit of the activity at pos changes no bound of an activity up to pos.
LEMMA ForwardKeepsBounds ==
    ASSUME TypeOK, ForwardVisit, NEW q \in 1..N, q <= pos
    PROVE  StartBounds(topo_order[q])' = StartBounds(topo_order[q])
<1>. DEFINE j == topo_order[pos]
<1>1. PICK m \in StartBounds(j) : /\ ES' = [ES EXCEPT ![j] = m]
                                  /\ EF' = [EF EXCEPT ![j] = m + durations[j]]
  BY DEF ForwardVisit
<1>2. links' = links /\ topo_order' = topo_order /\ durations' = durations
  BY DEF ForwardVisit, graph
<1>3. ASSUME NEW e \in LinksInto(topo_order[q])
      PROVE  ForwardBound(e)' = ForwardBound(e)
  <2>1. e \in links /\ e.to = topo_order[q]
    BY <1>3 DEF LinksInto
  <2>2. PICK a, b \in 1..N : topo_order[a] = e.from /\ topo_order[b] = e.to /\ a < b
    BY <2>1, LinkGoesForward
  <2>3. b = q
    BY <2>1, <2>2, OrderFacts
  <2>4. a # pos /\ pos \in 1..N
    BY <2>2, <2>3, SizeAssumption DEF ForwardVisit, TypeOK
  <2>5. e.from # j /\ e.from \in Activities
    BY <2>1, <2>2, <2>4, OrderFacts, LinkType
  <2>6. ES'[e.from] = ES[e.from] /\ EF'[e.from] = EF[e.from]
    BY <1>1, <2>5 DEF TypeOK
  <2>. QED
    BY <1>2, <2>6 DEF ForwardBound
<1>4. LinksInto(topo_order[q])' = LinksInto(topo_order[q])
  BY <1>2 DEF LinksInto
<1>. QED
  BY <1>2, <1>3, <1>4 DEF StartBounds

LEMMA BackwardKeepsBounds ==
    ASSUME TypeOK, BackwardVisit, NEW q \in 1..N, q >= pos
    PROVE  FinishBounds(topo_order[q])' = FinishBounds(topo_order[q])
<1>. DEFINE i == topo_order[pos]
<1>1. PICK m \in FinishBounds(i) : /\ LF' = [LF EXCEPT ![i] = m]
                                   /\ LS' = [LS EXCEPT ![i] = m - durations[i]]
  BY DEF BackwardVisit
<1>2. /\ links' = links /\ topo_order' = topo_order
      /\ durations' = durations /\ makespan' = makespan
  BY DEF BackwardVisit, graph
<1>3. ASSUME NEW e \in LinksFrom(topo_order[q])
      PROVE  BackwardBound(e)' = BackwardBound(e)
  <2>1. e \in links /\ e.from = topo_order[q]
    BY <1>3 DEF LinksFrom
  <2>2. PICK a, b \in 1..N : topo_order[a] = e.from /\ topo_order[b] = e.to /\ a < b
    BY <2>1, LinkGoesForward
  <2>3. a = q
    BY <2>1, <2>2, OrderFacts
  <2>4. b # pos /\ pos \in 1..N
    BY <2>2, <2>3, SizeAssumption DEF BackwardVisit, TypeOK
  <2>5. e.to # i /\ e.to \in Activities
    BY <2>1, <2>2, <2>4, OrderFacts, LinkType
  <2>6. LS'[e.to] = LS[e.to] /\ LF'[e.to] = LF[e.to]
    BY <1>1, <2>5 DEF TypeOK
  <2>. QED
    BY <1>2, <2>6 DEF BackwardBound
<1>4. LinksFrom(topo_order[q])' = LinksFrom(topo_order[q])
  BY <1>2 DEF LinksFrom
<1>. QED
  BY <1>2, <1>3, <1>4 DEF FinishBounds

\* Feasibility of a schedule depends on the links and durations alone.
LEMMA FeasibleKept ==
    ASSUME NEW S, links' = links, durations' = durations
    PROVE  Feasible(S)' <=> Feasible(S)
BY DEF Feasible, Meets

LEMMA FitsKept ==
    ASSUME NEW S, durations' = durations, makespan' = makespan
    PROVE  Fits(S)' <=> Fits(S)
BY DEF Fits, Activities

\* Settled early dates satisfy each link into their activity.
LEMMA EarlyMeets ==
    ASSUME TypeOK, NEW e \in links, EarlySettled(e.to)
    PROVE  ForwardBound(e) <= ES[e.to]
BY DEF EarlySettled, IsMax, StartBounds, LinksInto

LEMMA LateMeets ==
    ASSUME TypeOK, NEW e \in links, LateSettled(e.from)
    PROVE  LF[e.from] <= BackwardBound(e)
BY DEF LateSettled, IsMin, FinishBounds, LinksFrom

-----------------------------------------------------------------------------
(* The invariant holds initially and is kept by every action. *)

LEMMA InvInit == Init => IInv
<1>. SUFFICES ASSUME Init PROVE IInv
  OBVIOUS
<1>1. TypeOK
  BY TypeInit
<1>2. \A q \in 1..N : ~ForwardSettled(q) /\ ~BackwardSettled(q)
  BY DEF Init, ForwardSettled, BackwardSettled
<1>. QED
  BY <1>1, <1>2 DEF Init, IInv, EarlyInv, LateInv, LeastInv, GreatestInv,
                    FloatInv, MakespanInv, SlackInv

LEMMA ForwardVisitKeeps == IInv /\ ForwardVisit => IInv'
<1>. SUFFICES ASSUME IInv, ForwardVisit PROVE IInv'
  OBVIOUS
<1>. DEFINE j == topo_order[pos]
<1>0. TypeOK /\ TypeOK' /\ pos \in 1..N /\ j \in Activities
  <2>1. TypeOK /\ TypeOK'
    BY TypeStep DEF IInv, Next
  <2>2. pos \in 1..N
    BY <2>1, SizeAssumption DEF TypeOK, ForwardVisit
  <2>. QED
    BY <2>1, <2>2, OrderFacts
<1>1. PICK m \in StartBounds(j) : /\ IsMax(m, StartBounds(j))
                                  /\ ES' = [ES EXCEPT ![j] = m]
                                  /\ EF' = [EF EXCEPT ![j] = m + durations[j]]
  BY DEF ForwardVisit
<1>2. /\ links' = links /\ topo_order' = topo_order /\ durations' = durations
      /\ pc = "forward" /\ pc' = "forward" /\ pos' = pos + 1
  BY DEF ForwardVisit, graph
<1>3. \A q \in 1..N : ForwardSettled(q)' => q = pos \/ (ForwardSettled(q) /\ q < pos)
  BY <1>0, <1>2 DEF ForwardSettled
<1>4. \A q \in 1..N : ~BackwardSettled(q)'
  BY <1>2 DEF BackwardSettled
<1>5. ASSUME NEW q \in 1..N, q < pos
      PROVE  /\ topo_order[q] # j /\ topo_order[q] \in Activities
             /\ ES'[topo_order[q]] = ES[topo_order[q]]
             /\ EF'[topo_order[q]] = EF[topo_order[q]]
  BY <1>0, <1>1, <1>5, OrderFacts DEF TypeOK
<1>6. ES'[j] = m /\ EF'[j] = m + durations[j]
  BY <1>0, <1>1 DEF TypeOK
<1>7. EarlyInv'
  <2>. SUFFICES ASSUME NEW q \in 1..N, ForwardSettled(q)'
                PROVE  EarlySettled(topo_order[q])'
    BY DEF EarlyInv
  <2>1. CASE q = pos
    <3>1. StartBounds(topo_order[q])' = StartBounds(topo_order[q])
      BY <1>0, <2>1, ForwardKeepsBounds
    <3>. QED
      BY <2>1, <3>1, <1>1, <1>2, <1>6 DEF EarlySettled, IsMax
  <2>2. CASE ForwardSettled(q) /\ q < pos
    <3>1. StartBounds(topo_order[q])' = StartBounds(topo_order[q])
      BY <1>0, <2>2, ForwardKeepsBounds
    <3>2. EarlySettled(topo_order[q])
      BY <2>2 DEF IInv, EarlyInv
    <3>. QED
      BY <2>2, <3>1, <3>2, <1>2, <1>5 DEF EarlySettled, IsMax
  <2>. QED
    BY <1>3, <2>1, <2>2
<1>8. LeastInv'
  <2>. SUFFICES ASSUME NEW S \in Schedules, Feasible(S), NEW q \in 1..N, ForwardSettled(q)'
                PROVE  ES'[topo_order[q]] <= S[topo_order[q]]
    BY <1>2, FeasibleKept DEF LeastInv, Schedules
  <2>0. S \in [Activities -> Nat] /\ durations \in [Activities -> Nat]
    BY <1>0, StartDateAssumption, DurationFacts DEF Schedules
  <2>1. CASE q = pos
    <3>1. CASE m = 0
      BY <2>0, <2>1, <3>1, <1>0, <1>6
    <3>2. CASE \E e \in LinksInto(j) : m = ForwardBound(e)
      <4>1. PICK e \in links : e.to = j /\ m = ForwardBound(e)
        BY <3>2 DEF LinksInto
      <4>2. PICK a, b \in 1..N : topo_order[a] = e.from /\ topo_order[b] = e.to /\ a < b
        BY <1>0, LinkGoesForward
      <4>3. a < pos
        BY <1>0, <4>1, <4>2, OrderFacts
      <4>4. ForwardSettled(a)
        BY <1>2, <4>3 DEF ForwardSettled
      <4>5. ES[e.from] <= S[e.from] /\ EF[e.from] = ES[e.from] + durations[e.from]
        BY <4>2, <4>4 DEF IInv, LeastInv, EarlyInv, EarlySettled
      <4>6. Meets(S, e)
        BY DEF Feasible
      <4>7. e.from \in Activities /\ e.lag \in Int
        BY <1>0, LinkType
      <4>8. S[e.from] \in Nat /\ S[j] \in Nat /\ durations[e.from] \in Nat
            /\ durations[j] \in Nat /\ ES[e.from] \in Nat
        BY <1>0, <2>0, <4>7 DEF TypeOK
      <4>9. m <= S[j]
        BY <4>1, <4>5, <4>6, <4>7, <4>8 DEF ForwardBound, Meets
      <4>. QED
        BY <2>1, <4>9, <1>6
    <3>. QED
      BY <1>1, <3>1, <3>2 DEF StartBounds
  <2>2. CASE ForwardSettled(q) /\ q < pos
    BY <2>2, <1>5 DEF IInv, LeastInv
  <2>. QED
    BY <1>3, <2>1, <2>2
<1>9. LateInv' /\ GreatestInv' /\ FloatInv' /\ MakespanInv' /\ SlackInv'
  BY <1>2, <1>4 DEF LateInv, GreatestInv, FloatInv, MakespanInv, SlackInv
<1>. QED
  BY <1>0, <1>7, <1>8, <1>9 DEF IInv

LEMMA TakeMakespanKeeps == IInv /\ TakeMakespan => IInv'
<1>. SUFFICES ASSUME IInv, TakeMakespan PROVE IInv'
  OBVIOUS
<1>0. TypeOK /\ TypeOK'
  BY TypeStep DEF IInv, Next
<1>1. /\ links' = links /\ topo_order' = topo_order /\ durations' = durations
      /\ ES' = ES /\ EF' = EF /\ pc = "forward" /\ pos = N + 1
      /\ pc' = "backward" /\ pos' = N
  BY DEF TakeMakespan, graph, early
<1>2. \A q \in 1..N : ForwardSettled(q) /\ ~BackwardSettled(q)'
  BY <1>1, SizeAssumption DEF ForwardSettled, BackwardSettled
<1>3. EarlyInv'
  <2>. SUFFICES ASSUME NEW q \in 1..N PROVE EarlySettled(topo_order[q])'
    BY DEF EarlyInv
  <2>1. EarlySettled(topo_order[q])
    BY <1>2 DEF IInv, EarlyInv
  <2>2. StartBounds(topo_order[q])' = StartBounds(topo_order[q])
    BY <1>1 DEF StartBounds, LinksInto, ForwardBound
  <2>. QED
    BY <2>1, <2>2, <1>1 DEF EarlySettled, IsMax
<1>4. LeastInv'
  BY <1>1, <1>2, FeasibleKept DEF IInv, LeastInv, Schedules
<1>5. MakespanInv'
  BY <1>1 DEF TakeMakespan, MakespanInv, IsMax
<1>6. LateInv' /\ GreatestInv' /\ FloatInv' /\ SlackInv'
  BY <1>1, <1>2 DEF LateInv, GreatestInv, FloatInv, SlackInv
<1>. QED
  BY <1>0, <1>3, <1>4, <1>5, <1>6 DEF IInv

LEMMA BackwardVisitKeeps == IInv /\ BackwardVisit => IInv'
<1>. SUFFICES ASSUME IInv, BackwardVisit PROVE IInv'
  OBVIOUS
<1>. DEFINE i == topo_order[pos]
<1>0. TypeOK /\ TypeOK' /\ pos \in 1..N /\ i \in Activities
  <2>1. TypeOK /\ TypeOK'
    BY TypeStep DEF IInv, Next
  <2>2. pos \in 1..N
    BY <2>1, SizeAssumption DEF TypeOK, BackwardVisit
  <2>. QED
    BY <2>1, <2>2, OrderFacts
<1>1. PICK m \in FinishBounds(i) : /\ IsMin(m, FinishBounds(i))
                                   /\ LF' = [LF EXCEPT ![i] = m]
                                   /\ LS' = [LS EXCEPT ![i] = m - durations[i]]
  BY DEF BackwardVisit
<1>2. /\ links' = links /\ topo_order' = topo_order /\ durations' = durations
      /\ ES' = ES /\ EF' = EF /\ makespan' = makespan
      /\ pc = "backward" /\ pc' = "backward" /\ pos' = pos - 1
  BY DEF BackwardVisit, graph, early
<1>3. \A q \in 1..N : BackwardSettled(q)' => q = pos \/ (BackwardSettled(q) /\ q > pos)
  BY <1>0, <1>2 DEF BackwardSettled
<1>4. \A q \in 1..N : ForwardSettled(q)
  BY <1>2 DEF ForwardSettled
<1>5. ASSUME NEW q \in 1..N, q > pos
      PROVE  /\ topo_order[q] # i /\ topo_order[q] \in Activities
             /\ LS'[topo_order[q]] = LS[topo_order[q]]
             /\ LF'[topo_order[q]] = LF[topo_order[q]]
  BY <1>0, <1>1, <1>5, OrderFacts DEF TypeOK
<1>6. LF'[i] = m /\ LS'[i] = m - durations[i]
  BY <1>0, <1>1 DEF TypeOK
<1>7. m = makespan \/ \E e \in links : e.from = i /\ m = BackwardBound(e)
  BY <1>1 DEF FinishBounds, LinksFrom
\* The far end of a link out of i has been visited.
<1>8. ASSUME NEW e \in links, e.from = i
      PROVE  \E b \in 1..N : topo_order[b] = e.to /\ BackwardSettled(b)
  <2>1. PICK a, b \in 1..N : topo_order[a] = e.from /\ topo_order[b] = e.to /\ a < b
    BY <1>0, LinkGoesForward
  <2>2. b > pos
    BY <1>0, <1>8, <2>1, OrderFacts
  <2>. QED
    BY <2>1, <2>2, <1>2 DEF BackwardSettled
<1>9. EarlyInv'
  <2>. SUFFICES ASSUME NEW q \in 1..N PROVE EarlySettled(topo_order[q])'
    BY DEF EarlyInv
  <2>1. EarlySettled(topo_order[q])
    BY <1>4 DEF IInv, EarlyInv
  <2>2. StartBounds(topo_order[q])' = StartBounds(topo_order[q])
    BY <1>2 DEF StartBounds, LinksInto, ForwardBound
  <2>. QED
    BY <2>1, <2>2, <1>2 DEF EarlySettled, IsMax
<1>10. LateInv'
  <2>. SUFFICES ASSUME NEW q \in 1..N, BackwardSettled(q)'
                PROVE  LateSettled(topo_order[q])'
    BY DEF LateInv
  <2>1. q >= pos
    BY <1>0, <1>3
  <2>2. FinishBounds(topo_order[q])' = FinishBounds(topo_order[q])
    BY <1>0, <2>1, BackwardKeepsBounds
  <2>3. CASE q = pos
    BY <2>2, <2>3, <1>1, <1>2, <1>6 DEF LateSettled, IsMin
  <2>4. CASE BackwardSettled(q) /\ q > pos
    <3>1. LateSettled(topo_order[q])
      BY <2>4 DEF IInv, LateInv
    <3>. QED
      BY <2>2, <2>4, <3>1, <1>2, <1>5 DEF LateSettled, IsMin
  <2>. QED
    BY <1>3, <2>3, <2>4
<1>11. LeastInv'
  BY <1>2, <1>4, FeasibleKept DEF IInv, LeastInv, Schedules
<1>12. MakespanInv'
  BY <1>2 DEF IInv, MakespanInv, IsMax
<1>13. GreatestInv'
  <2>. SUFFICES ASSUME NEW S \in Schedules, Feasible(S), Fits(S),
                       NEW q \in 1..N, BackwardSettled(q)'
                PROVE  S[topo_order[q]] <= LS'[topo_order[q]]
    BY <1>2, FeasibleKept, FitsKept DEF GreatestInv, Schedules
  <2>0. S \in [Activities -> Nat] /\ durations \in [Activities -> Nat]
    BY <1>0, StartDateAssumption, DurationFacts DEF Schedules
  <2>1. S[i] <= m - durations[i]
    <3>1. CASE m = makespan
      BY <3>1, <2>0, <1>0 DEF Fits, TypeOK
    <3>2. CASE \E e \in links : e.from = i /\ m = BackwardBound(e)
      <4>1. PICK e \in links : e.from = i /\ m = BackwardBound(e)
        BY <3>2
      <4>2. PICK b \in 1..N : topo_order[b] = e.to /\ BackwardSettled(b)
        BY <4>1, <1>8
      <4>3. S[e.to] <= LS[e.to] /\ LS[e.to] = LF[e.to] - durations[e.to]
        BY <4>2 DEF IInv, GreatestInv, LateInv, LateSettled
      <4>4. Meets(S, e)
        BY DEF Feasible
      <4>5. e.to \in Activities /\ e.lag \in Int /\ e.rel \in Relations
        BY <1>0, LinkType
      <4>6. S[e.to] \in Nat /\ S[i] \in Nat /\ durations[e.to] \in Nat
            /\ durations[i] \in Nat /\ LS[e.to] \in Int /\ LF[e.to] \in Int
        BY <1>0, <2>0, <4>5 DEF TypeOK
      <4>. QED
        BY <4>1, <4>3, <4>4, <4>5, <4>6 DEF BackwardBound, Meets, Relations
    <3>. QED
      BY <1>7, <3>1, <3>2
  <2>2. CASE q = pos
    BY <2>1, <2>2, <1>6
  <2>3. CASE BackwardSettled(q) /\ q > pos
    BY <2>3, <1>5 DEF IInv, GreatestInv
  <2>. QED
    BY <1>3, <2>2, <2>3
<1>14. FloatInv'
  <2>. SUFFICES ASSUME NEW q \in 1..N, BackwardSettled(q)'
                PROVE  ES[topo_order[q]] <= LS'[topo_order[q]]
    BY <1>2 DEF FloatInv
  <2>0. durations \in [Activities -> Nat]
    BY <1>0, DurationFacts
  <2>1. ES[i] <= m - durations[i]
    <3>0. EarlySettled(i)
      BY <1>0, <1>4 DEF IInv, EarlyInv
    <3>1. CASE m = makespan
      <4>1. EF[i] <= makespan
        BY <1>0, <1>2 DEF IInv, MakespanInv, IsMax
      <4>. QED
        BY <3>0, <3>1, <4>1, <2>0, <1>0 DEF EarlySettled, TypeOK
    <3>2. CASE \E e \in links : e.from = i /\ m = BackwardBound(e)
      <4>1. PICK e \in links : e.from = i /\ m = BackwardBound(e)
        BY <3>2
      <4>2. PICK b \in 1..N : topo_order[b] = e.to /\ BackwardSettled(b)
        BY <4>1, <1>8
      <4>3. /\ ES[e.to] <= LS[e.to] /\ LS[e.to] = LF[e.to] - durations[e.to]
            /\ EarlySettled(e.to)
        BY <1>4, <4>2 DEF IInv, FloatInv, LateInv, LateSettled, EarlyInv
      <4>4. ForwardBound(e) <= ES[e.to]
        BY <1>0, <4>3, EarlyMeets
      <4>5. e.to \in Activities /\ e.lag \in Int /\ e.rel \in Relations
        BY <1>0, LinkType
      <4>6. ES[e.to] \in Nat /\ ES[i] \in Nat /\ EF[i] = ES[i] + durations[i]
            /\ durations[e.to] \in Nat /\ durations[i] \in Nat
            /\ LS[e.to] \in Int /\ LF[e.to] \in Int
        BY <1>0, <2>0, <3>0, <4>5 DEF TypeOK, EarlySettled
      <4>. QED
        BY <4>1, <4>3, <4>4, <4>5, <4>6 DEF BackwardBound, ForwardBound, Relations
    <3>. QED
      BY <1>7, <3>1, <3>2
  <2>2. CASE q = pos
    BY <2>1, <2>2, <1>6
  <2>3. CASE BackwardSettled(q) /\ q > pos
    BY <2>3, <1>5 DEF IInv, FloatInv
  <2>. QED
    BY <1>3, <2>2, <2>3
<1>15. SlackInv'
  BY <1>2 DEF SlackInv
<1>. QED
  BY <1>0, <1>9, <1>10, <1>11, <1>12, <1>13, <1>14, <1>15 DEF IInv

LEMMA TakeSlackKeeps == IInv /\ TakeSlack => IInv'
<1>. SUFFICES ASSUME IInv, TakeSlack PROVE IInv'
  OBVIOUS
<1>0. TypeOK /\ TypeOK'
  BY TypeStep DEF IInv, Next
<1>1. /\ links' = links /\ topo_order' = topo_order /\ durations' = durations
      /\ ES' = ES /\ EF' = EF /\ LS' = LS /\ LF' = LF /\ makespan' = makespan
      /\ pc = "backward" /\ pc' = "done" /\ pos = 0
  BY DEF TakeSlack, graph, early, late
<1>2. \A q \in 1..N : ForwardSettled(q) /\ BackwardSettled(q)
  BY <1>1, SizeAssumption DEF ForwardSettled, BackwardSettled
<1>3. EarlyInv' /\ LateInv'
  <2>. SUFFICES ASSUME NEW q \in 1..N
                PROVE  EarlySettled(topo_order[q])' /\ LateSettled(topo_order[q])'
    BY DEF EarlyInv, LateInv
  <2>1. EarlySettled(topo_order[q]) /\ LateSettled(topo_order[q])
    BY <1>2 DEF IInv, EarlyInv, LateInv
  <2>2. StartBounds(topo_order[q])' = StartBounds(topo_order[q])
    BY <1>1 DEF StartBounds, LinksInto, ForwardBound
  <2>3. FinishBounds(topo_order[q])' = FinishBounds(topo_order[q])
    BY <1>1 DEF FinishBounds, LinksFrom, BackwardBound
  <2>. QED
    BY <2>1, <2>2, <2>3, <1>1 DEF EarlySettled, LateSettled, IsMax, IsMin
<1>4. LeastInv' /\ GreatestInv' /\ FloatInv' /\ MakespanInv'
  BY <1>1, <1>2, FeasibleKept, FitsKept
  DEF IInv, LeastInv, GreatestInv, FloatInv, MakespanInv, Schedules, IsMax
<1>5. SlackInv'
  BY <1>1 DEF TakeSlack, SlackInv
<1>. QED
  BY <1>0, <1>3, <1>4, <1>5 DEF IInv

LEMMA RerunKeeps == IInv /\ Rerun => IInv'
<1>. SUFFICES ASSUME IInv, Rerun PROVE IInv'
  OBVIOUS
<1>1. TypeOK'
  BY TypeStep DEF IInv, Next
<1>2. \A q \in 1..N : ~ForwardSettled(q)' /\ ~BackwardSettled(q)'
  BY DEF Rerun, ForwardSettled, BackwardSettled
<1>. QED
  BY <1>1, <1>2 DEF Rerun, IInv, EarlyInv, LateInv, LeastInv, GreatestInv,
                    FloatInv, MakespanInv, SlackInv

LEMMA StutterKeeps == IInv /\ UNCHANGED vars => IInv'
<1>. SUFFICES ASSUME IInv, UNCHANGED vars PROVE IInv'
  OBVIOUS
<1>1. TypeOK'
  BY TypeStep DEF IInv
<1>2. /\ links' = links /\ topo_order' = topo_order /\ durations' = durations
      /\ ES' = ES /\ EF' = EF /\ LS' = LS /\ LF' = LF /\ TF' = TF
      /\ critical_mask' = critical_mask /\ makespan' = makespan
      /\ pc' = pc /\ pos' = pos
  BY DEF vars, graph, early, late, slack
<1>3. \A q : /\ ForwardSettled(q)' <=> ForwardSettled(q)
             /\ BackwardSettled(q)' <=> BackwardSettled(q)
  BY <1>2 DEF ForwardSettled, BackwardSettled
<1>4. \A j : StartBounds(j)' = StartBounds(j) /\ FinishBounds(j)' = FinishBounds(j)
  BY <1>2 DEF StartBounds, LinksInto, ForwardBound, FinishBounds, LinksFrom, BackwardBound
<1>5. EarlyInv' /\ LateInv'
  BY <1>2, <1>3, <1>4
  DEF IInv, EarlyInv, LateInv, EarlySettled, LateSettled, IsMax, IsMin
<1>6. LeastInv' /\ GreatestInv' /\ FloatInv' /\ MakespanInv' /\ SlackInv'
  BY <1>2, <1>3, FeasibleKept, FitsKept
  DEF IInv, LeastInv, GreatestInv, FloatInv, MakespanInv, SlackInv, Schedules, IsMax
<1>. QED
  BY <1>1, <1>5, <1>6 DEF IInv

LEMMA InvStep == IInv /\ [Next]_vars => IInv'
BY ForwardVisitKeeps, TakeMakespanKeeps, BackwardVisitKeeps, TakeSlackKeeps,
   RerunKeeps, StutterKeeps DEF Next

\* Whatever the graph and the durations, every reachable state satisfies IInv.
THEOREM Invariance == Spec => []IInv
BY InvInit, InvStep, PTL DEF Spec

-----------------------------------------------------------------------------
(* The properties of the finished passes follow from the invariant. *)

LEMMA AllSettled ==
    ASSUME IInv
    PROVE  /\ pc # "forward" => \A j \in Activities : EarlySettled(j)
           /\ pc = "done" => \A j \in Activities : LateSettled(j)
BY OrderFacts DEF IInv, EarlyInv, LateInv, ForwardSettled, BackwardSettled

\* The early dates of run_cpm respect every link, for every graph, relation,
\* lag and duration, and for re-runs in place.
THEOREM EarlyFeasible == Spec => []EarlyDatesFeasible
<1>1. IInv => EarlyDatesFeasible
  <2>. SUFFICES ASSUME IInv, pc # "forward"
                PROVE  /\ Feasible(ES)
                       /\ \A j \in Activities : EF[j] = ES[j] + durations[j]
    BY DEF EarlyDatesFeasible
  <2>1. \A j \in Activities : EarlySettled(j)
    BY AllSettled
  <2>2. ASSUME NEW e \in links PROVE Meets(ES, e)
    <3>1. TypeOK /\ e.from \in Activities /\ e.to \in Activities /\ e.lag \in Int
      BY LinkType DEF IInv
    <3>2. ForwardBound(e) <= ES[e.to] /\ EF[e.from] = ES[e.from] + durations[e.from]
      BY <2>1, <3>1, EarlyMeets DEF EarlySettled
    <3>3. /\ ES[e.to] \in Nat /\ ES[e.from] \in Nat
          /\ durations[e.to] \in Nat /\ durations[e.from] \in Nat
      BY <3>1, DurationFacts DEF TypeOK
    <3>. QED
      BY <3>1, <3>2, <3>3 DEF ForwardBound, Meets
  <2>. QED
    BY <2>1, <2>2 DEF Feasible, EarlySettled
<1>. QED
  BY <1>1, Invariance, PTL

\* No schedule that respects the links starts an activity earlier than its ES,
\* nor finishes the project before the makespan of run_cpm.
THEOREM EarlyLeast == Spec => []EarlyDatesLeast
<1>1. IInv => EarlyDatesLeast
  <2>. SUFFICES ASSUME IInv, pc = "done", NEW S \in Schedules, Feasible(S)
                PROVE  /\ \A j \in Activities : ES[j] <= S[j]
                       /\ \E j \in Activities : makespan <= S[j] + durations[j]
    BY DEF EarlyDatesLeast
  <2>1. TypeOK /\ \A j \in Activities : EarlySettled(j)
    BY AllSettled DEF IInv
  <2>2. \A j \in Activities : ES[j] <= S[j]
    BY <2>1, OrderFacts DEF IInv, LeastInv, ForwardSettled
  <2>3. PICK j \in Activities : makespan = EF[j]
    BY DEF IInv, MakespanInv, IsMax
  <2>4. S[j] \in Nat /\ ES[j] \in Nat /\ durations[j] \in Nat
    BY <2>1, StartDateAssumption, DurationFacts DEF Schedules, TypeOK
  <2>5. EF[j] = ES[j] + durations[j] /\ ES[j] <= S[j]
    BY <2>1, <2>2 DEF EarlySettled
  <2>6. makespan <= S[j] + durations[j]
    BY <2>3, <2>4, <2>5
  <2>. QED
    BY <2>2, <2>6
<1>. QED
  BY <1>1, Invariance, PTL

\* Every activity may be put off to its LS at once: the late dates respect
\* every link and the makespan.
THEOREM LateFeasible == Spec => []LateDatesFeasible
<1>1. IInv => LateDatesFeasible
  <2>. SUFFICES ASSUME IInv, pc = "done"
                PROVE  /\ Feasible(LS) /\ Fits(LS)
                       /\ \A j \in Activities : LF[j] = LS[j] + durations[j]
    BY DEF LateDatesFeasible
  <2>1. TypeOK /\ \A j \in Activities : LateSettled(j)
    BY AllSettled DEF IInv
  <2>2. ASSUME NEW j \in Activities
        PROVE  /\ LS[j] \in Int /\ LF[j] \in Int /\ durations[j] \in Nat
               /\ LF[j] = LS[j] + durations[j] /\ LF[j] <= makespan
    <3>1. LS[j] \in Int /\ LF[j] \in Int /\ durations[j] \in Nat
      BY <2>1, DurationFacts DEF TypeOK
    <3>2. LS[j] = LF[j] - durations[j] /\ LF[j] <= makespan
      BY <2>1 DEF LateSettled, IsMin, FinishBounds
    <3>. QED
      BY <3>1, <3>2
  <2>3. ASSUME NEW e \in links PROVE Meets(LS, e)
    <3>1. e.from \in Activities /\ e.to \in Activities /\ e.lag \in Int /\ e.rel \in Relations
      BY <2>1, LinkType
    <3>2. LF[e.from] <= BackwardBound(e)
      BY <2>1, <3>1, LateMeets
    <3>. QED
      BY <2>2, <3>1, <3>2 DEF BackwardBound, Meets, Relations
  <2>. QED
    BY <2>2, <2>3 DEF Feasible, Fits
<1>. QED
  BY <1>1, Invariance, PTL

\* TF is exact: no schedule of the same length starts an activity after its LS,
\* and no activity has negative float.
THEOREM LateGreatest == Spec => []LateDatesGreatest
<1>1. IInv => LateDatesGreatest
  <2>. SUFFICES ASSUME IInv, pc = "done"
                PROVE  /\ \A S \in Schedules : Feasible(S) /\ Fits(S) =>
                              \A j \in Activities : S[j] <= LS[j]
                       /\ \A j \in Activities : TF[j] = LS[j] - ES[j] /\ TF[j] >= 0
    BY DEF LateDatesGreatest
  <2>1. TypeOK
    BY DEF IInv
  <2>2. \A q \in 1..N : BackwardSettled(q)
    BY DEF BackwardSettled
  <2>3. ASSUME NEW S \in Schedules, Feasible(S), Fits(S), NEW j \in Activities
        PROVE  S[j] <= LS[j]
    BY <2>1, <2>2, <2>3, OrderFacts DEF IInv, GreatestInv
  <2>4. ASSUME NEW j \in Activities PROVE TF[j] = LS[j] - ES[j] /\ TF[j] >= 0
    <3>1. ES[j] <= LS[j]
      BY <2>1, <2>2, OrderFacts DEF IInv, FloatInv
    <3>2. ES[j] \in Int /\ LS[j] \in Int
      BY <2>1 DEF TypeOK
    <3>. QED
      BY <3>1, <3>2 DEF IInv, SlackInv
  <2>. QED
    BY <2>3, <2>4
<1>. QED
  BY <1>1, Invariance, PTL

\* The two facts about each pass together.
THEOREM EarlyExact == Spec => []EarlyDatesExact
BY EarlyFeasible, EarlyLeast, PTL DEF EarlyDatesExact

THEOREM LateExact == Spec => []LateDatesExact
BY LateFeasible, LateGreatest, PTL DEF LateDatesExact

\* The dates of both passes of run_cpm are exact.
THEOREM DatesAreExact == Spec => []DatesExact
BY EarlyExact, LateExact, PTL DEF DatesExact

\* Tightness is handed on: a link that decides an early start or a late finish
\* at a critical activity has its other end critical too.
LEMMA ChainsFollow == IInv => CriticalChains
<1>. SUFFICES ASSUME IInv, pc = "done" PROVE CriticalChains
  BY DEF CriticalChains
<1>1. TypeOK /\ \A j \in Activities : EarlySettled(j) /\ LateSettled(j)
  BY AllSettled DEF IInv
<1>2. ASSUME NEW j \in Activities
      PROVE  /\ LS[j] \in Int /\ LF[j] \in Int /\ ES[j] \in Nat /\ EF[j] \in Nat
             /\ durations[j] \in Nat /\ makespan \in Nat
             /\ EF[j] = ES[j] + durations[j] /\ LF[j] = LS[j] + durations[j]
             /\ LF[j] <= makespan /\ ES[j] <= LS[j]
  <2>1. /\ LS[j] \in Int /\ LF[j] \in Int /\ ES[j] \in Nat /\ EF[j] \in Nat
        /\ durations[j] \in Nat /\ makespan \in Nat
    BY <1>1, DurationFacts DEF TypeOK
  <2>2. /\ EF[j] = ES[j] + durations[j] /\ LS[j] = LF[j] - durations[j]
        /\ LF[j] <= makespan
    BY <1>1 DEF EarlySettled, LateSettled, IsMin, FinishBounds
  <2>3. ES[j] <= LS[j]
    BY <1>1, OrderFacts DEF IInv, FloatInv, BackwardSettled
  <2>. QED
    BY <2>1, <2>2, <2>3
<1>3. critical_mask = {j \in Activities : LS[j] = ES[j]}
  BY <1>2 DEF IInv, SlackInv
<1>4. \E j \in critical_mask : EF[j] = makespan
  <2>1. PICK j \in Activities : EF[j] = makespan
    BY DEF IInv, MakespanInv, IsMax
  <2>2. /\ LS[j] \in Int /\ ES[j] \in Nat /\ durations[j] \in Nat
        /\ makespan = ES[j] + durations[j] /\ LS[j] + durations[j] <= makespan
        /\ ES[j] <= LS[j]
    BY <1>2, <2>1
  <2>3. LS[j] = ES[j]
    BY <2>2
  <2>. QED
    BY <1>3, <2>1, <2>3
\* A driving link joins a critical end to a critical end.
<1>5. ASSUME NEW e \in links
      PROVE  /\ e.from \in Activities /\ e.to \in Activities
             /\ e.lag \in Int /\ e.rel \in Relations
             /\ ForwardBound(e) <= ES[e.to] /\ LF[e.from] <= BackwardBound(e)
  BY <1>1, LinkType, EarlyMeets, LateMeets
<1>6. ASSUME NEW j \in critical_mask, ES[j] # 0
      PROVE  \E e \in LinksInto(j) : Driving(e) /\ e.from \in critical_mask
  <2>1. PICK e \in LinksInto(j) : ES[j] = ForwardBound(e)
    BY <1>1, <1>3, <1>6 DEF EarlySettled, IsMax, StartBounds
  <2>2. e \in links /\ e.to = j /\ Driving(e)
    BY <2>1 DEF LinksInto, Driving
  <2>3. LS[e.from] = ES[e.from]
    BY <1>2, <1>3, <1>5, <2>1, <2>2 DEF ForwardBound, BackwardBound, Relations
  <2>. QED
    BY <1>3, <1>5, <2>2, <2>3
<1>7. ASSUME NEW j \in critical_mask, LF[j] # makespan
      PROVE  \E e \in LinksFrom(j) : Driving(e) /\ e.to \in critical_mask
  <2>1. PICK e \in LinksFrom(j) : LF[j] = BackwardBound(e)
    BY <1>1, <1>3, <1>7 DEF LateSettled, IsMin, FinishBounds
  <2>2. e \in links /\ e.from = j
    BY <2>1 DEF LinksFrom
  <2>3. LS[e.to] = ES[e.to] /\ ForwardBound(e) = ES[e.to]
    BY <1>2, <1>3, <1>5, <2>1, <2>2 DEF ForwardBound, BackwardBound, Relations
  <2>. QED
    BY <1>3, <1>5, <2>1, <2>2, <2>3 DEF Driving
<1>. QED
  BY <1>4, <1>6, <1>7 DEF CriticalChains

\* The critical activities chain from time zero to the makespan through links
\* that leave no room.
THEOREM CriticalChain == Spec => []CriticalChains
BY ChainsFollow, Invariance, PTL

-----------------------------------------------------------------------------
(* Theorems about CriticalPath, for every snapshot, and for every number of *)
(* earlier runs that left their values in the arrays.                       *)
-----------------------------------------------------------------------------
(* The inductive invariant: the path so far is critical, goes forward and    *)
(* starts at time zero, and the dates it is read from stay as they are.      *)

WalkInv ==
    /\ path \in Seq(Activities)
    /\ walk \in {"idle", "walking", "done"}
    /\ walk = "idle" => path = <<>>
    /\ walk # "idle" => /\ pc = "done"
                        /\ path # <<>>
                        /\ \A k \in 1..Len(path) : path[k] \in critical_mask
                        /\ ES[path[1]] = 0
    /\ walk = "done" => CriticalSuccs(PathEnd) = {}
    /\ PathInOrder

-----------------------------------------------------------------------------
(* Facts about numbers and the order. *)

LEMMA Least ==
    ASSUME NEW S \in SUBSET Nat, S # {}
    PROVE  \E m \in S : \A x \in S : m <= x
<1>1. PICK m \in S : \A y \in S : <<y, m>> \notin OpToRel(<, Nat)
  BY NatLessThanWellFounded, WFMin
<1>2. \A y \in S : ~(y < m)
  BY <1>1 DEF OpToRel
<1>3. ASSUME NEW x \in S PROVE m <= x
  <2>1. m \in Nat /\ x \in Nat /\ ~(x < m)
    BY <1>2
  <2>. QED
    BY <2>1
<1>. QED
  BY <1>3

\* The walk never begins with the fallback: the first critical activity of the
\* order has no critical predecessor, and then it starts at time zero.
LEMMA StartFacts ==
    ASSUME IInv, pc = "done"
    PROVE  /\ critical_mask # {}
           /\ \A i \in Starts : i \in critical_mask /\ ES[i] = 0
<1>1. TypeOK /\ CriticalChains
  BY ChainsFollow DEF IInv
<1>. DEFINE P == {q \in 1..N : topo_order[q] \in critical_mask}
            firsts == {q \in 1..N : /\ topo_order[q] \in critical_mask
                                    /\ CriticalPreds(topo_order[q]) = {}}
<1>2. critical_mask # {} /\ critical_mask \subseteq Activities
  BY <1>1 DEF CriticalChains, TypeOK
<1>3. P \in SUBSET Nat /\ P # {}
  BY <1>1, <1>2, OrderFacts
<1>4. PICK m \in P : \A x \in P : m <= x
  BY <1>3, Least
<1>5. CriticalPreds(topo_order[m]) = {}
  <2>. SUFFICES ASSUME NEW e \in LinksInto(topo_order[m]), e.from \in critical_mask
                PROVE  FALSE
    BY DEF CriticalPreds
  <2>1. e \in links /\ e.to = topo_order[m]
    BY DEF LinksInto
  <2>2. PICK a, b \in 1..N : topo_order[a] = e.from /\ topo_order[b] = e.to /\ a < b
    BY <1>1, <2>1, LinkGoesForward
  <2>3. b = m
    BY <1>1, <2>1, <2>2, OrderFacts
  <2>4. a \in P /\ a < m
    BY <2>2, <2>3
  <2>5. m <= a /\ a \in Nat /\ m \in Nat
    BY <1>3, <1>4, <2>4
  <2>. QED
    BY <2>4, <2>5
<1>6. m \in firsts
  BY <1>5
<1>7. ASSUME NEW i \in Starts PROVE i \in critical_mask /\ ES[i] = 0
  <2>1. PICK q \in firsts : i = topo_order[q]
    BY <1>6, <1>7 DEF Starts
  <2>2. i \in critical_mask /\ CriticalPreds(i) = {}
    BY <2>1
  <2>. QED
    BY <1>1, <2>2 DEF CriticalChains, CriticalPreds
<1>. QED
  BY <1>2, <1>7

-----------------------------------------------------------------------------
(* Each step keeps the invariant. *)

LEMMA WalkInitInv == WalkInit => IInv /\ WalkInv
BY InvInit DEF WalkInit, WalkInv, PathInOrder

LEMMA RunCpmKeeps == IInv /\ WalkInv /\ RunCpm => WalkInv'
BY DEF RunCpm, WalkInv, PathInOrder

LEMMA StartKeeps == IInv /\ WalkInv /\ Start => WalkInv'
<1>. SUFFICES ASSUME IInv, WalkInv, Start PROVE WalkInv'
  OBVIOUS
<1>1. pc = "done" /\ critical_mask # {} /\ walk' = "walking"
  BY StartFacts DEF Start
<1>2. PICK i \in Starts : path' = <<i>>
  BY <1>1 DEF Start
<1>3. i \in critical_mask /\ ES[i] = 0 /\ i \in Activities
  BY <1>1, StartFacts DEF IInv, TypeOK
<1>4. path' \in Seq(Activities) /\ Len(path') = 1 /\ path'[1] = i /\ path' # <<>>
  BY <1>2, <1>3
<1>5. pc' = pc /\ critical_mask' = critical_mask /\ ES' = ES
  BY DEF Start, vars, slack, early
<1>6. PathInOrder'
  BY <1>4 DEF PathInOrder
<1>. QED
  BY <1>1, <1>3, <1>4, <1>5, <1>6 DEF WalkInv

LEMMA AppendSuccessorKeeps == IInv /\ WalkInv /\ AppendSuccessor => WalkInv'
<1>. SUFFICES ASSUME IInv, WalkInv, AppendSuccessor PROVE WalkInv'
  OBVIOUS
<1>1. PICK s \in CriticalSuccs(PathEnd) : path' = Append(path, s)
  BY DEF AppendSuccessor
<1>2. TypeOK /\ path \in Seq(Activities) /\ path # <<>> /\ walk' = walk /\ walk = "walking"
  BY DEF IInv, WalkInv, AppendSuccessor
<1>3. /\ pc' = pc /\ critical_mask' = critical_mask /\ ES' = ES
      /\ topo_order' = topo_order
  BY DEF AppendSuccessor, vars, slack, early, graph
<1>4. PICK e \in links : e.from = PathEnd /\ e.to = s /\ s \in critical_mask
  BY <1>1 DEF CriticalSuccs, LinksFrom
<1>5. s \in Activities
  BY <1>2, <1>4 DEF TypeOK
<1>6. /\ path' \in Seq(Activities) /\ path' # <<>>
      /\ Len(path) \in Nat \ {0} /\ Len(path') = Len(path) + 1
      /\ \A k \in 1..Len(path) : path'[k] = path[k]
      /\ path'[Len(path) + 1] = s
  BY <1>1, <1>2, <1>5
<1>7. /\ \A k \in 1..Len(path') : path'[k] \in critical_mask
      /\ ES[path'[1]] = 0
  BY <1>2, <1>4, <1>6 DEF WalkInv
<1>8. PathInOrder'
  <2>. SUFFICES ASSUME NEW i \in 1..Len(path'), NEW j \in 1..Len(path'), i < j
                PROVE  \E p, q \in 1..N : /\ p < q
                                          /\ topo_order[p] = path'[i]
                                          /\ topo_order[q] = path'[j]
    BY <1>3 DEF PathInOrder
  <2>1. CASE j <= Len(path)
    BY <1>6, <2>1 DEF WalkInv, PathInOrder
  <2>2. CASE j = Len(path) + 1
    <3>1. PICK a, b \in 1..N : topo_order[a] = PathEnd /\ topo_order[b] = s /\ a < b
      BY <1>2, <1>4, LinkGoesForward
    <3>2. CASE i = Len(path)
      BY <1>6, <2>2, <3>1, <3>2 DEF PathEnd
    <3>3. CASE i < Len(path)
      <4>1. PICK p, q \in 1..N : p < q /\ topo_order[p] = path[i] /\ topo_order[q] = PathEnd
        BY <1>6, <3>3 DEF WalkInv, PathInOrder, PathEnd
      <4>2. q = a
        BY <1>2, <3>1, <4>1, OrderFacts
      <4>3. p < b
        BY <3>1, <4>1, <4>2
      <4>. QED
        BY <1>6, <2>2, <3>1, <3>3, <4>1, <4>3
    <3>. QED
      BY <1>6, <2>2, <3>2, <3>3
  <2>. QED
    BY <1>6, <2>1, <2>2
<1>. QED
  BY <1>2, <1>3, <1>6, <1>7, <1>8 DEF WalkInv

LEMMA StopKeeps == IInv /\ WalkInv /\ Stop => WalkInv'
<1>. SUFFICES ASSUME IInv, WalkInv, Stop PROVE WalkInv'
  OBVIOUS
<1>1. /\ pc' = pc /\ critical_mask' = critical_mask /\ ES' = ES
      /\ topo_order' = topo_order /\ links' = links /\ path' = path
      /\ walk = "walking" /\ walk' = "done"
  BY DEF Stop, vars, slack, early, graph
<1>2. PathEnd' = PathEnd
  BY <1>1 DEF PathEnd
<1>3. CriticalSuccs(PathEnd)' = CriticalSuccs(PathEnd)
  BY <1>1, <1>2 DEF CriticalSuccs, LinksFrom
<1>4. CriticalSuccs(PathEnd)' = {}
  BY <1>3 DEF Stop
<1>5. PathInOrder'
  BY <1>1 DEF WalkInv, PathInOrder
<1>. QED
  BY <1>1, <1>4, <1>5 DEF WalkInv

LEMMA WalkStutters == IInv /\ WalkInv /\ UNCHANGED walkVars => WalkInv'
BY DEF WalkInv, walkVars, vars, graph, early, slack, PathInOrder, CriticalSuccs, LinksFrom, PathEnd

\* The walk only reads what run_cpm left, so its invariant holds beside the walk's.
LEMMA WalkInvariance == WalkSpec => [](IInv /\ WalkInv)
<1>1. IInv /\ WalkInv /\ [WalkNext]_walkVars => IInv'
  BY InvStep DEF WalkNext, RunCpm, Start, AppendSuccessor, Stop, walkVars
<1>2. IInv /\ WalkInv /\ [WalkNext]_walkVars => WalkInv'
  BY RunCpmKeeps, StartKeeps, AppendSuccessorKeeps, StopKeeps, WalkStutters DEF WalkNext
<1>. QED
  BY WalkInitInv, <1>1, <1>2, PTL DEF WalkSpec

-----------------------------------------------------------------------------
(* Theorems *)

\* The path that is reported is in topological order, for every graph and
\* whichever critical successor comes first.
THEOREM PathOrdered == WalkSpec => []PathInOrder
<1>1. WalkInv => PathInOrder
  BY DEF WalkInv
<1>. QED
  BY <1>1, WalkInvariance, PTL

\* The path reaches from time zero to the makespan, though a link between two
\* activities of the path need not be tight.
THEOREM PathSpans == WalkSpec => []PathSpansProject
<1>1. IInv /\ WalkInv => PathSpansProject
  <2>. SUFFICES ASSUME IInv, WalkInv, walk = "done"
                PROVE  path # <<>> /\ ES[path[1]] = 0 /\ EF[PathEnd] = makespan
    BY DEF PathSpansProject
  <2>1. path \in Seq(Activities) /\ path # <<>> /\ pc = "done" /\ ES[path[1]] = 0
    BY DEF WalkInv
  <2>2. PathEnd \in critical_mask /\ CriticalSuccs(PathEnd) = {}
    BY <2>1 DEF WalkInv, PathEnd
  <2>3. LF[PathEnd] = makespan
    BY <2>1, <2>2, ChainsFollow DEF CriticalChains, CriticalSuccs
  <2>4. /\ TypeOK /\ PathEnd \in Activities /\ LS[PathEnd] - ES[PathEnd] = 0
        /\ EarlySettled(PathEnd) /\ LateSettled(PathEnd)
    BY <2>1, <2>2, AllSettled DEF IInv, SlackInv
  <2>5. LS[PathEnd] \in Int /\ ES[PathEnd] \in Int /\ LF[PathEnd] \in Int /\ durations[PathEnd] \in Int
    BY <2>4, DurationFacts DEF TypeOK
  <2>. QED
    BY <2>1, <2>3, <2>4, <2>5 DEF EarlySettled, LateSettled
<1>. QED
  BY <1>1, WalkInvariance, PTL

\* The path reported spans the project in topological order, over a mask whose
\* chains of driving links fill it.
THEOREM CriticalPathIsSound == WalkSpec => []CriticalPathSound
<1>1. IInv => CriticalChains
  BY ChainsFollow
<1>2. CriticalChains /\ PathInOrder /\ PathSpansProject => CriticalPathSound
  BY DEF CriticalPathSound
<1>. QED
  BY <1>1, <1>2, WalkInvariance, PathOrdered, PathSpans, PTL

-----------------------------------------------------------------------------
(* Theorems about DrivingGraph, for every schedule whose activities all lie  *)
(* between start and end, and every limit and tolerance.                     *)
-----------------------------------------------------------------------------
(* The graph: only start has no predecessor, and end comes last.             *)

AllActive == Active(links) = Activities

\* Strong induction on numbers, for a set.
LEMMA ClimbsFromBelow ==
    ASSUME NEW n \in Nat, NEW S, \A q \in 1..n : (\A r \in 1..(q - 1) : r \in S) => q \in S
    PROVE  1..n \subseteq S
<1>. DEFINE Left == {q \in 1..n : q \notin S}
<1>. SUFFICES ASSUME Left # {} PROVE FALSE
  OBVIOUS
<1>1. Left \in SUBSET Nat
  OBVIOUS
<1>2. PICK m \in Left : \A x \in Left : m <= x
  <2>. HIDE DEF Left
  <2>. QED
    BY <1>1, Least
<1>3. ASSUME NEW r \in 1..(m - 1) PROVE r \in S
  <2>1. r \in 1..n /\ ~(m <= r)
    BY <1>2
  <2>. QED
    BY <1>2, <2>1
<1>. QED
  BY <1>2, <1>3

\* A set of integers with a member and a bound has a greatest member.
LEMMA GreatestIs ==
    ASSUME NEW S \in SUBSET Int, S # {}, NEW b \in Int, \A x \in S : x <= b
    PROVE  Greatest(S) \in S /\ \A x \in S : x <= Greatest(S)
<1>. DEFINE below == {b - x : x \in S}
<1>1. below \in SUBSET Nat /\ below # {}
  <2>1. \A x \in S : b - x \in Nat
    OBVIOUS
  <2>. QED
    BY <2>1
<1>2. PICK m \in below : \A y \in below : m <= y
  <2>. HIDE DEF below
  <2>. QED
    BY <1>1, Least
<1>3. PICK x \in S : m = b - x
  BY <1>2
<1>4. \A y \in S : y <= x
  <2>. TAKE y \in S
  <2>1. b - y \in below /\ y \in Int /\ x \in Int
    OBVIOUS
  <2>2. m <= b - y
    BY <1>2, <2>1
  <2>. HIDE DEF below
  <2>. QED
    BY <1>3, <2>1, <2>2
<1>. QED
  BY <1>4 DEF Greatest

Place(j) == CHOOSE q \in 1..N : topo_order[q] = j

LEMMA PlaceIs ==
    ASSUME TypeOK, NEW j \in Activities
    PROVE  Place(j) \in 1..N /\ topo_order[Place(j)] = j
BY OrderFacts DEF Place

LEMMA LinkClimbs ==
    ASSUME TypeOK, NEW e \in links
    PROVE  Place(e.from) < Place(e.to)
<1>1. e.from \in Activities /\ e.to \in Activities
  BY LinkType
<1>2. PICK a, b \in 1..N : topo_order[a] = e.from /\ topo_order[b] = e.to /\ a < b
  BY LinkGoesForward
<1>. QED
  BY <1>1, <1>2, PlaceIs, OrderFacts

LEMMA Between ==
    ASSUME AllActive, NEW j \in Activities, NEW C \in SUBSET Activities, Closed(C, links)
    PROVE  /\ start_idx \in C => j \in C
           /\ j \in C => end_idx \in C
<1>1. j \in Active(links)
  BY DEF AllActive
<1>. QED
  BY <1>1 DEF Active

LEMMA StartIsFirst ==
    ASSUME TypeOK, AllActive
    PROVE  \A e \in links : e.to # start_idx
<1>. SUFFICES ASSUME NEW e \in links, e.to = start_idx PROVE FALSE
  OBVIOUS
<1>. DEFINE C == {j \in Activities : Place(start_idx) <= Place(j)}
<1>1. start_idx \in Activities /\ e.from \in Activities
  BY ActiveAssumption, LinkType
<1>2. Closed(C, links)
  <2>. SUFFICES ASSUME NEW f \in links, f.from \in C PROVE f.to \in C
    BY DEF Closed
  <2>1. f.from \in Activities /\ f.to \in Activities
    BY LinkType
  <2>. QED
    BY <1>1, <2>1, LinkClimbs, PlaceIs
<1>3. start_idx \in C
  BY <1>1, PlaceIs
<1>4. e.from \in C
  <2>. HIDE DEF C
  <2>1. C \in SUBSET Activities
    BY DEF C
  <2>. QED
    BY <1>1, <1>2, <1>3, <2>1, Between
<1>. QED
  BY <1>1, <1>4, LinkClimbs, PlaceIs

LEMMA EndIsLast ==
    ASSUME TypeOK, AllActive
    PROVE  \A e \in links : e.from # end_idx
<1>. SUFFICES ASSUME NEW e \in links, e.from = end_idx PROVE FALSE
  OBVIOUS
<1>. DEFINE C == {j \in Activities : Place(e.to) <= Place(j)}
<1>1. end_idx \in Activities /\ e.to \in Activities
  BY ActiveAssumption, LinkType
<1>2. Closed(C, links)
  <2>. SUFFICES ASSUME NEW f \in links, f.from \in C PROVE f.to \in C
    BY DEF Closed
  <2>1. f.from \in Activities /\ f.to \in Activities
    BY LinkType
  <2>. QED
    BY <1>1, <2>1, LinkClimbs, PlaceIs
<1>3. e.to \in C
  BY <1>1, PlaceIs
<1>4. end_idx \in C
  <2>. HIDE DEF C
  <2>1. C \in SUBSET Activities
    BY DEF C
  <2>. QED
    BY <1>1, <1>2, <1>3, <2>1, Between
<1>. QED
  BY <1>1, <1>4, LinkClimbs, PlaceIs

LEMMA OthersHavePreds ==
    ASSUME TypeOK, AllActive, NEW j \in Activities, j # start_idx
    PROVE  LinksInto(j) # {}
<1>. SUFFICES ASSUME LinksInto(j) = {} PROVE FALSE
  OBVIOUS
<1>. DEFINE C == Activities \ {j}
<1>1. Closed(C, links)
  BY LinkType DEF Closed, LinksInto
<1>2. start_idx \in C
  BY ActiveAssumption
<1>. QED
  BY <1>1, <1>2, Between
-----------------------------------------------------------------------------
(* Chains through the predecessor sets; AllChains is the set of them.        *)

IsChain(ph, c, j) ==
    /\ c \in Seq(Activities) /\ c # <<>>
    /\ c[1] = start_idx /\ c[Len(c)] = j
    /\ \A k \in 1..(Len(c) - 1) : c[k] \in PredSet(ph, c[k + 1])
ChainsTo(ph, j) == {c \in Seq(Activities) : IsChain(ph, c, j)}

LEMMA PredSetFacts ==
    ASSUME TypeOK, AllActive, NEW ph, NEW j, NEW p \in PredSet(ph, j)
    PROVE  /\ p \in Activities /\ j \in Activities /\ j # start_idx
           /\ Place(p) < Place(j)
           /\ \E e \in links : e.from = p /\ e.to = j
<1>1. PICK e \in links : e.from = p /\ e.to = j
  BY DEF PredSet, Preds, LinksInto
<1>. QED
  BY <1>1, LinkType, LinkClimbs, StartIsFirst

\* A chain is start alone or a chain to a predecessor with one activity more.
LEMMA ChainStep ==
    ASSUME TypeOK, AllActive, NEW ph, NEW j \in Activities
    PROVE  ChainsTo(ph, j) =
             IF j = start_idx THEN {<<j>>}
             ELSE UNION {{Append(c, j) : c \in ChainsTo(ph, p)} : p \in PredSet(ph, j)}
<1>1. ASSUME j = start_idx, NEW c \in ChainsTo(ph, j) PROVE c = <<j>>
  <2>1. /\ c \in Seq(Activities) /\ Len(c) \in Nat \ {0} /\ c[Len(c)] = j /\ c[1] = j
        /\ \A k \in 1..(Len(c) - 1) : c[k] \in PredSet(ph, c[k + 1])
    BY <1>1 DEF ChainsTo, IsChain
  <2>2. Len(c) = 1
    <3>1. ASSUME Len(c) > 1 PROVE FALSE
      <4>1. c[Len(c) - 1] \in PredSet(ph, c[Len(c)])
        BY <2>1, <3>1
      <4>. QED
        BY <1>1, <2>1, <4>1, PredSetFacts
    <3>. DEFINE n == Len(c)
    <3>2. n \in Nat \ {0} /\ ~(n > 1)
      BY <2>1, <3>1
    <3>3. n = 1
      <4>. HIDE DEF n
      <4>. QED
        BY <3>2
    <3>. QED
      BY <3>3
  <2>. QED
    BY <2>1, <2>2
<1>2. ASSUME j = start_idx PROVE <<j>> \in ChainsTo(ph, j)
  BY <1>2 DEF ChainsTo, IsChain
<1>3. ASSUME j # start_idx, NEW c \in ChainsTo(ph, j)
      PROVE  \E p \in PredSet(ph, j) : \E d \in ChainsTo(ph, p) : c = Append(d, j)
  <2>1. /\ c \in Seq(Activities) /\ Len(c) \in Nat \ {0} /\ c[Len(c)] = j /\ c[1] = start_idx
        /\ \A k \in 1..(Len(c) - 1) : c[k] \in PredSet(ph, c[k + 1])
    BY DEF ChainsTo, IsChain
  <2>2. Len(c) > 1
    BY <1>3, <2>1
  <2>. DEFINE d == SubSeq(c, 1, Len(c) - 1)
  <2>3. /\ d \in Seq(Activities) /\ Len(d) = Len(c) - 1
        /\ \A k \in 1..Len(d) : d[k] = c[k]
    BY <2>1, <2>2
  <2>4. c[Len(c) - 1] \in PredSet(ph, j)
    BY <2>1, <2>2
  <2>. HIDE DEF d
  <2>5. d \in ChainsTo(ph, c[Len(c) - 1])
    BY <2>1, <2>2, <2>3 DEF ChainsTo, IsChain
  <2>6. c = Append(d, j)
    BY <2>1, <2>2, <2>3
  <2>. QED
    BY <2>4, <2>5, <2>6
<1>4. ASSUME j # start_idx, NEW p \in PredSet(ph, j), NEW d \in ChainsTo(ph, p)
      PROVE  Append(d, j) \in ChainsTo(ph, j)
  <2>. DEFINE c == Append(d, j)
  <2>1. /\ d \in Seq(Activities) /\ Len(d) \in Nat \ {0} /\ d[Len(d)] = p /\ d[1] = start_idx
        /\ \A k \in 1..(Len(d) - 1) : d[k] \in PredSet(ph, d[k + 1])
    BY DEF ChainsTo, IsChain
  <2>2. /\ c \in Seq(Activities) /\ Len(c) = Len(d) + 1 /\ c # <<>>
        /\ \A k \in 1..Len(d) : c[k] = d[k]
        /\ c[Len(d) + 1] = j
    BY <2>1
  <2>. HIDE DEF c
  <2>3. \A k \in 1..(Len(c) - 1) : c[k] \in PredSet(ph, c[k + 1])
    <3>. TAKE k \in 1..(Len(c) - 1)
    <3>1. CASE k = Len(d)
      BY <2>1, <2>2, <3>1
    <3>2. CASE k < Len(d)
      BY <2>1, <2>2, <3>2
    <3>. QED
      BY <2>1, <2>2, <3>1, <3>2
  <2>4. c \in ChainsTo(ph, j)
    BY <2>1, <2>2, <2>3 DEF ChainsTo, IsChain
  <2>. QED
    BY <2>4 DEF c
<1>5. CASE j = start_idx
  BY <1>1, <1>2, <1>5
<1>6. CASE j # start_idx
  <2>1. ChainsTo(ph, j) \subseteq UNION {{Append(c, j) : c \in ChainsTo(ph, p)} : p \in PredSet(ph, j)}
    BY <1>3, <1>6
  <2>2. UNION {{Append(c, j) : c \in ChainsTo(ph, p)} : p \in PredSet(ph, j)} \subseteq ChainsTo(ph, j)
    <3>. SUFFICES ASSUME NEW x \in UNION {{Append(c, j) : c \in ChainsTo(ph, p)} : p \in PredSet(ph, j)}
                  PROVE  x \in ChainsTo(ph, j)
      OBVIOUS
    <3>0. PICK p \in PredSet(ph, j) : x \in {Append(c, j) : c \in ChainsTo(ph, p)}
      OBVIOUS
    <3>1. PICK c \in ChainsTo(ph, p) : x = Append(c, j)
      BY <3>0
    <3>. QED
      BY <1>4, <1>6, <3>1
  <2>. QED
    BY <1>6, <2>1, <2>2
<1>. QED
  BY <1>5, <1>6

\* The recursion of AllChains is solved by the sets of chains, and by nothing else.
LEMMA AllChainsAre ==
    ASSUME TypeOK, AllActive, NEW ph
    PROVE  AllChains(ph) = ChainsTo(ph, end_idx)
<1>. DEFINE Body(f, q) ==
              LET j == topo_order[q] IN
              IF j = start_idx THEN {<<j>>}
              ELSE UNION {{Append(c, j) : c \in f[r]} :
                            r \in {r \in 1..(q - 1) : topo_order[r] \in PredSet(ph, j)}}
            IsIt(f) == f = [q \in 1..N |-> Body(f, q)]
            before == CHOOSE f : IsIt(f)
            F == [q \in 1..N |-> ChainsTo(ph, topo_order[q])]
<1>1. AllChains(ph) = before[CHOOSE q \in 1..N : topo_order[q] = end_idx]
  BY DEF AllChains
\* Equal before q, equal at q.
<1>2. ASSUME NEW f, NEW q \in 1..N, \A r \in 1..(q - 1) : f[r] = F[r]
      PROVE  Body(f, q) = F[q]
  <2>. DEFINE j == topo_order[q]
              R == {r \in 1..(q - 1) : topo_order[r] \in PredSet(ph, j)}
  <2>1. j \in Activities /\ F[q] = ChainsTo(ph, j)
    BY OrderFacts
  <2>2. Body(f, q) = IF j = start_idx THEN {<<j>>}
                     ELSE UNION {{Append(c, j) : c \in f[r]} : r \in R}
    OBVIOUS
  <2>3. ASSUME NEW r \in R PROVE f[r] = ChainsTo(ph, topo_order[r]) /\ topo_order[r] \in PredSet(ph, j)
    <3>1. r \in 1..(q - 1) /\ r \in 1..N /\ topo_order[r] \in PredSet(ph, j)
      BY SizeAssumption
    <3>. QED
      BY <1>2, <3>1
  <2>4. ASSUME NEW p \in PredSet(ph, j) PROVE \E r \in R : topo_order[r] = p
    <3>1. Place(p) \in 1..N /\ topo_order[Place(p)] = p /\ Place(p) < Place(j)
      BY PredSetFacts, PlaceIs
    <3>2. Place(j) = q
      BY <2>1, PlaceIs, OrderFacts
    <3>3. Place(p) \in R
      BY <3>1, <3>2
    <3>. QED
      BY <3>1, <3>3
  <2>. HIDE DEF j, R, F, Body
  <2>5. UNION {{Append(c, j) : c \in f[r]} : r \in R}
         = UNION {{Append(c, j) : c \in ChainsTo(ph, p)} : p \in PredSet(ph, j)}
    BY <2>3, <2>4
  <2>. QED
    BY <2>1, <2>2, <2>5, ChainStep
<1>3. IsIt(F)
  <2>1. ASSUME NEW q \in 1..N PROVE Body(F, q) = F[q]
    <3>. HIDE DEF Body, F
    <3>. QED
      BY <1>2
  <2>2. F = [q \in 1..N |-> F[q]]
    OBVIOUS
  <2>. HIDE DEF Body, F
  <2>. QED
    BY <2>1, <2>2
<1>4. IsIt(before)
  <2>. HIDE DEF IsIt, F
  <2>. QED
    BY <1>3
<1>5. \A q \in 1..N : before[q] = Body(before, q)
  <2>. HIDE DEF Body, before
  <2>. QED
    BY <1>4
<1>. DEFINE Same == {q \in 1..N : before[q] = F[q]}
<1>6. 1..N \subseteq Same
  <2>1. ASSUME NEW q \in 1..N, \A r \in 1..(q - 1) : r \in Same PROVE q \in Same
    <3>. HIDE DEF before, Body, F
    <3>1. \A r \in 1..(q - 1) : before[r] = F[r]
      BY <2>1
    <3>2. Body(before, q) = F[q]
      BY <1>2, <3>1
    <3>. QED
      BY <1>5, <3>2
  <2>. HIDE DEF Same
  <2>. QED
    BY <2>1, SizeAssumption, ClimbsFromBelow
<1>7. Place(end_idx) \in 1..N /\ topo_order[Place(end_idx)] = end_idx
  BY PlaceIs, ActiveAssumption
<1>8. AllChains(ph) = before[Place(end_idx)]
  <2>. HIDE DEF before
  <2>. QED
    BY <1>1 DEF Place
<1>9. before[Place(end_idx)] = F[Place(end_idx)]
  <2>. HIDE DEF before, F
  <2>. QED
    BY <1>6, <1>7
<1>. QED
  BY <1>7, <1>8, <1>9
-----------------------------------------------------------------------------
(* The search.  A chain is still to come when it ends like the stack up to   *)
(* some frame and goes on, from there, through a predecessor not tried yet.  *)

Frames == [node : Activities, visited : BOOLEAN, preds : SUBSET Activities]

\* The stack is the end of a chain, and each frame keeps only predecessors that
\* the search may follow and has not followed.
FrameSound(f) ==
    /\ f.preds \subseteq PredSet(phase, f.node)
    /\ f.visited => f.node # start_idx
    /\ ~f.visited => f.preds = {}
StackInv ==
    /\ stack \in Seq(Frames)
    /\ stack # <<>> => stack[1].node = end_idx
    /\ \A k \in 1..Len(stack) : FrameSound(stack[k])
    /\ \A k \in 1..(Len(stack) - 1) :
          /\ stack[k].visited
          /\ stack[k + 1].node \in PredSet(phase, stack[k].node) \ stack[k].preds

Agrees(c, k) == k <= Len(c) /\ \A i \in 1..k : c[Len(c) + 1 - i] = stack[i].node
PendingAt(c, k) ==
    Agrees(c, k) /\ (stack[k].visited => k < Len(c) /\ c[Len(c) - k] \in stack[k].preds)
PendingBelow(c) == \E k \in 1..(Len(stack) - 1) : PendingAt(c, k)
Pending(c) == \E k \in 1..Len(stack) : PendingAt(c, k)

\* What is found are chains, none twice and none that is still to come; and
\* where nothing is too deep each chain is found or still to come.
FoundInv ==
    /\ out \in Seq(Seq(Activities))
    /\ \A i \in 1..Len(out) : IsChain(phase, out[i], end_idx) /\ ~Pending(out[i])
    /\ \A i, j \in 1..Len(out) : out[i] = out[j] => i = j
    /\ Len(out) <= Limit
    /\ max_depth_guard >= N =>
         \A c : IsChain(phase, c, end_idx) => (\E i \in 1..Len(out) : out[i] = c) \/ Pending(c)

LEMMA PredSetKept ==
    ASSUME UNCHANGED vars
    PROVE  \A ph, j : PredSet(ph, j)' = PredSet(ph, j)
<1>1. links' = links /\ ES' = ES /\ EF' = EF /\ TF' = TF /\ durations' = durations
  BY DEF vars, graph, early, slack
<1>2. \A e : ForwardBound(e)' = ForwardBound(e)
  BY <1>1 DEF ForwardBound
<1>3. \A j : LinksInto(j)' = LinksInto(j) /\ Preds(j)' = Preds(j)
  BY <1>1 DEF LinksInto, Preds
<1>4. \A j, p : candidate_es(j, p)' = candidate_es(j, p)
  BY <1>2, <1>3 DEF candidate_es
<1>5. \A j, p : delta(j, p)' = delta(j, p)
  BY <1>3, <1>4 DEF delta
<1>. QED
  BY <1>1, <1>3, <1>5 DEF PredSet, Tolerance

LEMMA ChainsKept ==
    ASSUME UNCHANGED vars
    PROVE  \A ph, c, j : IsChain(ph, c, j)' <=> IsChain(ph, c, j)
BY PredSetKept DEF IsChain

LEMMA FrontIs ==
    ASSUME NEW S, NEW s \in Seq(S), s # <<>>
    PROVE  /\ Front(s) \in Seq(S) /\ Len(Front(s)) = Len(s) - 1
           /\ \A k \in 1..(Len(s) - 1) : Front(s)[k] = s[k]
<1>1. Len(s) \in Nat \ {0}
  BY EmptySeq
<1>2. \A i \in 1..(Len(s) - 1) : s[i] \in S
  BY <1>1, ElementOfSeq
<1>. DEFINE f == SubSeq(s, 1, Len(s) - 1)
<1>3. /\ f \in Seq(S)
      /\ Len(f) = IF 1 <= Len(s) - 1 THEN Len(s) - 1 - 1 + 1 ELSE 0
      /\ \A i \in 1..(Len(s) - 1 - 1 + 1) : f[i] = s[1 + i - 1]
  <2>1. 1 \in Int /\ Len(s) - 1 \in Int
    BY <1>1
  <2>. HIDE DEF f
  <2>. QED
    BY <1>2, <2>1, SubSeqProperties DEF f
<1>. HIDE DEF f
<1>4. Front(s) = f
  BY DEF Front, f
<1>. QED
  BY <1>1, <1>3, <1>4

LEMMA TwoMore ==
    ASSUME NEW S, NEW s \in Seq(S), NEW a \in S, NEW b \in S
    PROVE  /\ s \o <<a, b>> \in Seq(S) /\ Len(s \o <<a, b>>) = Len(s) + 2
           /\ \A k \in 1..Len(s) : (s \o <<a, b>>)[k] = s[k]
           /\ (s \o <<a, b>>)[Len(s) + 1] = a /\ (s \o <<a, b>>)[Len(s) + 2] = b
<1>. DEFINE t == <<a, b>>
<1>1. t \in Seq(S) /\ Len(t) = 2 /\ t[1] = a /\ t[2] = b
  OBVIOUS
<1>. HIDE DEF t
<1>2. /\ s \o t \in Seq(S) /\ Len(s \o t) = Len(s) + 2
      /\ \A i \in 1..(Len(s) + 2) : (s \o t)[i] = IF i <= Len(s) THEN s[i] ELSE t[i - Len(s)]
  <2>1. /\ s \o t \in Seq(S) /\ Len(s \o t) = Len(s) + Len(t)
        /\ \A i \in 1..(Len(s) + Len(t)) :
              (s \o t)[i] = IF i <= Len(s) THEN s[i] ELSE t[i - Len(s)]
    BY <1>1, ConcatProperties
  <2>. QED
    BY <1>1, <2>1
<1>3. Len(s) \in Nat
  OBVIOUS
<1>4. /\ \A k \in 1..Len(s) : (s \o t)[k] = s[k]
      /\ (s \o t)[Len(s) + 1] = t[1] /\ (s \o t)[Len(s) + 2] = t[2]
  BY <1>2, <1>3
<1>. QED
  BY <1>1, <1>2, <1>4 DEF t

LEMMA FrameTypes ==
    ASSUME StackInv
    PROVE  /\ Len(stack) \in Nat /\ (stack # <<>> => Len(stack) \in Nat \ {0})
           /\ \A k \in 1..Len(stack) :
                /\ stack[k] \in Frames /\ stack[k].node \in Activities
                /\ stack[k].visited \in BOOLEAN /\ FrameSound(stack[k])
<1>1. stack \in Seq(Frames) /\ \A k \in 1..Len(stack) : FrameSound(stack[k])
  BY DEF StackInv
<1>2. \A f \in Frames : f.node \in Activities /\ f.visited \in BOOLEAN
  BY DEF Frames
<1>. HIDE DEF Frames
<1>3. /\ Len(stack) \in Nat /\ (stack # <<>> => Len(stack) \in Nat \ {0})
      /\ \A k \in 1..Len(stack) : stack[k] \in Frames
  BY <1>1
<1>. QED
  BY <1>1, <1>2, <1>3

LEMMA StackShort ==
    ASSUME TypeOK, AllActive, StackInv
    PROVE  Len(stack) \in Nat /\ Len(stack) <= N
<1>. DEFINE Deep == {k \in 1..Len(stack) : Place(stack[k].node) <= N + 1 - k}
<1>0. Len(stack) \in Nat /\ N \in Nat /\ \A k \in 1..Len(stack) : stack[k].node \in Activities
  BY SizeAssumption, FrameTypes
<1>1. ASSUME NEW k \in 1..Len(stack), \A r \in 1..(k - 1) : r \in Deep PROVE k \in Deep
  <2>1. CASE k = 1
    BY <1>0, <2>1, PlaceIs
  <2>2. CASE k > 1
    <3>1. k - 1 \in Deep /\ k - 1 \in 1..(Len(stack) - 1)
      BY <1>0, <1>1, <2>2
    <3>2. stack[(k - 1) + 1].node \in PredSet(phase, stack[k - 1].node)
      BY <3>1 DEF StackInv
    <3>3. Place(stack[k].node) < Place(stack[k - 1].node)
      BY <2>2, <3>2, PredSetFacts
    <3>4. Place(stack[k - 1].node) <= N + 1 - (k - 1)
      BY <3>1
    <3>5. Place(stack[k].node) \in Nat /\ Place(stack[k - 1].node) \in Nat
      BY <1>0, <2>2, PlaceIs
    <3>. QED
      BY <1>0, <3>3, <3>4, <3>5
  <2>. QED
    BY <2>1, <2>2
<1>2. 1..Len(stack) \subseteq Deep
  <2>. HIDE DEF Deep
  <2>. QED
    BY <1>0, <1>1, ClimbsFromBelow
<1>3. ASSUME Len(stack) > 0 PROVE Len(stack) <= N
  <2>1. Len(stack) \in Deep
    BY <1>0, <1>2, <1>3
  <2>2. Place(stack[Len(stack)].node) \in 1..N
    BY <1>0, <1>3, PlaceIs
  <2>. QED
    BY <1>0, <2>1, <2>2
<1>. QED
  BY <1>0, <1>3

LEMMA PendingSplit ==
    ASSUME StackInv, stack # <<>>, NEW c
    PROVE  Pending(c) <=> PendingBelow(c) \/ PendingAt(c, Len(stack))
<1>1. Len(stack) \in Nat \ {0}
  BY DEF StackInv
<1>. QED
  BY <1>1 DEF Pending, PendingBelow

\* A chain that ends like the whole stack goes on through a predecessor of the
\* top, or is the stack, when the top is start.
LEMMA TopNext ==
    ASSUME TypeOK, AllActive, StackInv, stack # <<>>,
           NEW c, IsChain(phase, c, end_idx), Agrees(c, Len(stack))
    PROVE  /\ Top.node # start_idx =>
                Len(stack) < Len(c) /\ c[Len(c) - Len(stack)] \in PredSet(phase, Top.node)
           /\ Top.node = start_idx => c = ChainOf(stack)
<1>. DEFINE L == Len(stack)
<1>0. /\ c \in Seq(Activities) /\ c # <<>> /\ c[1] = start_idx
      /\ \A k \in 1..(Len(c) - 1) : c[k] \in PredSet(phase, c[k + 1])
  BY DEF IsChain
<1>1. /\ L \in Nat \ {0} /\ Len(c) \in Nat \ {0} /\ L <= Len(c)
      /\ \A i \in 1..L : c[Len(c) + 1 - i] = stack[i].node
  BY <1>0, FrameTypes DEF Agrees
<1>2. c[Len(c) + 1 - L] = Top.node
  BY <1>1 DEF Top, Last
<1>3. ASSUME L < Len(c) PROVE c[Len(c) - L] \in PredSet(phase, Top.node)
  <2>1. Len(c) - L \in 1..(Len(c) - 1) /\ (Len(c) - L) + 1 = Len(c) + 1 - L
    BY <1>1, <1>3
  <2>. QED
    BY <1>0, <1>2, <2>1
<1>4. ASSUME L = Len(c) PROVE Top.node = start_idx /\ c = ChainOf(stack)
  <2>1. Top.node = start_idx
    BY <1>0, <1>1, <1>2, <1>4
  <2>2. \A k \in 1..Len(c) : c[k] = stack[L + 1 - k].node
    <3>. TAKE k \in 1..Len(c)
    <3>1. L + 1 - k \in 1..L /\ Len(c) + 1 - (L + 1 - k) = k
      BY <1>1, <1>4
    <3>. QED
      BY <1>1, <3>1
  <2>3. c = [k \in 1..L |-> stack[L + 1 - k].node]
    BY <1>0, <1>1, <1>4, <2>2
  <2>. QED
    BY <2>1, <2>3 DEF ChainOf
<1>5. Top.node = start_idx => ~(L < Len(c))
  BY <1>3, PredSetFacts
<1>6. L < Len(c) \/ L = Len(c)
  BY <1>1
<1>. QED
  BY <1>3, <1>4, <1>5, <1>6

\* The top goes: what was still to come through the frames below it is left.
LEMMA PopKeeps ==
    ASSUME TypeOK, AllActive, StackInv, stack # <<>>,
           UNCHANGED vars, phase' = phase, stack' = Front(stack)
    PROVE  StackInv' /\ \A c : Pending(c)' <=> PendingBelow(c)
<1>. DEFINE L == Len(stack)
<1>1. L \in Nat \ {0} /\ stack \in Seq(Frames)
  BY FrameTypes DEF StackInv
<1>2. /\ stack' \in Seq(Frames) /\ Len(stack') = L - 1
      /\ \A k \in 1..(L - 1) : stack'[k] = stack[k]
  BY <1>1, FrontIs
<1>3. StackInv'
  <2>1. stack' # <<>> => stack'[1].node = end_idx
    BY <1>1, <1>2 DEF StackInv
  <2>2. \A k \in 1..(L - 1) : FrameSound(stack[k])'
    <3>. TAKE k \in 1..(L - 1)
    <3>1. FrameSound(stack[k]) /\ stack'[k] = stack[k]
      BY <1>1, <1>2 DEF StackInv
    <3>. QED
      BY <3>1, PredSetKept DEF FrameSound
  <2>3. \A k \in 1..(L - 1 - 1) :
          /\ stack'[k].visited
          /\ stack'[k + 1].node \in PredSet(phase, stack[k].node)' \ stack'[k].preds
    <3>. TAKE k \in 1..(L - 1 - 1)
    <3>1. k \in 1..(L - 1) /\ k + 1 \in 1..(L - 1)
      BY <1>1
    <3>2. /\ stack[k].visited
          /\ stack[k + 1].node \in PredSet(phase, stack[k].node) \ stack[k].preds
      BY <3>1 DEF StackInv
    <3>. QED
      BY <1>2, <3>1, <3>2, PredSetKept
  <2>. QED
    BY <1>2, <2>1, <2>2, <2>3 DEF StackInv, Frames
<1>4. ASSUME NEW c, NEW k \in 1..(L - 1) PROVE PendingAt(c, k)' <=> PendingAt(c, k)
  <2>1. \A i \in 1..k : stack'[i] = stack[i]
    BY <1>1, <1>2
  <2>. QED
    BY <1>2, <2>1 DEF PendingAt, Agrees
<1>. QED
  BY <1>2, <1>3, <1>4 DEF Pending, PendingBelow

\* One of ps is followed: what goes on through ps is still to come.
LEMMA PushKeeps ==
    ASSUME TypeOK, AllActive, StackInv, stack # <<>>,
           UNCHANGED vars, phase' = phase, Top.node # start_idx,
           NEW ps \in SUBSET PredSet(phase, Top.node), NEW p \in ps,
           NEW L \in Nat \ {0}, L = Len(stack),
           stack' \in Seq(Frames), Len(stack') = L + 1,
           \A k \in 1..(L - 1) : stack'[k] = stack[k],
           stack'[L].node = Top.node, stack'[L].visited, stack'[L].preds = ps \ {p},
           stack'[L + 1] = Frame(p)
    PROVE  /\ StackInv'
           /\ \A c \in Seq(Activities) : Pending(c)' <=>
                 \/ PendingBelow(c)
                 \/ Agrees(c, L) /\ L < Len(c) /\ c[Len(c) - L] \in ps
<1>1. stack \in Seq(Frames) /\ Top = stack[L] /\ stack[L] \in Frames
  BY FrameTypes DEF StackInv, Top, Last
<1>2. Frame(p).node = p /\ Frame(p).visited = FALSE /\ Frame(p).preds = {}
  BY DEF Frame
<1>. HIDE DEF Frame
<1>4. StackInv'
  <2>1. stack'[1].node = end_idx
    <3>1. CASE L = 1
      BY <1>1, <1>2, <3>1 DEF StackInv
    <3>2. CASE L > 1
      BY <1>1, <3>2 DEF StackInv
    <3>. QED
      BY <1>1, <3>1, <3>2
  <2>2. \A k \in 1..(L + 1) : FrameSound(stack[k])'
    <3>. TAKE k \in 1..(L + 1)
    <3>1. CASE k \in 1..(L - 1)
      <4>1. FrameSound(stack[k]) /\ stack'[k] = stack[k]
        BY <1>1, <3>1 DEF StackInv
      <4>. QED
        BY <4>1, PredSetKept DEF FrameSound
    <3>2. CASE k = L
      BY <1>1, <1>2, <3>2, PredSetKept DEF FrameSound
    <3>3. CASE k = L + 1
      BY <1>2, <3>3 DEF FrameSound
    <3>. QED
      BY <1>1, <3>1, <3>2, <3>3
  <2>3. \A k \in 1..L :
          /\ stack'[k].visited
          /\ stack'[k + 1].node \in PredSet(phase, stack[k].node)' \ stack'[k].preds
    <3>. TAKE k \in 1..L
    <3>1. CASE k < L
      <4>1. k \in 1..(L - 1)
        BY <1>1, <3>1
      <4>2. /\ stack[k].visited
            /\ stack[k + 1].node \in PredSet(phase, stack[k].node) \ stack[k].preds
        BY <4>1 DEF StackInv
      <4>3. stack'[k] = stack[k] /\ stack'[k + 1].node = stack[k + 1].node
        <5>1. CASE k + 1 = L
          BY <1>1, <4>1, <5>1
        <5>2. CASE k + 1 < L
          BY <1>1, <4>1, <5>2
        <5>. QED
          BY <1>1, <3>1, <5>1, <5>2
      <4>. QED
        BY <4>2, <4>3, PredSetKept
    <3>2. CASE k = L
      BY <1>1, <1>2, <3>2, PredSetKept
    <3>. QED
      BY <1>1, <3>1, <3>2
  <2>. QED
    BY <1>1, <2>1, <2>2, <2>3 DEF StackInv, Frames
<1>5. \A i \in 1..L : stack'[i].node = stack[i].node
  BY <1>1, <1>2
<1>6. ASSUME NEW c, NEW k \in 1..L PROVE Agrees(c, k)' <=> Agrees(c, k)
  <2>1. \A i \in 1..k : stack'[i].node = stack[i].node
    BY <1>1, <1>5
  <2>. QED
    BY <2>1 DEF Agrees
<1>7. ASSUME NEW c, NEW k \in 1..(L - 1) PROVE PendingAt(c, k)' <=> PendingAt(c, k)
  <2>1. k \in 1..L /\ stack'[k] = stack[k]
    BY <1>1
  <2>. QED
    BY <1>6, <2>1 DEF PendingAt
<1>8. ASSUME NEW c
      PROVE  PendingAt(c, L)' <=> Agrees(c, L) /\ L < Len(c) /\ c[Len(c) - L] \in ps \ {p}
  BY <1>1, <1>2, <1>6 DEF PendingAt
<1>9. ASSUME NEW c, c \in Seq(Activities)
      PROVE  PendingAt(c, L + 1)' <=> Agrees(c, L) /\ L < Len(c) /\ c[Len(c) - L] = p
  <2>0. Len(c) \in Nat /\ Len(c) + 1 - (L + 1) = Len(c) - L
    BY <1>1, <1>9
  <2>1. PendingAt(c, L + 1)' <=> Agrees(c, L + 1)'
    BY <1>2, <1>2 DEF PendingAt
  <2>2. Agrees(c, L + 1)' <=> L + 1 <= Len(c) /\ Agrees(c, L)' /\ c[Len(c) - L] = p
    <3>1. stack'[L + 1].node = p
      BY <1>2 DEF Frame
    <3>2. Agrees(c, L + 1)' <=>
            /\ L + 1 <= Len(c)
            /\ \A i \in 1..(L + 1) : c[Len(c) + 1 - i] = stack'[i].node
      BY DEF Agrees
    <3>3. Agrees(c, L)' <=> L <= Len(c) /\ \A i \in 1..L : c[Len(c) + 1 - i] = stack'[i].node
      BY DEF Agrees
    <3>4. \A i : i \in 1..(L + 1) <=> i \in 1..L \/ i = L + 1
      BY <1>1
    <3>5. L + 1 <= Len(c) => L <= Len(c)
      BY <1>1, <2>0
    <3>. QED
      BY <2>0, <3>1, <3>2, <3>3, <3>4, <3>5
  <2>. QED
    BY <1>1, <1>6, <2>0, <2>1, <2>2
<1>11. ASSUME NEW c \in Seq(Activities)
       PROVE  Pending(c)' <=> PendingBelow(c) \/ PendingAt(c, L)' \/ PendingAt(c, L + 1)'
  <2>1. Pending(c)' <=> \E k \in 1..(L + 1) : PendingAt(c, k)'
    BY DEF Pending
  <2>2. \A k \in 1..(L + 1) : k \in 1..(L - 1) \/ k = L \/ k = L + 1
    BY <1>1
  <2>3. 1..(L - 1) \subseteq 1..(L + 1) /\ L \in 1..(L + 1) /\ L + 1 \in 1..(L + 1)
    BY <1>1
  <2>4. PendingBelow(c) <=> \E k \in 1..(L - 1) : PendingAt(c, k)
    BY DEF PendingBelow
  <2>. QED
    BY <1>7, <2>1, <2>2, <2>3, <2>4
<1>12. ASSUME NEW c \in Seq(Activities)
       PROVE  Pending(c)' <=>
                 PendingBelow(c) \/ (Agrees(c, L) /\ L < Len(c) /\ c[Len(c) - L] \in ps)
  BY <1>8, <1>9, <1>11
<1>. QED
  BY <1>4, <1>12

LEMMA FollowPushes ==
    ASSUME TypeOK, AllActive, StackInv, stack # <<>>, UNCHANGED vars, phase' = phase,
           Top.node # start_idx, NEW ps \in SUBSET PredSet(phase, Top.node), Follow(ps)
    PROVE  /\ StackInv' /\ Len(stack') = Len(stack) + 1
           /\ \E p \in ps : Top' = Frame(p)
           /\ \A c \in Seq(Activities) : Pending(c)' <=>
                 \/ PendingBelow(c)
                 \/ /\ Agrees(c, Len(stack)) /\ Len(stack) < Len(c)
                    /\ c[Len(c) - Len(stack)] \in ps
<1>1. PICK p \in ps :
         stack' = Front(stack) \o <<[Top EXCEPT !.visited = TRUE, !.preds = ps \ {p}], Frame(p)>>
  BY DEF Follow
<1>. DEFINE top == [Top EXCEPT !.visited = TRUE, !.preds = ps \ {p}]
            L == Len(stack)
<1>2. /\ L \in Nat \ {0} /\ stack \in Seq(Frames) /\ Top = stack[L] /\ stack[L] \in Frames
  BY FrameTypes DEF StackInv, Top, Last
<1>3. /\ top.node = Top.node /\ top.visited = TRUE /\ top.preds = ps \ {p}
      /\ top \in Frames /\ Frame(p) \in Frames
  <2>1. ps \subseteq Activities
    BY PredSetFacts
  <2>. QED
    BY <1>2, <2>1 DEF Frames, Frame
<1>4. stack' = Front(stack) \o <<top, Frame(p)>>
  BY <1>1
<1>. HIDE DEF top
<1>5. /\ stack' \in Seq(Frames) /\ Len(stack') = L + 1
      /\ \A k \in 1..(L - 1) : stack'[k] = stack[k]
      /\ stack'[L] = top /\ stack'[L + 1] = Frame(p)
  <2>1. Front(stack) \in Seq(Frames) /\ Len(Front(stack)) = L - 1
        /\ \A k \in 1..(L - 1) : Front(stack)[k] = stack[k]
    BY <1>2, FrontIs
  <2>3. /\ stack' \in Seq(Frames) /\ Len(stack') = (L - 1) + 2
        /\ \A k \in 1..(L - 1) : stack'[k] = Front(stack)[k]
        /\ stack'[(L - 1) + 1] = top /\ stack'[(L - 1) + 2] = Frame(p)
    BY <1>3, <1>4, <2>1, TwoMore
  <2>4. (L - 1) + 1 = L /\ (L - 1) + 2 = L + 1
    BY <1>2
  <2>. QED
    BY <2>1, <2>3, <2>4
<1>6. Top' = Frame(p)
  BY <1>5 DEF Top, Last
<1>7. /\ StackInv'
      /\ \A c \in Seq(Activities) : Pending(c)' <=>
                 \/ PendingBelow(c)
                 \/ Agrees(c, L) /\ L < Len(c) /\ c[Len(c) - L] \in ps
  BY <1>2, <1>3, <1>5, PushKeeps
<1>. QED
  BY <1>5, <1>6, <1>7

-----------------------------------------------------------------------------
(* Each step of the search keeps both. *)

InSearch == phase \in {"critical", "near"} /\ StackInv /\ FoundInv

LEMMA SameFound ==
    ASSUME FoundInv, UNCHANGED vars, phase' = phase, out' = out,
           \A c \in Seq(Activities) : Pending(c)' => Pending(c),
           max_depth_guard >= N =>
              \A c : IsChain(phase, c, end_idx) /\ Pending(c) => Pending(c)'
    PROVE  FoundInv'
<1>1. \A i \in 1..Len(out) : out[i] \in Seq(Activities)
  BY DEF FoundInv, IsChain
<1>2. \A i \in 1..Len(out) : IsChain(phase, out[i], end_idx)' /\ ~Pending(out[i])'
  BY <1>1, ChainsKept DEF FoundInv
<1>3. max_depth_guard >= N =>
         \A c : IsChain(phase, c, end_idx)' => (\E i \in 1..Len(out) : out[i] = c) \/ Pending(c)'
  BY ChainsKept DEF FoundInv
<1>4. Limit' = Limit
  BY DEF Limit
<1>. QED
  BY <1>2, <1>3, <1>4 DEF FoundInv

LEMMA DeadEndKeeps ==
    ASSUME TypeOK, AllActive, InSearch, DeadEnd
    PROVE  InSearch'
<1>1. StackInv /\ FoundInv /\ stack # <<>> /\ ~Top.visited /\ phase \in {"critical", "near"}
  BY DEF InSearch, DeadEnd, Searching
<1>2. UNCHANGED vars /\ phase' = phase /\ out' = out /\ stack' = Front(stack)
  BY DEF DeadEnd
<1>3. StackInv' /\ \A c : Pending(c)' <=> PendingBelow(c)
  BY <1>1, <1>2, PopKeeps
<1>4. \A c : Pending(c) <=> PendingBelow(c) \/ PendingAt(c, Len(stack))
  BY <1>1, PendingSplit
<1>5. ASSUME max_depth_guard >= N, NEW c, IsChain(phase, c, end_idx), PendingAt(c, Len(stack))
      PROVE  FALSE
  <2>1. ~TooDeep
    BY <1>1, <1>5, StackShort, SizeAssumption, ConfigAssumption DEF TooDeep
  <2>2. Top.node # start_idx /\ PredSet(phase, Top.node) = {}
    BY <2>1 DEF DeadEnd
  <2>3. Agrees(c, Len(stack))
    BY <1>5 DEF PendingAt
  <2>. QED
    BY <1>1, <1>5, <2>2, <2>3, TopNext
<1>6. FoundInv'
  BY <1>1, <1>2, <1>3, <1>4, <1>5, SameFound
<1>. QED
  BY <1>1, <1>2, <1>3, <1>6 DEF InSearch

LEMMA ExpandKeeps ==
    ASSUME TypeOK, AllActive, InSearch, Expand
    PROVE  InSearch'
<1>1. /\ StackInv /\ FoundInv /\ stack # <<>> /\ ~Top.visited /\ phase \in {"critical", "near"}
      /\ Top.node # start_idx
  BY DEF InSearch, Expand, Searching
<1>2. UNCHANGED vars /\ phase' = phase /\ out' = out
  BY DEF Expand
<1>. DEFINE ps == PredSet(phase, Top.node)
<1>3. /\ StackInv'
      /\ \A c \in Seq(Activities) : Pending(c)' <=>
            \/ PendingBelow(c)
            \/ /\ Agrees(c, Len(stack)) /\ Len(stack) < Len(c)
               /\ c[Len(c) - Len(stack)] \in ps
  <2>1. Follow(ps) /\ ps \in SUBSET PredSet(phase, Top.node)
    BY DEF Expand
  <2>. HIDE DEF ps
  <2>. QED
    BY <1>1, <1>2, <2>1, FollowPushes
<1>4. \A c : Pending(c) <=> PendingBelow(c) \/ PendingAt(c, Len(stack))
  BY <1>1, PendingSplit
<1>5. \A c : PendingAt(c, Len(stack)) <=> Agrees(c, Len(stack))
  BY <1>1 DEF PendingAt, Top, Last
<1>6. ASSUME NEW c, IsChain(phase, c, end_idx), Agrees(c, Len(stack))
      PROVE  Len(stack) < Len(c) /\ c[Len(c) - Len(stack)] \in ps
  BY <1>1, <1>6, TopNext
<1>7. \A c : IsChain(phase, c, end_idx) => c \in Seq(Activities)
  BY DEF IsChain
<1>. HIDE DEF ps
<1>8. FoundInv'
  BY <1>1, <1>2, <1>3, <1>4, <1>5, <1>6, <1>7, SameFound
<1>. QED
  BY <1>1, <1>2, <1>3, <1>8 DEF InSearch

LEMMA TryNextKeeps ==
    ASSUME TypeOK, AllActive, InSearch, TryNext
    PROVE  InSearch'
<1>1. StackInv /\ FoundInv /\ stack # <<>> /\ Top.visited /\ phase \in {"critical", "near"}
  BY DEF InSearch, TryNext, Searching
<1>2. UNCHANGED vars /\ phase' = phase /\ out' = out /\ Follow(Top.preds)
  BY DEF TryNext
<1>3. Top.node # start_idx /\ Top.preds \subseteq PredSet(phase, Top.node)
  <2>1. FrameSound(Top)
    BY <1>1, FrameTypes DEF Top, Last
  <2>. QED
    BY <1>1, <2>1 DEF FrameSound
<1>4. /\ StackInv'
      /\ \A c \in Seq(Activities) : Pending(c)' <=>
            \/ PendingBelow(c)
            \/ /\ Agrees(c, Len(stack)) /\ Len(stack) < Len(c)
               /\ c[Len(c) - Len(stack)] \in Top.preds
  BY <1>1, <1>2, <1>3, FollowPushes
<1>5. \A c : Pending(c) <=> PendingBelow(c) \/ PendingAt(c, Len(stack))
  BY <1>1, PendingSplit
<1>6. \A c : PendingAt(c, Len(stack)) <=>
               Agrees(c, Len(stack)) /\ Len(stack) < Len(c) /\ c[Len(c) - Len(stack)] \in Top.preds
  BY <1>1 DEF PendingAt, Top, Last
<1>7. \A c : IsChain(phase, c, end_idx) => c \in Seq(Activities)
  BY DEF IsChain
<1>8. FoundInv'
  BY <1>1, <1>2, <1>4, <1>5, <1>6, <1>7, SameFound
<1>. QED
  BY <1>1, <1>2, <1>4, <1>8 DEF InSearch

LEMMA BacktrackKeeps ==
    ASSUME TypeOK, AllActive, InSearch, Backtrack
    PROVE  InSearch'
<1>1. /\ StackInv /\ FoundInv /\ stack # <<>> /\ phase \in {"critical", "near"}
      /\ Top.visited /\ Top.preds = {}
  BY DEF InSearch, Backtrack, Searching
<1>2. UNCHANGED vars /\ phase' = phase /\ out' = out /\ stack' = Front(stack)
  BY DEF Backtrack
<1>3. StackInv' /\ \A c : Pending(c)' <=> PendingBelow(c)
  BY <1>1, <1>2, PopKeeps
<1>4. \A c : Pending(c) <=> PendingBelow(c) \/ PendingAt(c, Len(stack))
  BY <1>1, PendingSplit
<1>5. \A c : ~PendingAt(c, Len(stack))
  BY <1>1 DEF PendingAt, Top, Last
<1>6. FoundInv'
  BY <1>1, <1>2, <1>3, <1>4, <1>5, SameFound
<1>. QED
  BY <1>1, <1>2, <1>3, <1>6 DEF InSearch

\* At start the stack is a chain, which was to come and no longer is.
LEMMA StackIsChain ==
    ASSUME TypeOK, StackInv, stack # <<>>, Top.node = start_idx
    PROVE  IsChain(phase, ChainOf(stack), end_idx) /\ Agrees(ChainOf(stack), Len(stack))
<1>. DEFINE L == Len(stack)
            c == ChainOf(stack)
<1>1. /\ L \in Nat \ {0} /\ stack[L].node = start_idx
      /\ \A k \in 1..L : stack[k].node \in Activities
      /\ stack[1].node = end_idx
      /\ \A k \in 1..(L - 1) : stack[k + 1].node \in PredSet(phase, stack[k].node)
  BY FrameTypes DEF StackInv, Top, Last
<1>2. c = [k \in 1..L |-> stack[L + 1 - k].node]
  BY DEF ChainOf
<1>3. \A k \in 1..L : L + 1 - k \in 1..L
  BY <1>1
<1>4. c \in Seq(Activities) /\ Len(c) = L /\ \A k \in 1..L : c[k] = stack[L + 1 - k].node
  <2>1. c \in [1..L -> Activities]
    BY <1>1, <1>2, <1>3
  <2>2. c \in Seq(Activities) /\ Len(c) = L
    BY <1>1, <2>1
  <2>. QED
    BY <1>2, <2>2
<1>. HIDE DEF c
<1>5. c[1] = start_idx /\ c[L] = end_idx
  BY <1>1, <1>4
<1>6. \A k \in 1..(L - 1) : c[k] \in PredSet(phase, c[k + 1])
  <2>. TAKE k \in 1..(L - 1)
  <2>1. /\ k \in 1..L /\ k + 1 \in 1..L /\ L - k \in 1..(L - 1)
        /\ L + 1 - (k + 1) = L - k /\ (L - k) + 1 = L + 1 - k
    BY <1>1
  <2>. QED
    BY <1>1, <1>4, <2>1
<1>7. IsChain(phase, c, end_idx)
  BY <1>1, <1>4, <1>5, <1>6 DEF IsChain
<1>8. Agrees(c, L)
  <2>1. \A i \in 1..L : L + 1 - i \in 1..L /\ L + 1 - (L + 1 - i) = i
    BY <1>1
  <2>. QED
    BY <1>1, <1>4, <2>1 DEF Agrees
<1>. QED
  BY <1>7, <1>8 DEF c

LEMMA ReachStartKeeps ==
    ASSUME TypeOK, AllActive, InSearch, ReachStart
    PROVE  InSearch' /\ out' # <<>>
<1>. DEFINE L == Len(stack)
            d == ChainOf(stack)
<1>1. /\ StackInv /\ FoundInv /\ stack # <<>> /\ phase \in {"critical", "near"}
      /\ ~Top.visited /\ Top.node = start_idx /\ Len(out) < Limit
  BY DEF InSearch, ReachStart, Searching
<1>2. UNCHANGED vars /\ phase' = phase /\ out' = Append(out, d) /\ stack' = Front(stack)
  BY DEF ReachStart
<1>3. StackInv' /\ \A c : Pending(c)' <=> PendingBelow(c)
  BY <1>1, <1>2, PopKeeps
<1>4. \A c : Pending(c) <=> PendingBelow(c) \/ PendingAt(c, L)
  BY <1>1, PendingSplit
<1>5. \A c : PendingAt(c, L) <=> Agrees(c, L)
  BY <1>1 DEF PendingAt, Top, Last
<1>6. IsChain(phase, d, end_idx) /\ Pending(d)
  BY <1>1, <1>4, <1>5, StackIsChain
<1>7. ~PendingBelow(d)
  <2>. SUFFICES ASSUME NEW k \in 1..(L - 1), PendingAt(d, k) PROVE FALSE
    BY DEF PendingBelow
  <2>1. /\ L \in Nat \ {0} /\ stack[k].visited
        /\ stack[k + 1].node \notin stack[k].preds
    BY <1>1, FrameTypes DEF StackInv
  <2>2. d[Len(d) - k] \in stack[k].preds
    BY <2>1 DEF PendingAt
  <2>3. /\ d \in Seq(Activities) /\ Len(d) = L
        /\ d[Len(d) + 1 - (k + 1)] = stack[k + 1].node
    <3>1. Agrees(d, L) /\ d = [i \in 1..L |-> stack[L + 1 - i].node] /\ d \in Seq(Activities)
      BY <1>1, StackIsChain DEF ChainOf, IsChain
    <3>2. Len(d) = L /\ k + 1 \in 1..L
      BY <2>1, <3>1
    <3>. QED
      BY <3>1, <3>2 DEF Agrees
  <2>. HIDE DEF d
  <2>4. Len(d) + 1 - (k + 1) = Len(d) - k
    BY <2>1, <2>3
  <2>. QED
    BY <2>1, <2>2, <2>3, <2>4
<1>8. ASSUME NEW c, IsChain(phase, c, end_idx), Agrees(c, L) PROVE c = d
  BY <1>1, <1>8, TopNext
<1>. HIDE DEF d
<1>9. /\ out \in Seq(Seq(Activities)) /\ d \in Seq(Activities)
      /\ \A i \in 1..Len(out) : IsChain(phase, out[i], end_idx) /\ ~Pending(out[i])
      /\ \A i, j \in 1..Len(out) : out[i] = out[j] => i = j
      /\ max_depth_guard >= N =>
           \A c : IsChain(phase, c, end_idx) => (\E i \in 1..Len(out) : out[i] = c) \/ Pending(c)
  BY <1>1, <1>6 DEF FoundInv, IsChain
<1>10. /\ out' \in Seq(Seq(Activities)) /\ Len(out) \in Nat /\ Len(out') = Len(out) + 1
       /\ \A i \in 1..Len(out) : out'[i] = out[i]
       /\ out'[Len(out) + 1] = d
  BY <1>2, <1>9
<1>11. \A i \in 1..Len(out') : i \in 1..Len(out) \/ i = Len(out) + 1
  BY <1>10
<1>12. \A i \in 1..Len(out') : IsChain(phase, out'[i], end_idx) /\ ~PendingBelow(out'[i])
  BY <1>4, <1>6, <1>7, <1>9, <1>10, <1>11
<1>13. ASSUME NEW i \in 1..Len(out'), NEW j \in 1..Len(out'), out'[i] = out'[j] PROVE i = j
  <2>1. \A k \in 1..Len(out) : out[k] # d
    BY <1>6, <1>9
  <2>. QED
    BY <1>9, <1>10, <1>11, <1>13, <2>1
<1>14. max_depth_guard >= N =>
           \A c : IsChain(phase, c, end_idx) => (\E i \in 1..Len(out') : out'[i] = c) \/ PendingBelow(c)
  <2>. SUFFICES ASSUME max_depth_guard >= N, NEW c, IsChain(phase, c, end_idx), ~PendingBelow(c)
                PROVE  \E i \in 1..Len(out') : out'[i] = c
    OBVIOUS
  <2>1. CASE PendingAt(c, L)
    <3>1. c = d
      BY <1>5, <1>8, <2>1
    <3>2. Len(out) + 1 \in 1..Len(out')
      BY <1>10
    <3>. QED
      BY <1>10, <3>1, <3>2
  <2>2. CASE \E i \in 1..Len(out) : out[i] = c
    <3>1. PICK i \in 1..Len(out) : out[i] = c
      BY <2>2
    <3>2. i \in 1..Len(out')
      BY <1>10
    <3>. QED
      BY <1>10, <3>1, <3>2
  <2>. QED
    BY <1>4, <1>9, <2>1, <2>2
<1>15. Limit' = Limit /\ Limit \in Nat
  BY <1>2, ConfigAssumption DEF Limit
<1>16. FoundInv'
  <2>1. \A i \in 1..Len(out') : IsChain(phase, out[i], end_idx)' /\ ~Pending(out[i])'
    BY <1>2, <1>3, <1>12, ChainsKept
  <2>2. max_depth_guard >= N =>
           \A c : IsChain(phase, c, end_idx)' => (\E i \in 1..Len(out') : out'[i] = c) \/ Pending(c)'
    BY <1>2, <1>3, <1>14, ChainsKept
  <2>3. Len(out') <= Limit'
    BY <1>1, <1>10, <1>15
  <2>. QED
    BY <1>10, <1>13, <2>1, <2>2, <2>3 DEF FoundInv
<1>. QED
  BY <1>1, <1>2, <1>3, <1>10, <1>16 DEF InSearch

-----------------------------------------------------------------------------
(* The dates: what drives a start, and how long a chain lasts.               *)

LEMMA DoneFacts ==
    ASSUME IInv, pc = "done", NEW j \in Activities
    PROVE  /\ TypeOK /\ EarlySettled(j) /\ LateSettled(j)
           /\ ES[j] \in Nat /\ LS[j] \in Int /\ durations[j] \in Nat /\ makespan \in Nat
           /\ EF[j] = ES[j] + durations[j] /\ LF[j] = LS[j] + durations[j]
           /\ TF[j] = LS[j] - ES[j] /\ ES[j] <= LS[j] /\ EF[j] <= makespan
<1>1. TypeOK /\ EarlySettled(j) /\ LateSettled(j)
  BY AllSettled DEF IInv
<1>2. /\ ES[j] \in Nat /\ LS[j] \in Int /\ LF[j] \in Int
      /\ durations[j] \in Nat /\ makespan \in Nat
  BY <1>1, DurationFacts DEF TypeOK
<1>3. ES[j] <= LS[j]
  <2>1. PICK q \in 1..N : topo_order[q] = j
    BY <1>1, OrderFacts
  <2>. QED
    BY <2>1 DEF IInv, FloatInv, BackwardSettled
<1>4. TF[j] = LS[j] - ES[j] /\ EF[j] <= makespan
  BY DEF IInv, SlackInv, MakespanInv, IsMax
<1>5. EF[j] = ES[j] + durations[j] /\ LF[j] = LS[j] + durations[j]
  BY <1>1, <1>2 DEF EarlySettled, LateSettled
<1>. QED
  BY <1>1, <1>2, <1>3, <1>4, <1>5

LEMMA DoneLinks ==
    ASSUME IInv, pc = "done", NEW e \in links
    PROVE  /\ e.from \in Activities /\ e.to \in Activities
           /\ e.lag \in Int /\ e.rel \in Relations
           /\ ForwardBound(e) \in Int /\ ForwardBound(e) <= ES[e.to]
           /\ LF[e.from] <= BackwardBound(e)
<1>1. TypeOK
  BY DEF IInv
<1>2. /\ e.from \in Activities /\ e.to \in Activities
      /\ e.lag \in Int /\ e.rel \in Relations /\ ForwardBound(e) \in Int
  BY <1>1, LinkType
<1>. QED
  BY <1>1, <1>2, DoneFacts, EarlyMeets, LateMeets

\* The date that predecessor p asks for: of one of its links, and no later than ES.
LEMMA CandidateIs ==
    ASSUME IInv, pc = "done", NEW j \in Activities, NEW p \in Preds(j)
    PROVE  /\ candidate_es(j, p) \in Int /\ candidate_es(j, p) <= ES[j]
           /\ \A e \in LinksInto(j) : e.from = p => ForwardBound(e) <= candidate_es(j, p)
           /\ \E e \in LinksInto(j) : e.from = p /\ ForwardBound(e) = candidate_es(j, p)
<1>. DEFINE B == {ForwardBound(e) : e \in {f \in LinksInto(j) : f.from = p}}
<1>1. \A e \in LinksInto(j) : ForwardBound(e) \in Int /\ ForwardBound(e) <= ES[j]
  BY DoneLinks DEF LinksInto
<1>2. B \in SUBSET Int /\ B # {} /\ \A x \in B : x <= ES[j]
  BY <1>1 DEF Preds
<1>3. candidate_es(j, p) = Greatest(B)
  BY DEF candidate_es
<1>4. ES[j] \in Int
  BY DoneFacts
<1>5. Greatest(B) \in B /\ \A x \in B : x <= Greatest(B)
  <2>. HIDE DEF B
  <2>. QED
    BY <1>2, <1>4, GreatestIs
<1>. QED
  BY <1>1, <1>2, <1>3, <1>5

LEMMA DeltaIs ==
    ASSUME IInv, pc = "done", NEW j \in Activities, NEW p \in Preds(j)
    PROVE  /\ delta(j, p) <= 0 =>
                \A e \in LinksInto(j) : ForwardBound(e) <= candidate_es(j, p)
           /\ candidate_es(j, p) = ES[j] => delta(j, p) <= 0
<1>. DEFINE B == {candidate_es(j, q) : q \in Preds(j)}
<1>1. \A q \in Preds(j) : /\ candidate_es(j, q) \in Int /\ candidate_es(j, q) <= ES[j]
                          /\ \A e \in LinksInto(j) : e.from = q => ForwardBound(e) <= candidate_es(j, q)
  BY CandidateIs
<1>2. B \in SUBSET Int /\ B # {} /\ \A x \in B : x <= ES[j]
  BY <1>1
<1>3. ES[j] \in Int
  BY DoneFacts
<1>4. Greatest(B) \in B /\ \A x \in B : x <= Greatest(B)
  <2>. HIDE DEF B
  <2>. QED
    BY <1>2, <1>3, GreatestIs
<1>5. delta(j, p) = Greatest(B) - candidate_es(j, p)
  BY DEF delta
<1>6. Greatest(B) \in Int /\ Greatest(B) <= ES[j]
  <2>. HIDE DEF B
  <2>. QED
    BY <1>2, <1>4
<1>7. ASSUME delta(j, p) <= 0, NEW e \in LinksInto(j) PROVE ForwardBound(e) <= candidate_es(j, p)
  <2>1. e.from \in Preds(j) /\ ForwardBound(e) \in Int
    BY DoneLinks DEF Preds, LinksInto
  <2>2. ForwardBound(e) <= candidate_es(j, e.from) /\ candidate_es(j, e.from) \in Int
    BY <1>1, <2>1
  <2>3. candidate_es(j, e.from) <= Greatest(B)
    BY <1>4, <2>1
  <2>4. Greatest(B) <= candidate_es(j, p) /\ candidate_es(j, p) \in Int
    <3>. HIDE DEF B
    <3>. QED
      BY <1>1, <1>5, <1>6, <1>7
  <2>. HIDE DEF B
  <2>. QED
    BY <1>6, <2>1, <2>2, <2>3, <2>4
<1>. HIDE DEF B
<1>. QED
  BY <1>1, <1>3, <1>5, <1>6, <1>7

\* Where links are plain a predecessor that the critical search follows decides
\* the start, through the one link there is.
LEMMA PlainTight ==
    ASSUME IInv, pc = "done", AllActive, Plain,
           NEW j \in Activities, NEW p \in PredSet("critical", j),
           NEW e \in links, e.from = p, e.to = j
    PROVE  ForwardBound(e) = ES[j]
<1>1. p \in Preds(j) /\ delta(j, p) <= 0
  BY DEF PredSet, Tolerance
<1>2. \A f \in LinksInto(j) : ForwardBound(f) <= candidate_es(j, p)
  BY <1>1, DeltaIs
<1>3. PICK f \in LinksInto(j) : f.from = p /\ ForwardBound(f) = candidate_es(j, p)
  BY <1>1, CandidateIs
<1>4. f = e
  BY <1>3 DEF Plain, LinksInto
<1>5. /\ ForwardBound(e) <= ES[j] /\ ForwardBound(e) \in Int /\ e.from \in Activities
      /\ e.rel = "FS" /\ e.lag \in Nat
  BY DoneLinks DEF Plain
<1>6. ForwardBound(e) >= 0
  <2>1. ES[e.from] \in Nat /\ durations[e.from] \in Nat /\ EF[e.from] = ES[e.from] + durations[e.from]
    BY <1>5, DoneFacts
  <2>. QED
    BY <1>5, <2>1 DEF ForwardBound
<1>7. ES[j] \in Nat /\ ES[j] \in StartBounds(j)
  BY DoneFacts DEF EarlySettled, IsMax
<1>8. ES[j] = 0 \/ \E g \in LinksInto(j) : ES[j] = ForwardBound(g)
  BY <1>7 DEF StartBounds
<1>. QED
  BY <1>2, <1>3, <1>4, <1>5, <1>6, <1>7, <1>8

\* And there is one for each critical activity but start.
LEMMA PlainFollows ==
    ASSUME IInv, pc = "done", AllActive, Plain,
           NEW j \in Activities, j # start_idx, TF[j] = 0
    PROVE  PredSet("critical", j) # {}
<1>0. TypeOK
  BY DEF IInv
<1>1. PICK e \in LinksInto(j) : ForwardBound(e) = ES[j]
  <2>1. ES[j] \in Nat /\ ES[j] \in StartBounds(j)
    BY DoneFacts DEF EarlySettled, IsMax
  <2>2. CASE ES[j] = 0
    <3>1. PICK e \in LinksInto(j) : TRUE
      BY <1>0, OthersHavePreds
    <3>2. /\ e \in links /\ e.to = j
          /\ ForwardBound(e) <= ES[j] /\ ForwardBound(e) \in Int /\ e.from \in Activities
          /\ e.rel = "FS" /\ e.lag \in Nat
      BY DoneLinks DEF Plain, LinksInto
    <3>3. ES[e.from] \in Nat /\ durations[e.from] \in Nat /\ EF[e.from] = ES[e.from] + durations[e.from]
      BY <3>2, DoneFacts
    <3>4. ForwardBound(e) >= 0
      BY <3>2, <3>3 DEF ForwardBound
    <3>. QED
      BY <2>1, <2>2, <3>2, <3>4
  <2>. QED
    BY <2>1, <2>2 DEF StartBounds
<1>2. /\ e \in links /\ e.to = j /\ e.from \in Activities /\ e.rel = "FS" /\ e.lag \in Int
      /\ LF[e.from] <= BackwardBound(e) /\ e.from \in Preds(j)
  BY DoneLinks DEF LinksInto, Plain, Preds
<1>3. TF[e.from] = 0
  <2>1. /\ ES[e.from] \in Nat /\ LS[e.from] \in Int /\ durations[e.from] \in Nat
        /\ EF[e.from] = ES[e.from] + durations[e.from]
        /\ LF[e.from] = LS[e.from] + durations[e.from]
        /\ TF[e.from] = LS[e.from] - ES[e.from] /\ ES[e.from] <= LS[e.from]
    BY <1>2, DoneFacts
  <2>2. ES[j] \in Nat /\ LS[j] \in Int /\ TF[j] = LS[j] - ES[j]
    BY DoneFacts
  <2>3. LF[e.from] <= LS[j] - e.lag
    BY <1>2, <2>2 DEF BackwardBound
  <2>4. ES[j] = EF[e.from] + e.lag
    BY <1>1, <1>2, <2>1 DEF ForwardBound
  <2>5. LS[e.from] <= ES[e.from]
    BY <1>2, <2>1, <2>2, <2>3, <2>4
  <2>. QED
    BY <2>1, <2>5
<1>4. delta(j, e.from) <= 0
  <2>1. /\ candidate_es(j, e.from) \in Int /\ candidate_es(j, e.from) <= ES[j]
        /\ ForwardBound(e) <= candidate_es(j, e.from)
    BY <1>2, CandidateIs
  <2>2. candidate_es(j, e.from) = ES[j]
    <3>1. ES[j] \in Int
      BY DoneFacts
    <3>. QED
      BY <1>1, <2>1, <3>1
  <2>. QED
    BY <1>2, <2>2, DeltaIs
<1>. QED
  BY <1>2, <1>3, <1>4 DEF PredSet, Tolerance

LEMMA CriticalOn ==
    ASSUME IInv, pc = "done", AllActive, NEW j, NEW p \in PredSet("critical", j)
    PROVE  TF[p] = 0
<1>1. TF[p] <= 0 /\ p \in Activities
  BY PredSetFacts DEF PredSet, Tolerance, IInv
<1>. QED
  BY <1>1, DoneFacts

\* With plain links no activity finishes after the one that all lead to.
LEMMA PlainEnds ==
    ASSUME IInv, pc = "done", AllActive, Plain
    PROVE  EF[end_idx] = makespan /\ TF[end_idx] = 0
<1>0. TypeOK /\ end_idx \in Activities
  BY ActiveAssumption DEF IInv
<1>1. PICK j \in Activities : EF[j] = makespan
  BY DEF IInv, MakespanInv, IsMax
<1>. DEFINE C == {i \in Activities : EF[j] <= EF[i]}
<1>2. Closed(C, links)
  <2>. SUFFICES ASSUME NEW e \in links, e.from \in C PROVE e.to \in C
    BY DEF Closed
  <2>1. /\ e.from \in Activities /\ e.to \in Activities /\ e.rel = "FS" /\ e.lag \in Nat
        /\ ForwardBound(e) <= ES[e.to]
    BY DoneLinks DEF Plain
  <2>2. /\ ES[e.to] \in Nat /\ durations[e.to] \in Nat /\ EF[e.to] = ES[e.to] + durations[e.to]
        /\ ES[e.from] \in Nat /\ durations[e.from] \in Nat
        /\ EF[e.from] = ES[e.from] + durations[e.from] /\ makespan \in Nat
    BY <2>1, DoneFacts
  <2>3. EF[e.from] + e.lag <= ES[e.to]
    BY <2>1 DEF ForwardBound
  <2>. QED
    BY <1>1, <2>1, <2>2, <2>3
<1>3. j \in C
  BY <1>1, DoneFacts
<1>4. EF[j] <= EF[end_idx]
  <2>1. C \in SUBSET Activities
    OBVIOUS
  <2>2. end_idx \in C
    <3>. HIDE DEF C
    <3>. QED
      BY <1>2, <1>3, <2>1, Between
  <2>. QED
    BY <2>2
<1>5. /\ ES[end_idx] \in Nat /\ LS[end_idx] \in Int /\ durations[end_idx] \in Nat
      /\ makespan \in Nat /\ EF[end_idx] = ES[end_idx] + durations[end_idx]
      /\ LF[end_idx] = LS[end_idx] + durations[end_idx]
      /\ TF[end_idx] = LS[end_idx] - ES[end_idx] /\ EF[end_idx] <= makespan
      /\ LateSettled(end_idx)
  BY <1>0, DoneFacts
<1>6. LF[end_idx] = makespan
  <2>1. LinksFrom(end_idx) = {}
    BY <1>0, EndIsLast DEF LinksFrom
  <2>. QED
    BY <1>5, <2>1 DEF LateSettled, IsMin, FinishBounds
<1>7. EF[end_idx] = makespan
  BY <1>1, <1>4, <1>5
<1>. QED
  BY <1>5, <1>6, <1>7

\* When the later end of a link is asked to start, after an earlier end at s.
Asked(s, e) == (IF e.rel \in {"FS", "FF"} THEN s + durations[e.from] ELSE s) + e.lag
                 - (IF e.rel \in {"FF", "SF"} THEN durations[e.to] ELSE 0)
HopLink(p, k) == edge_index[<<p[k - 1], p[k]>>]
StartsOf(start, p) ==
    /\ start[1] = 0
    /\ \A k \in 2..Len(p) : start[k] = Greatest({0, Asked(start[k - 1], HopLink(p, k))})

\* The recursion over the hops of a chain has a solution.
LEMMA StartsExist ==
    ASSUME NEW p, Len(p) \in Nat \ {0}
    PROVE  \E start : StartsOf(start, p) /\ path_duration(p) = start[Len(p)] + durations[Last(p)]
<1>. DEFINE Hop1(s, k) == Greatest({0, Asked(s, HopLink(p, k))})
            Body(f, k) == IF k = 1 THEN 0 ELSE Hop1(f[k - 1], k)
            IsIt(f) == f = [k \in 1..Len(p) |-> Body(f, k)]
            start == CHOOSE f : IsIt(f)
            Solved(n) == \E f : f = [k \in 1..n |-> Body(f, k)]
            Good == {n \in 1..Len(p) : Solved(n)}
<1>1. path_duration(p) = start[Len(p)] + durations[Last(p)]
  BY DEF path_duration, Asked, HopLink
<1>2. ASSUME NEW n \in 1..Len(p), \A r \in 1..(n - 1) : r \in Good PROVE Solved(n)
  <2>1. CASE n = 1
    <3>1. PICK f : f = [k \in 1..1 |-> 0]
      OBVIOUS
    <3>2. \A k \in 1..1 : Body(f, k) = 0
      OBVIOUS
    <3>. HIDE DEF Body
    <3>3. f = [k \in 1..1 |-> Body(f, k)]
      BY <3>1, <3>2
    <3>. QED
      BY <2>1, <3>3
  <2>2. CASE n > 1
    <3>1. Solved(n - 1)
      <4>. HIDE DEF Solved
      <4>1. n - 1 \in Good
        BY <1>2, <2>2
      <4>. QED
        BY <4>1
    <3>2. PICK f : f = [k \in 1..(n - 1) |-> Body(f, k)]
      BY <3>1
    <3>3. PICK g : g = [k \in 1..n |-> IF k = n THEN Hop1(f[n - 1], n) ELSE f[k]]
      OBVIOUS
    <3>4. \A k \in 1..(n - 1) : g[k] = f[k] /\ f[k] = Body(f, k)
      <4>. HIDE DEF Body, Hop1
      <4>. QED
        BY <2>2, <3>2, <3>3
    <3>5. ASSUME NEW k \in 1..n PROVE g[k] = Body(g, k)
      <4>. HIDE DEF Hop1
      <4>1. CASE k = 1
        BY <2>2, <3>4, <4>1
      <4>2. CASE k > 1 /\ k < n
        <5>1. k \in 1..(n - 1) /\ k - 1 \in 1..(n - 1)
          BY <4>2
        <5>2. g[k - 1] = f[k - 1] /\ g[k] = Hop1(f[k - 1], k)
          BY <3>4, <4>2, <5>1
        <5>. QED
          BY <4>2, <5>2
      <4>3. CASE k = n
        <5>1. n - 1 \in 1..(n - 1) /\ g[n] = Hop1(f[n - 1], n)
          BY <2>2, <3>3
        <5>2. g[n - 1] = f[n - 1]
          BY <3>4, <5>1
        <5>. QED
          BY <2>2, <4>3, <5>1, <5>2
      <4>. QED
        BY <2>2, <4>1, <4>2, <4>3
    <3>6. g = [k \in 1..n |-> Body(g, k)]
      <4>. HIDE DEF Body, Hop1
      <4>. QED
        BY <3>3, <3>5
    <3>. HIDE DEF Body
    <3>. QED
      BY <3>6
  <2>. HIDE DEF Solved
  <2>. QED
    BY <2>1, <2>2
<1>3. Len(p) \in Good
  <2>. HIDE DEF Solved
  <2>1. \A n \in 1..Len(p) : (\A r \in 1..(n - 1) : r \in Good) => n \in Good
    BY <1>2
  <2>2. Len(p) \in 1..Len(p)
    OBVIOUS
  <2>. HIDE DEF Good
  <2>. QED
    BY <2>1, <2>2, ClimbsFromBelow
<1>4. IsIt(start)
  <2>1. \E f : IsIt(f)
    <3>. HIDE DEF Body
    <3>. QED
      BY <1>3
  <2>. HIDE DEF IsIt
  <2>. QED
    BY <2>1
<1>5. \A k \in 1..Len(p) : start[k] = Body(start, k)
  <2>. HIDE DEF Body, start
  <2>. QED
    BY <1>4
<1>. HIDE DEF start
<1>6. start[1] = 0 /\ \A k \in 2..Len(p) : start[k] = Hop1(start[k - 1], k)
  <2>. HIDE DEF Hop1
  <2>1. 1 \in 1..Len(p) /\ \A k \in 2..Len(p) : k \in 1..Len(p) /\ k # 1
    OBVIOUS
  <2>. QED
    BY <1>5, <2>1
<1>7. StartsOf(start, p)
  BY <1>6 DEF StartsOf
<1>. QED
  BY <1>1, <1>7

LEMMA LaterOf ==
    ASSUME NEW a \in Int
    PROVE  /\ Greatest({0, a}) \in Nat
           /\ \A b \in Nat : a <= b => Greatest({0, a}) <= b
           /\ a \in Nat => Greatest({0, a}) = a
<1>. DEFINE S == {0, a}
<1>1. \E b \in Int : \A x \in S : x <= b
  <2>1. CASE a <= 0
    BY <2>1
  <2>2. CASE a > 0
    BY <2>2
  <2>. QED
    BY <2>1, <2>2
<1>2. S \in SUBSET Int /\ S # {}
  OBVIOUS
<1>3. Greatest(S) \in S /\ \A x \in S : x <= Greatest(S)
  <2>. HIDE DEF S
  <2>. QED
    BY <1>1, <1>2, GreatestIs
<1>. QED
  BY <1>3

LEMMA AskedIs ==
    ASSUME IInv, pc = "done", NEW e \in links, NEW s \in Int
    PROVE  /\ Asked(s, e) \in Int
           /\ s <= ES[e.from] => Asked(s, e) <= ForwardBound(e)
           /\ s = ES[e.from] => Asked(s, e) = ForwardBound(e)
<1>1. e.from \in Activities /\ e.to \in Activities /\ e.lag \in Int
  BY DoneLinks
<1>2. /\ ES[e.from] \in Nat /\ durations[e.from] \in Nat /\ durations[e.to] \in Nat
      /\ EF[e.from] = ES[e.from] + durations[e.from]
  BY <1>1, DoneFacts
<1>. QED
  BY <1>1, <1>2 DEF Asked, ForwardBound

LEMMA HopLinkIs ==
    ASSUME edge_index \in Indexes, NEW ph, NEW p, IsChain(ph, p, end_idx), NEW k \in 2..Len(p)
    PROVE  /\ k - 1 \in 1..(Len(p) - 1) /\ p[k - 1] \in PredSet(ph, p[k])
           /\ HopLink(p, k) \in links
           /\ HopLink(p, k).from = p[k - 1] /\ HopLink(p, k).to = p[k]
<1>1. p \in Seq(Activities) /\ Len(p) \in Nat
  BY DEF IsChain
<1>2. k - 1 \in 1..(Len(p) - 1) /\ (k - 1) + 1 = k
  BY <1>1
<1>3. p[k - 1] \in PredSet(ph, p[k])
  BY <1>2 DEF IsChain
<1>4. <<p[k - 1], p[k]>> \in Hops
  BY <1>3 DEF PredSet, Preds, LinksInto, Hops
<1>. DEFINE h == <<p[k - 1], p[k]>>
<1>5. edge_index[h] \in links /\ <<edge_index[h].from, edge_index[h].to>> = h
  <2>. HIDE DEF h
  <2>. QED
    BY <1>4 DEF Indexes, h
<1>. QED
  BY <1>2, <1>3, <1>5 DEF HopLink

\* A chain never starts an activity after its ES; a chain of critical activities
\* over plain links starts each at its ES.
LEMMA ChainStarts ==
    ASSUME IInv, pc = "done", AllActive, edge_index \in Indexes,
           NEW ph, NEW p, IsChain(ph, p, end_idx), NEW start, StartsOf(start, p),
           NEW k \in 1..Len(p)
    PROVE  /\ start[k] \in Nat /\ start[k] <= ES[p[k]]
           /\ Plain /\ ph = "critical" => start[k] = ES[p[k]]
<1>0. TypeOK
  BY DEF IInv
<1>1. /\ p \in Seq(Activities) /\ Len(p) \in Nat \ {0} /\ p[1] = start_idx
      /\ \A q \in 1..Len(p) : p[q] \in Activities
  BY DEF IsChain
<1>. DEFINE Early(q) == /\ start[q] \in Nat /\ start[q] <= ES[p[q]]
                        /\ Plain /\ ph = "critical" => start[q] = ES[p[q]]
            Good == {q \in 1..Len(p) : Early(q)}
<1>2. ASSUME NEW q \in 1..Len(p), \A r \in 1..(q - 1) : r \in Good PROVE Early(q)
  <2>1. CASE q = 1
    <3>1. LinksInto(start_idx) = {}
      BY <1>0, StartIsFirst DEF LinksInto
    <3>2. ES[start_idx] = 0
      <4>1. EarlySettled(start_idx)
        BY ActiveAssumption, DoneFacts
      <4>. QED
        BY <3>1, <4>1 DEF EarlySettled, IsMax, StartBounds
    <3>. QED
      BY <1>1, <2>1, <3>2 DEF StartsOf
  <2>2. CASE q > 1
    <3>. DEFINE e == HopLink(p, q)
    <3>1. q \in 2..Len(p)
      BY <1>1, <2>2
    <3>2. /\ p[q - 1] \in PredSet(ph, p[q]) /\ e \in links /\ e.from = p[q - 1] /\ e.to = p[q]
      BY <3>1, HopLinkIs
    <3>3. q - 1 \in Good /\ q - 1 \in 1..Len(p)
      BY <1>1, <1>2, <2>2
    <3>4. start[q - 1] \in Nat /\ start[q - 1] <= ES[e.from]
      BY <3>2, <3>3
    <3>5. /\ Asked(start[q - 1], e) \in Int
          /\ Asked(start[q - 1], e) <= ForwardBound(e)
          /\ start[q - 1] = ES[e.from] => Asked(start[q - 1], e) = ForwardBound(e)
      <4>. DEFINE s == start[q - 1]
      <4>. HIDE DEF e
      <4>1. e \in links /\ s \in Int /\ s <= ES[e.from]
        BY <3>2, <3>4
      <4>. HIDE DEF s
      <4>2. /\ Asked(s, e) \in Int /\ Asked(s, e) <= ForwardBound(e)
            /\ s = ES[e.from] => Asked(s, e) = ForwardBound(e)
        BY <4>1, AskedIs
      <4>. QED
        BY <4>2 DEF s
    <3>6. ForwardBound(e) \in Int /\ ForwardBound(e) <= ES[p[q]] /\ ES[p[q]] \in Nat
      <4>. HIDE DEF e
      <4>. QED
        BY <1>1, <3>2, DoneLinks, DoneFacts
    <3>7. start[q] = Greatest({0, Asked(start[q - 1], e)})
      BY <3>1 DEF StartsOf
    <3>8. start[q] \in Nat /\ start[q] <= ES[p[q]]
      <4>. HIDE DEF e
      <4>1. Asked(start[q - 1], e) <= ES[p[q]]
        BY <3>5, <3>6
      <4>. QED
        BY <3>5, <3>6, <3>7, <4>1, LaterOf
    <3>9. ASSUME Plain, ph = "critical" PROVE start[q] = ES[p[q]]
      <4>. HIDE DEF e
      <4>1. start[q - 1] = ES[e.from]
        BY <3>2, <3>3, <3>9
      <4>2. ForwardBound(e) = ES[p[q]]
        BY <1>1, <3>2, <3>9, PlainTight
      <4>3. Asked(start[q - 1], e) = ES[p[q]]
        BY <3>5, <4>1, <4>2
      <4>. QED
        BY <3>5, <3>6, <3>7, <4>3, LaterOf
    <3>. QED
      BY <3>8, <3>9
  <2>. QED
    BY <2>1, <2>2
<1>3. 1..Len(p) \subseteq Good
  <2>. HIDE DEF Early
  <2>1. \A q \in 1..Len(p) : (\A r \in 1..(q - 1) : r \in Good) => q \in Good
    BY <1>2
  <2>. HIDE DEF Good
  <2>. QED
    BY <1>1, <2>1, ClimbsFromBelow
<1>. QED
  BY <1>3

\* No chain lasts longer than the project, and with plain links none of critical
\* activities is shorter.
LEMMA ChainLasts ==
    ASSUME IInv, pc = "done", AllActive, edge_index \in Indexes,
           NEW ph, NEW p, IsChain(ph, p, end_idx)
    PROVE  /\ path_duration(p) \in Nat /\ path_duration(p) <= makespan
           /\ Plain /\ ph = "critical" => path_duration(p) = makespan
<1>1. p \in Seq(Activities) /\ Len(p) \in Nat \ {0} /\ p[Len(p)] = end_idx
  BY DEF IsChain
<1>2. PICK start : StartsOf(start, p) /\ path_duration(p) = start[Len(p)] + durations[Last(p)]
  BY <1>1, StartsExist
<1>3. /\ start[Len(p)] \in Nat /\ start[Len(p)] <= ES[end_idx]
      /\ Plain /\ ph = "critical" => start[Len(p)] = ES[end_idx]
  <2>. DEFINE n == Len(p)
  <2>1. n \in 1..Len(p)
    BY <1>1
  <2>. HIDE DEF n
  <2>2. /\ start[n] \in Nat /\ start[n] <= ES[p[n]]
        /\ Plain /\ ph = "critical" => start[n] = ES[p[n]]
    BY <1>2, <2>1, ChainStarts
  <2>. QED
    BY <1>1, <2>2 DEF n
<1>4. Last(p) = end_idx
  BY <1>1 DEF Last
<1>5. /\ ES[end_idx] \in Nat /\ durations[end_idx] \in Nat /\ makespan \in Nat
      /\ EF[end_idx] = ES[end_idx] + durations[end_idx] /\ EF[end_idx] <= makespan
  BY ActiveAssumption, DoneFacts
<1>6. Plain => EF[end_idx] = makespan
  BY PlainEnds
<1>. QED
  BY <1>2, <1>3, <1>4, <1>5, <1>6

-----------------------------------------------------------------------------
(* The inductive invariant of the whole extraction. *)

ChainList(ph, s) ==
    s \in Seq(Seq(Activities)) /\ \A i \in 1..Len(s) : IsChain(ph, s[i], end_idx)
ListsInv ==
    /\ phase \in {"near", "select", "done"} => ChainList("critical", critical_chains)
    /\ phase \in {"select", "done"} => ChainList("near", near_critical_chains)

\* Until its first chain is found the critical search over plain links only
\* goes deeper, so nothing can cut it before it reaches start.
Roomy == Plain /\ max_critical_chains > 0 /\ max_depth_guard >= N /\ max_expansions >= N
WitnessInv ==
    /\ phase = "critical" /\ Roomy /\ out = <<>> =>
         /\ stack # <<>> /\ ~Top.visited /\ TF[Top.node] = 0 /\ expansions = Len(stack) - 1
    /\ phase \in {"near", "select", "done"} /\ Roomy => critical_chains # <<>>

\* What is left never lasts longer than what is selected, and what was passed
\* over resembles a selected chain that lasts as long.
Represents(q, p) == (p = q \/ Similar(p, q)) /\ path_duration(q) >= path_duration(p)
Chosen ==
    /\ edge_index \in Indexes
    /\ candidates \subseteq Candidates
    /\ sel \in Seq(Candidates)
    /\ \A i, j \in 1..Len(sel) : i < j =>
          ~Similar(sel[i], sel[j]) /\ path_duration(sel[i]) >= path_duration(sel[j])
    /\ \A i \in 1..Len(sel) : \A p \in candidates : path_duration(sel[i]) >= path_duration(p)
    /\ \A p \in Candidates \ candidates : \E i \in 1..Len(sel) : Represents(sel[i], p)
    /\ sel # <<>> => \A p \in Candidates : path_duration(sel[1]) >= path_duration(p)
SelectionInv ==
    /\ phase \in {"cpm", "critical", "near"} => sel = <<>>
    /\ phase \in {"select", "done"} => Chosen
    /\ phase = "done" => candidates = {} \/ Len(sel) >= max_display_chains

DrivingInv ==
    /\ IInv /\ AllActive
    /\ phase \in {"cpm", "critical", "near", "select", "done"}
    /\ phase # "cpm" => pc = "done"
    /\ phase \in {"critical", "near"} => StackInv /\ FoundInv
    /\ ListsInv /\ WitnessInv /\ SelectionInv

LEMMA DrivingInitInv == DrivingInit => DrivingInv
<1>. SUFFICES ASSUME DrivingInit PROVE DrivingInv
  OBVIOUS
<1>1. IInv
  BY InvInit DEF DrivingInit
<1>2. AllActive
  BY ActiveAssumption DEF DrivingInit, Init, AllActive
<1>. QED
  BY <1>1, <1>2 DEF DrivingInit, DrivingInv, ListsInv, WitnessInv, SelectionInv

LEMMA StillKept ==
    ASSUME DrivingInv, UNCHANGED vars
    PROVE  IInv' /\ AllActive' /\ pc' = pc /\ (Roomy' <=> Roomy) /\ TF' = TF
<1>1. IInv'
  BY StutterKeeps DEF DrivingInv
<1>2. links' = links /\ pc' = pc /\ TF' = TF
  BY DEF vars, graph, slack
<1>3. AllActive' /\ (Roomy' <=> Roomy)
  BY <1>2 DEF DrivingInv, AllActive, Roomy, Plain
<1>. QED
  BY <1>1, <1>2, <1>3

LEMMA ComputeKeeps == DrivingInv /\ Compute => DrivingInv'
<1>. SUFFICES ASSUME DrivingInv, Compute PROVE DrivingInv'
  OBVIOUS
<1>1. IInv'
  BY InvStep DEF DrivingInv, Compute
<1>2. links' = links
  BY DEF Compute, Next, ForwardVisit, TakeMakespan, BackwardVisit, TakeSlack, Rerun, graph
<1>3. phase = "cpm" /\ phase' = "cpm" /\ sel' = sel
  BY DEF Compute, selection
<1>4. AllActive'
  BY <1>2 DEF DrivingInv, AllActive
<1>. QED
  BY <1>1, <1>3, <1>4 DEF DrivingInv, ListsInv, WitnessInv, SelectionInv

\* A search begins with every chain still to come.
LEMMA BeginKeeps ==
    ASSUME TypeOK, AllActive, UNCHANGED vars, NEW ph \in {"critical", "near"}, Begin(ph)
    PROVE  /\ StackInv' /\ FoundInv'
           /\ Top' = Frame(end_idx) /\ Len(stack') = 1 /\ stack' # <<>>
<1>. DEFINE f == Frame(end_idx)
<1>1. stack' = <<f>> /\ out' = <<>> /\ phase' = ph
  BY DEF Begin
<1>2. f \in Frames /\ f.node = end_idx /\ f.visited = FALSE /\ f.preds = {}
  BY ActiveAssumption DEF Frame, Frames
<1>. HIDE DEF f
<1>3. stack' \in Seq(Frames) /\ Len(stack') = 1 /\ stack'[1] = f /\ stack' # <<>>
  <2>. HIDE DEF Frames
  <2>. QED
    BY <1>1, <1>2
<1>4. StackInv'
  <2>1. FrameSound(stack[1])'
    BY <1>2, <1>3 DEF FrameSound
  <2>. QED
    BY <1>2, <1>3, <2>1 DEF StackInv, Frames
<1>5. ASSUME NEW c, IsChain(ph, c, end_idx)' PROVE Pending(c)'
  <2>1. c \in Seq(Activities) /\ Len(c) \in Nat \ {0} /\ c[Len(c)] = end_idx
    BY <1>5 DEF IsChain
  <2>2. Agrees(c, 1)'
    BY <1>2, <1>3, <2>1 DEF Agrees
  <2>3. PendingAt(c, 1)'
    BY <1>2, <1>3, <2>2 DEF PendingAt
  <2>. QED
    BY <1>3, <2>3 DEF Pending
<1>6. FoundInv'
  <2>1. Limit' \in Nat
    BY ConfigAssumption DEF Limit
  <2>2. /\ out' \in Seq(Seq(Activities)) /\ Len(out') = 0
    BY <1>1
  <2>. QED
    BY <1>1, <1>5, <2>1, <2>2 DEF FoundInv
<1>7. Top' = f
  BY <1>3 DEF Top, Last
<1>. QED
  BY <1>3, <1>4, <1>6, <1>7 DEF f

LEMMA SearchCriticalKeeps == DrivingInv /\ SearchCritical => DrivingInv'
<1>. SUFFICES ASSUME DrivingInv, SearchCritical PROVE DrivingInv'
  OBVIOUS
<1>1. /\ phase = "cpm" /\ pc = "done" /\ Begin("critical") /\ UNCHANGED vars
      /\ sel' = sel /\ phase' = "critical" /\ expansions' = 0 /\ TypeOK /\ AllActive /\ IInv
  BY DEF SearchCritical, Begin, selection, DrivingInv, IInv
<1>2. StackInv' /\ FoundInv' /\ Top' = Frame(end_idx) /\ Len(stack') = 1 /\ stack' # <<>>
  BY <1>1, BeginKeeps
<1>3. IInv' /\ AllActive' /\ pc' = pc /\ (Roomy' <=> Roomy) /\ TF' = TF
  BY <1>1, StillKept
<1>4. WitnessInv'
  <2>1. Roomy => TF[end_idx] = 0
    BY <1>1, PlainEnds DEF Roomy
  <2>2. (~Top.visited)' /\ Top'.node = end_idx
    BY <1>2 DEF Frame
  <2>. QED
    BY <1>1, <1>2, <1>3, <2>1, <2>2 DEF WitnessInv
<1>. QED
  BY <1>1, <1>2, <1>3, <1>4 DEF DrivingInv, ListsInv, SelectionInv

LEMMA ListsKept ==
    ASSUME UNCHANGED vars
    PROVE  \A ph, s : ChainList(ph, s)' <=> ChainList(ph, s)
BY ChainsKept DEF ChainList

\* Steps inside a search leave the rest alone.
LEMMA SearchStepKeeps ==
    ASSUME DrivingInv, phase \in {"critical", "near"}, UNCHANGED <<vars, phase, chains, selection>>,
           InSearch', WitnessInv'
    PROVE  DrivingInv'
<1>1. UNCHANGED vars /\ phase' = phase /\ critical_chains' = critical_chains /\ sel' = sel
  BY DEF chains, selection
<1>2. IInv' /\ AllActive' /\ pc' = pc
  BY <1>1, StillKept
<1>3. ListsInv'
  BY <1>1, ListsKept DEF ListsInv, DrivingInv
<1>. QED
  BY <1>1, <1>2, <1>3 DEF DrivingInv, InSearch, SelectionInv

LEMMA WitnessKept ==
    ASSUME DrivingInv, phase \in {"critical", "near"}, UNCHANGED <<vars, phase, chains, selection>>,
           phase = "critical" /\ Roomy /\ out' = <<>> =>
              /\ stack' # <<>> /\ ~Top'.visited /\ TF[Top'.node] = 0
              /\ expansions' = Len(stack') - 1
    PROVE  WitnessInv'
<1>1. UNCHANGED vars /\ phase' = phase /\ critical_chains' = critical_chains
  BY DEF chains
<1>2. (Roomy' <=> Roomy) /\ TF' = TF
  BY <1>1, StillKept
<1>. QED
  BY <1>1, <1>2 DEF WitnessInv, DrivingInv

LEMMA SearchActionsKeep ==
    DrivingInv /\ (ReachStart \/ DeadEnd \/ Expand \/ TryNext \/ Backtrack) => DrivingInv'
<1>. SUFFICES ASSUME DrivingInv, ReachStart \/ DeadEnd \/ Expand \/ TryNext \/ Backtrack
              PROVE  DrivingInv'
  OBVIOUS
<1>1. /\ Searching /\ phase \in {"critical", "near"} /\ stack # <<>>
      /\ UNCHANGED <<vars, phase, chains, selection>>
  BY DEF ReachStart, DeadEnd, Expand, TryNext, Backtrack, Searching
<1>2. TypeOK /\ AllActive /\ InSearch /\ IInv /\ pc = "done" /\ StackInv /\ UNCHANGED vars /\ phase' = phase
  BY <1>1 DEF DrivingInv, IInv, InSearch
<1>3. Len(stack) \in Nat \ {0} /\ Len(stack) <= N /\ Top.node \in Activities
  BY <1>1, <1>2, FrameTypes, StackShort DEF Top, Last
<1>4. CASE ReachStart
  <2>1. InSearch' /\ out' # <<>>
    BY <1>2, <1>4, ReachStartKeeps
  <2>. QED
    BY <1>1, <2>1, WitnessKept, SearchStepKeeps
<1>5. CASE DeadEnd
  <2>1. InSearch'
    BY <1>2, <1>5, DeadEndKeeps
  <2>2. ~(phase = "critical" /\ Roomy /\ out' = <<>>)
    <3>. SUFFICES ASSUME phase = "critical", Roomy, out' = <<>> PROVE FALSE
      OBVIOUS
    <3>1. out = <<>>
      BY <1>5 DEF DeadEnd
    <3>2. ~Top.visited /\ TF[Top.node] = 0
      BY <3>1 DEF DrivingInv, WitnessInv
    <3>3. ~TooDeep
      BY <1>3, SizeAssumption, ConfigAssumption DEF TooDeep, Roomy
    <3>4. Top.node # start_idx /\ PredSet("critical", Top.node) = {}
      BY <1>5, <3>3 DEF DeadEnd
    <3>. QED
      BY <1>2, <1>3, <3>2, <3>4, PlainFollows DEF Roomy
  <2>. QED
    BY <1>1, <2>1, <2>2, WitnessKept, SearchStepKeeps
<1>6. CASE Expand
  <2>1. InSearch'
    BY <1>2, <1>6, ExpandKeeps
  <2>2. ASSUME phase = "critical", Roomy, out' = <<>>
        PROVE  /\ stack' # <<>> /\ ~Top'.visited /\ TF[Top'.node] = 0
               /\ expansions' = Len(stack') - 1
    <3>1. out = <<>> /\ expansions' = expansions + 1
      BY <1>6, <2>2 DEF Expand, Expanded
    <3>2. expansions = Len(stack) - 1
      BY <2>2, <3>1 DEF DrivingInv, WitnessInv
    <3>. DEFINE ps == PredSet(phase, Top.node)
    <3>3. Len(stack') = Len(stack) + 1 /\ \E p \in ps : Top' = Frame(p)
      <4>1. Follow(ps) /\ ps \in SUBSET PredSet(phase, Top.node) /\ Top.node # start_idx
        BY <1>6 DEF Expand
      <4>. HIDE DEF ps
      <4>. QED
        BY <1>1, <1>2, <4>1, FollowPushes
    <3>4. PICK p \in ps : Top' = Frame(p)
      BY <3>3
    <3>5. TF[p] = 0 /\ Frame(p).node = p /\ Frame(p).visited = FALSE
      BY <1>2, <2>2, CriticalOn DEF Frame
    <3>6. stack' # <<>>
      <4>1. Len(stack') # 0
        BY <1>3, <3>3
      <4>2. Len(<<>>) = 0
        OBVIOUS
      <4>. QED
        BY <4>1, <4>2
    <3>. QED
      BY <1>3, <3>1, <3>2, <3>3, <3>4, <3>5, <3>6
  <2>. QED
    BY <1>1, <2>1, <2>2, WitnessKept, SearchStepKeeps
<1>7. CASE TryNext \/ Backtrack
  <2>1. InSearch'
    BY <1>2, <1>7, TryNextKeeps, BacktrackKeeps
  <2>2. ~(phase = "critical" /\ Roomy /\ out' = <<>>)
    <3>1. Top.visited /\ out' = out
      BY <1>7 DEF TryNext, Backtrack
    <3>. QED
      BY <3>1 DEF DrivingInv, WitnessInv
  <2>. QED
    BY <1>1, <2>1, <2>2, WitnessKept, SearchStepKeeps
<1>. QED
  BY <1>4, <1>5, <1>6, <1>7

LEMMA SearchNearKeeps == DrivingInv /\ SearchNear => DrivingInv'
<1>. SUFFICES ASSUME DrivingInv, SearchNear PROVE DrivingInv'
  OBVIOUS
<1>1. /\ phase = "critical" /\ ~Searching /\ Begin("near") /\ UNCHANGED vars
      /\ sel' = sel /\ phase' = "near" /\ critical_chains' = out
  BY DEF SearchNear, Begin, selection
<1>2. TypeOK /\ AllActive /\ StackInv /\ FoundInv /\ sel = <<>> /\ pc = "done"
  BY <1>1 DEF DrivingInv, IInv, SelectionInv
<1>3. StackInv' /\ FoundInv'
  BY <1>1, <1>2, BeginKeeps
<1>4. IInv' /\ AllActive' /\ pc' = pc /\ (Roomy' <=> Roomy)
  BY <1>1, StillKept
<1>5. ChainList("critical", out)
  BY <1>1, <1>2 DEF FoundInv, ChainList
<1>6. ListsInv'
  BY <1>1, <1>5, ListsKept DEF ListsInv
<1>7. ASSUME Roomy PROVE out # <<>>
  <2>. SUFFICES ASSUME out = <<>> PROVE FALSE
    OBVIOUS
  <2>1. stack # <<>> /\ expansions = Len(stack) - 1
    BY <1>1, <1>7 DEF DrivingInv, WitnessInv
  <2>2. Len(stack) \in Nat /\ Len(stack) <= N
    BY <1>2, StackShort
  <2>3. expansions <= max_expansions
    BY <1>7, <2>1, <2>2, SizeAssumption, ConfigAssumption DEF Roomy
  <2>4. Len(out) < Limit
    BY <1>1, <1>7 DEF Limit, Roomy
  <2>. QED
    BY <1>1, <2>1, <2>3, <2>4 DEF Searching
<1>8. WitnessInv'
  BY <1>1, <1>4, <1>7 DEF WitnessInv
<1>. QED
  BY <1>1, <1>2, <1>3, <1>4, <1>6, <1>8 DEF DrivingInv, SelectionInv

LEMMA CandidatesLast ==
    ASSUME DrivingInv, phase \in {"select", "done"}
    PROVE  \A p \in Candidates : path_duration(p) \in Nat /\ path_duration(p) <= makespan
<1>1. /\ IInv /\ pc = "done" /\ AllActive /\ edge_index \in Indexes
      /\ ChainList("critical", critical_chains) /\ ChainList("near", near_critical_chains)
  BY DEF DrivingInv, ListsInv, SelectionInv, Chosen
<1>. SUFFICES ASSUME NEW p \in Candidates
              PROVE  path_duration(p) \in Nat /\ path_duration(p) <= makespan
  OBVIOUS
<1>2. \E ph : IsChain(ph, p, end_idx)
  <2>1. ASSUME NEW ph, NEW s, ChainList(ph, s), p \in ToSet(s)
        PROVE  IsChain(ph, p, end_idx)
    <3>1. PICK i \in DOMAIN s : p = s[i]
      BY <2>1 DEF ToSet
    <3>2. s \in Seq(Seq(Activities)) /\ DOMAIN s = 1..Len(s)
      BY <2>1 DEF ChainList
    <3>. QED
      BY <2>1, <3>1, <3>2 DEF ChainList
  <2>. QED
    BY <1>1, <2>1 DEF Candidates
<1>. QED
  BY <1>1, <1>2, ChainLasts

LEMMA DurationKept ==
    ASSUME UNCHANGED vars, edge_index' = edge_index
    PROVE  \A p : path_duration(p)' = path_duration(p)
<1>1. durations' = durations
  BY DEF vars
<1>. QED
  BY <1>1 DEF path_duration

LEMMA MergeKeeps == DrivingInv /\ Merge => DrivingInv'
<1>. SUFFICES ASSUME DrivingInv, Merge PROVE DrivingInv'
  OBVIOUS
<1>1. /\ phase = "near" /\ phase' = "select" /\ UNCHANGED vars /\ near_critical_chains' = out
      /\ critical_chains' = critical_chains /\ sel' = sel /\ edge_index' \in Indexes
      /\ candidates' = ToSet(critical_chains) \cup ToSet(out)
  BY DEF Merge
<1>2. FoundInv /\ sel = <<>> /\ pc = "done" /\ ChainList("critical", critical_chains)
  BY <1>1 DEF DrivingInv, SelectionInv, ListsInv
<1>3. IInv' /\ AllActive' /\ pc' = pc /\ (Roomy' <=> Roomy)
  BY <1>1, StillKept
<1>4. ListsInv'
  <2>1. ChainList("near", out)
    BY <1>1, <1>2 DEF FoundInv, ChainList
  <2>. QED
    BY <1>1, <1>2, <2>1, ListsKept DEF ListsInv
<1>5. WitnessInv'
  BY <1>1, <1>3 DEF WitnessInv, DrivingInv
<1>6. Chosen'
  <2>1. (edge_index \in Indexes)'
    BY <1>1 DEF Indexes, Hops, vars, graph
  <2>2. candidates' = Candidates'
    BY <1>1 DEF Candidates
  <2>3. sel' = <<>> /\ Len(sel') = 0 /\ sel' \in Seq(Candidates')
    BY <1>1, <1>2
  <2>. QED
    BY <2>1, <2>2, <2>3 DEF Chosen
<1>. QED
  BY <1>1, <1>2, <1>3, <1>4, <1>5, <1>6 DEF DrivingInv, SelectionInv

LEMMA Resemblance ==
    \A p, q : Similar(p, q) <=> Similar(q, p)
<1>. TAKE p, q
<1>1. ToSet(p) \cap ToSet(q) = ToSet(q) \cap ToSet(p) /\ ToSet(p) \cup ToSet(q) = ToSet(q) \cup ToSet(p)
  OBVIOUS
<1>. QED
  BY <1>1 DEF Similar

LEMMA SelectChooses ==
    ASSUME DrivingInv, Select
    PROVE  Chosen'
<1>1. /\ phase = "select" /\ UNCHANGED vars /\ edge_index' = edge_index
      /\ critical_chains' = critical_chains /\ near_critical_chains' = near_critical_chains
  BY DEF Select, chains
<1>2. PICK p \in Longest : /\ candidates' = candidates \ {p}
                           /\ sel' = IF Novel(p) THEN Append(sel, p) ELSE sel
  BY DEF Select
<1>3. /\ edge_index \in Indexes /\ candidates \subseteq Candidates /\ sel \in Seq(Candidates)
      /\ \A i, j \in 1..Len(sel) : i < j =>
            ~Similar(sel[i], sel[j]) /\ path_duration(sel[i]) >= path_duration(sel[j])
      /\ \A i \in 1..Len(sel) : \A q \in candidates : path_duration(sel[i]) >= path_duration(q)
      /\ \A q \in Candidates \ candidates : \E i \in 1..Len(sel) : Represents(sel[i], q)
      /\ sel # <<>> => \A q \in Candidates : path_duration(sel[1]) >= path_duration(q)
  BY <1>1 DEF DrivingInv, SelectionInv, Chosen
<1>4. p \in candidates /\ \A q \in candidates : path_duration(q) <= path_duration(p)
  BY DEF Longest
<1>5. \A q \in Candidates : path_duration(q) \in Nat
  BY <1>1, CandidatesLast
<1>6. Candidates' = Candidates /\ (edge_index \in Indexes)'
  BY <1>1, <1>3 DEF Candidates, Indexes, Hops, vars, graph
<1>7. /\ \A q : path_duration(q)' = path_duration(q)
      /\ \A q, r : Similar(q, r)' <=> Similar(q, r)
  BY <1>1, DurationKept DEF Similar
<1>8. \A q, r : Represents(q, r)' <=> Represents(q, r)
  BY <1>7 DEF Represents
<1>9. Novel(p) <=> \A i \in 1..Len(sel) : ~Similar(p, sel[i])
  BY <1>3 DEF Novel, ToSet
<1>10. CASE ~Novel(p)
  <2>1. sel' = sel
    BY <1>2, <1>10
  <2>2. \A q \in Candidates \ candidates' : \E i \in 1..Len(sel) : Represents(sel[i], q)
    <3>1. PICK i \in 1..Len(sel) : Similar(p, sel[i])
      BY <1>9, <1>10
    <3>2. Represents(sel[i], p)
      BY <1>3, <1>4, <3>1 DEF Represents
    <3>. QED
      BY <1>2, <1>3, <3>2
  <2>. QED
    BY <1>2, <1>3, <1>6, <1>7, <1>8, <2>1, <2>2 DEF Chosen
<1>11. CASE Novel(p)
  <2>. DEFINE L == Len(sel)
  <2>1. /\ sel' \in Seq(Candidates) /\ L \in Nat /\ Len(sel') = L + 1 /\ sel' # <<>>
        /\ \A i \in 1..L : sel'[i] = sel[i]
        /\ sel'[L + 1] = p
    BY <1>2, <1>3, <1>4, <1>11
  <2>2. \A i \in 1..Len(sel') : i \in 1..L \/ i = L + 1
    BY <2>1
  <2>3. \A i \in 1..L : i \in 1..Len(sel')
    BY <2>1
  <2>4. ASSUME NEW i \in 1..Len(sel'), NEW j \in 1..Len(sel'), i < j
        PROVE  ~Similar(sel'[i], sel'[j]) /\ path_duration(sel'[i]) >= path_duration(sel'[j])
    <3>1. i \in 1..L
      BY <2>1, <2>4
    <3>2. CASE j \in 1..L
      BY <1>3, <2>1, <2>4, <3>1, <3>2
    <3>3. CASE j = L + 1
      BY <1>3, <1>4, <1>9, <1>11, <2>1, <3>1, <3>3, Resemblance
    <3>. QED
      BY <2>2, <3>2, <3>3
  <2>5. ASSUME NEW i \in 1..Len(sel'), NEW q \in candidates'
        PROVE  path_duration(sel'[i]) >= path_duration(q)
    <3>1. q \in candidates
      BY <1>2
    <3>2. CASE i \in 1..L
      BY <1>3, <2>1, <3>1, <3>2
    <3>3. CASE i = L + 1
      <4>1. path_duration(q) <= path_duration(p) /\ path_duration(p) \in Nat /\ path_duration(q) \in Nat
        BY <1>3, <1>4, <1>5, <3>1
      <4>. QED
        BY <2>1, <3>3, <4>1
    <3>. QED
      BY <2>2, <3>2, <3>3
  <2>6. ASSUME NEW q \in Candidates \ candidates'
        PROVE  \E i \in 1..Len(sel') : Represents(sel'[i], q)
    <3>1. CASE q = p
      <4>1. path_duration(p) \in Nat
        BY <1>3, <1>4, <1>5
      <4>2. Represents(p, p)
        BY <4>1 DEF Represents
      <4>3. L + 1 \in 1..Len(sel')
        BY <2>1
      <4>. QED
        BY <2>1, <3>1, <4>2, <4>3
    <3>2. CASE q # p
      <4>1. PICK i \in 1..L : Represents(sel[i], q)
        BY <1>2, <1>3, <3>2
      <4>. QED
        BY <2>1, <2>3, <4>1
    <3>. QED
      BY <3>1, <3>2
  <2>7. ASSUME NEW q \in Candidates PROVE path_duration(sel'[1]) >= path_duration(q)
    <3>1. CASE sel = <<>>
      <4>1. L = 0
        BY <3>1
      <4>2. sel'[1] = p
        BY <2>1, <4>1
      <4>3. q \in candidates
        BY <1>3, <4>1
      <4>4. path_duration(q) <= path_duration(p) /\ path_duration(p) \in Nat /\ path_duration(q) \in Nat
        BY <1>3, <1>4, <1>5, <4>3
      <4>. QED
        BY <4>2, <4>4
    <3>2. CASE sel # <<>>
      <4>1. 1 \in 1..L
        BY <1>3, <2>1, <3>2, EmptySeq
      <4>. QED
        BY <1>3, <2>1, <3>2, <4>1
    <3>. QED
      BY <3>1, <3>2
  <2>8. candidates' \subseteq Candidates
    BY <1>2, <1>3
  <2>. QED
    BY <1>6, <1>7, <1>8, <2>1, <2>4, <2>5, <2>6, <2>7, <2>8 DEF Chosen
<1>. QED
  BY <1>10, <1>11

LEMMA SelectKeeps == DrivingInv /\ Select => DrivingInv'
<1>. SUFFICES ASSUME DrivingInv, Select PROVE DrivingInv'
  OBVIOUS
<1>1. /\ phase = "select" /\ phase' = phase /\ UNCHANGED vars
      /\ critical_chains' = critical_chains /\ near_critical_chains' = near_critical_chains
  BY DEF Select, chains
<1>2. IInv' /\ AllActive' /\ pc' = pc /\ (Roomy' <=> Roomy)
  BY <1>1, StillKept
<1>3. Chosen'
  BY SelectChooses
<1>4. ListsInv' /\ WitnessInv'
  BY <1>1, <1>2, ListsKept DEF ListsInv, WitnessInv, DrivingInv
<1>. QED
  BY <1>1, <1>2, <1>3, <1>4 DEF DrivingInv, SelectionInv

LEMMA ChosenKept ==
    ASSUME Chosen, UNCHANGED vars, UNCHANGED chains, UNCHANGED selection
    PROVE  Chosen'
<1>1. /\ critical_chains' = critical_chains /\ near_critical_chains' = near_critical_chains
      /\ edge_index' = edge_index /\ candidates' = candidates /\ sel' = sel /\ links' = links
  BY DEF chains, selection, vars, graph
<1>2. Candidates' = Candidates /\ Indexes' = Indexes
  BY <1>1 DEF Candidates, Indexes, Hops
<1>3. /\ \A q : path_duration(q)' = path_duration(q)
      /\ \A q, r : Similar(q, r)' <=> Similar(q, r)
  BY <1>1, DurationKept DEF Similar
<1>4. \A q, r : Represents(q, r)' <=> Represents(q, r)
  BY <1>3 DEF Represents
<1>. QED
  BY <1>1, <1>2, <1>3, <1>4 DEF Chosen

LEMMA ReturnKeeps == DrivingInv /\ Return => DrivingInv'
<1>. SUFFICES ASSUME DrivingInv, Return PROVE DrivingInv'
  OBVIOUS
<1>1. /\ phase = "select" /\ phase' = "done" /\ UNCHANGED vars /\ UNCHANGED chains /\ UNCHANGED selection
      /\ candidates = {} \/ Len(sel) >= max_display_chains
  BY DEF Return
<1>2. IInv' /\ AllActive' /\ pc' = pc /\ (Roomy' <=> Roomy)
  BY <1>1, StillKept
<1>3. Chosen'
  BY <1>1, ChosenKept DEF DrivingInv, SelectionInv
<1>4. ListsInv' /\ WitnessInv'
  BY <1>1, <1>2, ListsKept DEF ListsInv, WitnessInv, DrivingInv, chains
<1>. QED
  BY <1>1, <1>2, <1>3, <1>4 DEF DrivingInv, SelectionInv, selection

LEMMA DrivingStutters == DrivingInv /\ UNCHANGED drivingVars => DrivingInv'
<1>. SUFFICES ASSUME DrivingInv, UNCHANGED drivingVars PROVE DrivingInv'
  OBVIOUS
<1>1. /\ UNCHANGED vars /\ phase' = phase /\ UNCHANGED chains /\ UNCHANGED selection
      /\ stack' = stack /\ out' = out /\ expansions' = expansions
  BY DEF drivingVars, search
<1>2. IInv' /\ AllActive' /\ pc' = pc /\ (Roomy' <=> Roomy) /\ TF' = TF
  BY <1>1, StillKept
<1>3. phase \in {"select", "done"} => Chosen'
  BY <1>1, ChosenKept DEF DrivingInv, SelectionInv
<1>4. ListsInv' /\ WitnessInv'
  BY <1>1, <1>2, ListsKept DEF ListsInv, WitnessInv, DrivingInv, chains, Top, Last
<1>5. ASSUME phase \in {"critical", "near"} PROVE StackInv' /\ FoundInv'
  <2>1. StackInv /\ FoundInv
    BY <1>5 DEF DrivingInv
  <2>2. StackInv'
    BY <1>1, <2>1, PredSetKept DEF StackInv, FrameSound
  <2>3. \A c : Pending(c)' <=> Pending(c)
    BY <1>1 DEF Pending, PendingAt, Agrees
  <2>. QED
    BY <1>1, <2>1, <2>2, <2>3, SameFound
<1>. QED
  BY <1>1, <1>2, <1>3, <1>4, <1>5 DEF DrivingInv, SelectionInv, selection

\* Whatever the schedule, the limits and the tolerances.
THEOREM DrivingInvariance == DrivingSpec => []DrivingInv
<1>1. DrivingInv /\ [DrivingNext]_drivingVars => DrivingInv'
  BY ComputeKeeps, SearchCriticalKeeps, SearchActionsKeep, SearchNearKeeps, MergeKeeps,
     SelectKeeps, ReturnKeeps, DrivingStutters DEF DrivingNext, Extract
<1>. QED
  BY DrivingInitInv, <1>1, PTL DEF DrivingSpec

-----------------------------------------------------------------------------
(* Theorems *)

\* The chains a search has found when it ends are chains of driving predecessors
\* from start to end, none twice and no more than asked for; and a search that
\* came to its end found all of them.
THEOREM ChainsFoundExactly == DrivingSpec => []ChainsExact
<1>1. DrivingInv => ChainsExact
  <2>. SUFFICES ASSUME DrivingInv, phase \in {"critical", "near"}
                PROVE  /\ ToSet(out) \subseteq AllChains(phase) /\ IsInjective(out) /\ Len(out) <= Limit
                       /\ stack = <<>> /\ max_depth_guard >= N => ToSet(out) = AllChains(phase)
    BY DEF ChainsExact
  <2>1. TypeOK /\ AllActive /\ FoundInv
    BY DEF DrivingInv, IInv
  <2>2. AllChains(phase) = ChainsTo(phase, end_idx)
    BY <2>1, AllChainsAre
  <2>3. out \in Seq(Seq(Activities)) /\ DOMAIN out = 1..Len(out)
    BY <2>1 DEF FoundInv
  <2>4. ToSet(out) \subseteq ChainsTo(phase, end_idx) /\ IsInjective(out) /\ Len(out) <= Limit
    BY <2>1, <2>3 DEF FoundInv, ToSet, IsInjective, ChainsTo, IsChain
  <2>5. ASSUME stack = <<>>, max_depth_guard >= N
        PROVE  ChainsTo(phase, end_idx) \subseteq ToSet(out)
    <3>1. \A c : ~Pending(c)
      BY <2>5 DEF Pending
    <3>2. \A c : IsChain(phase, c, end_idx) => \E i \in 1..Len(out) : out[i] = c
      BY <2>1, <2>5, <3>1 DEF FoundInv
    <3>. QED
      BY <2>3, <3>2 DEF ChainsTo, ToSet
  <2>. QED
    BY <2>2, <2>4, <2>5
<1>. QED
  BY <1>1, DrivingInvariance, PTL

\* No chain lasts longer than the project; where links are plain one of critical
\* activities is found, and each lasts exactly as long.
THEOREM ChainsSpan == DrivingSpec => []ChainsSpanProject
<1>1. DrivingInv => ChainsSpanProject
  <2>. SUFFICES ASSUME DrivingInv, phase = "select"
                PROVE  /\ \A p \in candidates : path_duration(p) <= makespan
                       /\ Plain => \A k \in 1..Len(critical_chains) :
                                      path_duration(critical_chains[k]) = makespan
                       /\ Roomy => critical_chains # <<>>
    BY DEF ChainsSpanProject, Roomy
  <2>1. \A p \in candidates : path_duration(p) <= makespan
    BY CandidatesLast DEF DrivingInv, SelectionInv, Chosen
  <2>2. /\ IInv /\ pc = "done" /\ AllActive /\ edge_index \in Indexes
        /\ ChainList("critical", critical_chains)
    BY DEF DrivingInv, ListsInv, SelectionInv, Chosen
  <2>3. Plain => \A k \in 1..Len(critical_chains) : path_duration(critical_chains[k]) = makespan
    BY <2>2, ChainLasts DEF ChainList
  <2>4. Roomy => critical_chains # <<>>
    BY DEF DrivingInv, WitnessInv
  <2>. QED
    BY <2>1, <2>3, <2>4
<1>. QED
  BY <1>1, DrivingInvariance, PTL

\* What is shown differs pairwise, leads with the longest, and leaves out only
\* what one of its chains resembles and outlasts, unless there is no room.
THEOREM SelectionIsMaximal == DrivingSpec => []SelectionMaximal
<1>1. DrivingInv => SelectionMaximal
  <2>. SUFFICES ASSUME DrivingInv, phase = "done" PROVE SelectionMaximal
    BY DEF SelectionMaximal
  <2>1. Chosen /\ (candidates = {} \/ Len(sel) >= max_display_chains)
    BY DEF DrivingInv, SelectionInv
  <2>2. Len(sel) \in Nat /\ \A i \in 1..Len(sel) : sel[i] \in ToSet(sel)
    BY <2>1 DEF Chosen, ToSet
  <2>3. ASSUME Len(sel) < max_display_chains, NEW p \in Candidates
        PROVE  \E q \in ToSet(sel) :
                  (p = q \/ Similar(p, q)) /\ path_duration(q) >= path_duration(p)
    <3>1. p \notin candidates
      BY <2>1, <2>2, <2>3, ConfigAssumption
    <3>2. PICK i \in 1..Len(sel) : Represents(sel[i], p)
      BY <2>1, <3>1 DEF Chosen
    <3>. QED
      BY <2>2, <3>2 DEF Represents
  <2>. QED
    BY <2>1, <2>3 DEF Chosen, SelectionMaximal
<1>. QED
  BY <1>1, DrivingInvariance, PTL

\* The three together, for extract_driving_graph as a whole.
THEOREM ChainsAreSound == DrivingSpec => []ChainsSound
BY ChainsFoundExactly, ChainsSpan, SelectionIsMaximal, PTL DEF ChainsSound
=============================================================================
