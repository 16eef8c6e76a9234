-------------------------- MODULE CompletionDates --------------------------
(***************************************************************************)
(* Completionprediction.js: its clock, the maps of getStateMaps, and the     *)
(* expected schedule of computeExpectedSchedule with the overrides of a      *)
(* recovery scenario.  A time is a number of hours: a day has 24 of them, of *)
(* which HoursPerDay are worked, and Saturday and Sunday are off whatever    *)
(* the calendar of the team says.  A schedule has node, links, dataDate,     *)
(* now, startNode and endNode (or NoNode).                                   *)
(***************************************************************************)
EXTENDS WorkCalendar, FiniteSets

CONSTANT relaxationMaxIterations

ASSUME RelaxationAssumption == relaxationMaxIterations \in Nat

NoNode == -1
maxWorkingHoursToAdd == 100000
Largest(S) == CHOOSE x \in S : \A y \in S : y <= x
Smallest(S) == CHOOSE x \in S : \A y \in S : x <= y
\* The members of S in order, the greatest key first; on a tie in that of their numbers.
Ranked(S, key) ==
    LET best(R) == Smallest({i \in R : \A j \in R : key[j] <= key[i]})
        rank[R \in SUBSET S] == IF R = {} THEN <<>> ELSE <<best(R)>> \o rank[R \ {best(R)}]
    IN  rank[S]

-----------------------------------------------------------------------------
(* The clock.                                                                 *)
Dow(t) == (t \div 24) % 7
IsHoliday(t) == t \div 24 \in Holidays
IsWorking(t) == Dow(t) \notin {0, 6} /\ ~IsHoliday(t)
NormalizeForward(t) == t + 24 * (IF Dow(t) = 6 THEN 2 ELSE IF Dow(t) = 0 THEN 1 ELSE 0)
NormalizeBackward(t) == t - 24 * (IF Dow(t) = 6 THEN 1 ELSE IF Dow(t) = 0 THEN 2 ELSE 0)

\* The workday reached from t, or from the first one after it, by k more.
Workday(t, k, step) ==
    LET go[u \in Int, left \in Nat] ==
            IF ~IsWorking(u) THEN go[u + 24 * step, left]
            ELSE IF left = 0 THEN u ELSE go[u + 24 * step, left - 1]
    IN  go[t, k]
AddWorkdays(t, k) == IF k <= 0 THEN NormalizeForward(t) ELSE Workday(t, k, 1)
SubWorkdays(t, k) == IF k <= 0 THEN NormalizeBackward(t) ELSE Workday(t, k, -1)
OffHolidays(t) ==
    LET go[u \in Int] == IF IsHoliday(u) THEN go[NormalizeForward(u + 24)] ELSE u IN go[t]

\* Whole days are worked days; what is left of the hours is added to the clock,
\* and the end moved off a weekend and off a holiday.  No or negative hours are
\* none: a lead moves nothing.
addWorkingHours(t, hours) ==
    LET h == Smaller(hours, maxWorkingHoursToAdd)
        whole == AddWorkdays(t, h \div HoursPerDay)
    IN  IF t = NoDate \/ h <= 0 THEN t
        ELSE IF h % HoursPerDay = 0 THEN whole
        ELSE OffHolidays(NormalizeForward(whole + (h % HoursPerDay)))
\* Backwards, only off a weekend.
subtractWorkingHours(t, hours) ==
    LET h == Smaller(hours, maxWorkingHoursToAdd)
        whole == SubWorkdays(t, h \div HoursPerDay)
    IN  IF t = NoDate \/ h <= 0 THEN t
        ELSE IF h % HoursPerDay = 0 THEN whole
        ELSE NormalizeBackward(whole - (h % HoursPerDay))

diffHours(a, b) ==
    LET from == Smaller(a, b)
        to == Larger(a, b)
        within(d) == Smaller(to, 24 * d + 24) - Larger(from, 24 * d)
        days == {d \in from \div 24..to \div 24 : IsWorking(24 * d) /\ within(d) > 0}
    IN  IF a = NoDate \/ b = NoDate THEN 0
        ELSE FoldFunction(LAMBDA x, y : x + y, 0, [d \in days |-> (HoursPerDay * within(d)) \div 24])

daysBetween(a, b) == IF a = NoDate \/ b = NoDate THEN 0 ELSE (2 * (b - a) + 24) \div 48

-----------------------------------------------------------------------------
(* The maps.                                                                  *)
normalizePercentComplete(p) == Clamp(p, 0, 100)

\* The latest past actual date of an activity with progress; now without one.
\* An actual start counts only where there is no actual finish.
inferStatusDate(s) ==
    LET told == {Or(s.node[i].ActualFinish, s.node[i].ActualStart) :
                    i \in {j \in DOMAIN s.node : normalizePercentComplete(s.node[j].PercentComplete) > 0}}
        past == {t \in told : t > 0 /\ t <= s.now}
    IN  IF past = {} THEN s.now ELSE Largest(past)

findStartNode(s) ==
    LET dated == {i \in DOMAIN s.node : Or(s.node[i].Start, s.node[i].ActualStart) # NoDate}
        first == Smallest({Or(s.node[i].Start, s.node[i].ActualStart) : i \in dated})
    IN  IF 0 \in DOMAIN s.node THEN 0
        ELSE IF dated = {} THEN Smallest(DOMAIN s.node)
        ELSE Smallest({i \in dated : Or(s.node[i].Start, s.node[i].ActualStart) = first})
\* The last to finish of those without successors, or of all of them.
findEndNode(s, links) ==
    LET terminal == {i \in DOMAIN s.node : \A k \in 1..Len(links) : links[k].source # i}
        among == IF terminal = {} THEN DOMAIN s.node ELSE terminal
        finish(i) == Larger(0, s.node[i].Finish)
    IN  Smallest({i \in among : \A j \in among : finish(j) <= finish(i)})

\* Kahn's sort; on a cycle the others follow it in the order of the nodes.
computeTopoOrder(ids, links) ==
    LET into(i) == {links[k].source : k \in {h \in 1..Len(links) : links[h].target = i}}
        row(S) == Ranked(S, [i \in S |-> 0])
        queue[k \in Nat] ==
            IF k = 0 THEN row({i \in ids : into(i) = {}})
            ELSE LET q == queue[k - 1]
                     before == ToSet(SubSeq(q, 1, Smaller(k, Len(q))))
                 IN  q \o row({i \in ids \ ToSet(q) : into(i) \subseteq before})
        sorted == queue[Cardinality(ids)]
    IN  [order |-> sorted \o row(ids \ ToSet(sorted)), cyclic |-> ToSet(sorted) # ids]

\* Actual dates after the status date are dropped.
Sanitized(t, status) == IF t > status THEN NoDate ELSE t
getStateMaps(s) ==
    LET links == SelectSeq(s.links, LAMBDA l : l.source \in DOMAIN s.node /\ l.target \in DOMAIN s.node)
        topo == computeTopoOrder(DOMAIN s.node, links)
        status == IF s.dataDate # NoDate THEN s.dataDate ELSE inferStatusDate(s)
    IN  [node |-> [i \in DOMAIN s.node |->
                     [s.node[i] EXCEPT !.ActualStart = Sanitized(@, status), !.ActualFinish = Sanitized(@, status)]],
         links |-> links, order |-> topo.order, cyclic |-> topo.cyclic, status |-> status,
         start |-> IF s.startNode \in DOMAIN s.node THEN s.startNode ELSE findStartNode(s),
         end |-> IF s.endNode \in DOMAIN s.node THEN s.endNode ELSE findEndNode(s, links)]

NodesOf(m) == DOMAIN m.node
Edges(m) == ToSet(m.links)
PredEdges(m, i) == {l \in Edges(m) : l.target = i}
SuccEdges(m, i) == {l \in Edges(m) : l.source = i}

\* The elapsed share of the duration, as five days of seven and at most 99 %.
estimatePercentFromElapsed(m, n) ==
    IF n.Duration <= 0 THEN 0 ELSE Clamp(((m.status - n.ActualStart) * 500) \div (7 * n.Duration), 0, 99)
effectivePercentComplete(m, i) ==
    LET n == m.node[i]
        told == normalizePercentComplete(n.PercentComplete)
    IN  IF told = 0 /\ n.ActualStart # NoDate /\ n.ActualFinish = NoDate
        THEN estimatePercentFromElapsed(m, n) ELSE told
IsComplete(m, i) == m.node[i].ActualFinish # NoDate \/ effectivePercentComplete(m, i) >= 100
IsStarted(m, i) == m.node[i].ActualStart # NoDate \/ effectivePercentComplete(m, i) > 0

-----------------------------------------------------------------------------
(* The expected schedule: start s, finish f, hours left and driving           *)
(* predecessor of each activity.  The overrides o crash activities and reduce *)
(* the lags of pairs.                                                         *)
NoOverrides == [crash |-> [i \in {} |-> 0], lag |-> [e \in {} |-> 0]]
Crashed(o, i) == IF i \in DOMAIN o.crash THEN o.crash[i] ELSE 0

\* The type and lag of a pair: those of its last link.  A reduced lag is not
\* below 0.
\* Mutant: the reduction is added.
RelationLengthened(m, o, p, i) ==
    LET l == m.links[Largest({k \in 1..Len(m.links) : m.links[k].source = p /\ m.links[k].target = i})]
    IN  IF <<p, i>> \in DOMAIN o.lag THEN [l EXCEPT !.lag = Larger(0, @ + o.lag[<<p, i>>])] ELSE l
Relation(m, o, p, i) ==
    LET l == m.links[Largest({k \in 1..Len(m.links) : m.links[k].source = p /\ m.links[k].target = i})]
    IN  IF <<p, i>> \in DOMAIN o.lag THEN [l EXCEPT !.lag = Larger(0, @ - o.lag[<<p, i>>])] ELSE l

Expectation == [s : Int, f : Int, rem : Int, by : Int]
Unlinked(m, o, i) ==
    LET n == m.node[i]
        from == Or(n.ActualStart, Or(n.Start, m.status))
        left == Larger(0, (n.Duration * (100 - effectivePercentComplete(m, i))) \div 100 - Crashed(o, i))
        whole == Larger(0, n.Duration - Crashed(o, i))
        begin == IF n.Start > m.status THEN n.Start ELSE m.status
        planned == n.Finish # NoDate /\ (begin > m.status \/ n.Finish >= begin)
        at(s, f, rem) == [s |-> s, f |-> Larger(s, f), rem |-> rem, by |-> NoNode]
    IN  CASE IsComplete(m, i) -> at(from, Or(n.ActualFinish, Or(n.Finish, from)), NoDate)
          [] ~IsComplete(m, i) /\ IsStarted(m, i) ->
               at(from, addWorkingHours(Larger(m.status, from), left), left)
          [] OTHER -> at(begin, IF planned THEN n.Finish ELSE addWorkingHours(begin, whole), whole)

\* One link pushes its successor: FS and SS the start of one that has not
\* begun, FF and SF the finish, and with it the start of one that has not.
\* Mutant: the start stays where it was.
PushFinishAlone(m, x, p, i, required) ==
    IF required <= x[i].f THEN x ELSE [x EXCEPT ![i] = [@ EXCEPT !.f = required, !.by = p]]
PushFinish(m, x, p, i, required) ==
    IF required <= x[i].f THEN x
    ELSE [x EXCEPT ![i] = [@ EXCEPT !.f = required, !.by = p,
             !.s = IF IsStarted(m, i) THEN @ ELSE subtractWorkingHours(required, Larger(0, m.node[i].Duration))]]
PushStart(m, x, p, i, required) ==
    LET begin == Larger(m.status, required)
    IN  IF IsStarted(m, i) \/ begin <= x[i].s THEN x
        ELSE [x EXCEPT ![i] = [@ EXCEPT !.s = begin, !.by = p, !.f = addWorkingHours(begin, x[i].rem)]]
Propagated(m, o, x, p, i) ==
    LET r == Relation(m, o, p, i)
        fromStart == addWorkingHours(x[p].s, r.lag)
        fromFinish == addWorkingHours(x[p].f, r.lag)
    IN  IF IsComplete(m, i) THEN x
        ELSE CASE r.type = "FS" -> PushStart(m, x, p, i, fromFinish)
               [] r.type = "SS" -> PushStart(m, x, p, i, fromStart)
               [] r.type = "FF" -> PushFinish(m, x, p, i, fromFinish)
               [] r.type = "SF" -> PushFinish(m, x, p, i, fromStart)

\* Along the topological order; on a cycle over all the links, a limited number
\* of times.
Linked(m, o, x) ==
    LET push(y, l) == Propagated(m, o, y, l.source, l.target)
        ofNode(y, i) == FoldLeft(push, y, SelectSeq(m.links, LAMBDA l : l.source = i))
        relaxed[k \in Nat, y \in [NodesOf(m) -> Expectation]] ==
            LET z == FoldLeft(push, y, m.links)
            IN  IF k = 0 \/ z = y THEN y ELSE relaxed[k - 1, z]
    IN  IF m.cyclic THEN relaxed[relaxationMaxIterations, x] ELSE FoldLeft(ofNode, x, m.order)

\* Who was pushed by none is driven by the predecessor that asks for most.
WithDrivers(m, o, x) ==
    LET preds(i) == SelectSeq(m.links, LAMBDA l : l.target = i)
        asks(i, p) == LET r == Relation(m, o, p, i)
                      IN  addWorkingHours(IF r.type \in {"SS", "SF"} THEN x[p].s ELSE x[p].f, r.lag)
        most(i) == LET ps == preds(i)
                   IN  ps[Smallest({k \in 1..Len(ps) :
                              \A h \in 1..Len(ps) : asks(i, ps[h].source) <= asks(i, ps[k].source)})].source
    IN  [i \in NodesOf(m) |-> IF x[i].by # NoNode \/ PredEdges(m, i) = {} THEN x[i]
                              ELSE [x[i] EXCEPT !.by = most(i)]]

computeExpectedSchedule(m, o) ==
    LET x == WithDrivers(m, o, Linked(m, o, [i \in NodesOf(m) |-> Unlinked(m, o, i)]))
        planned == m.node[m.end].Finish
    IN  [map |-> x, planned |-> planned, finish |-> x[m.end].f, variance |-> daysBetween(planned, x[m.end].f)]

\* getExpectedDrivingChain: back from the end until a predecessor comes again.
drivingChain(m, x) ==
    LET back[i \in NodesOf(m) \cup {NoNode}, seen \in SUBSET NodesOf(m)] ==
            IF i = NoNode \/ i \in seen THEN <<>>
            ELSE Append(back[x[i].by, seen \cup {i}], i)
    IN  SelectSeq(back[m.end, {}], LAMBDA i : ~m.node[i].Milestone)
=============================================================================
