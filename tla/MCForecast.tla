----------------------------- MODULE MCForecast -----------------------------
(* The earned value forecast over three activities in every state of progress, *)
(* with any relation and lag between them; the completion forecast over a      *)
(* long and a short activity between two milestones.                           *)
EXTENDS EvmPrediction, CompletionRecovery

Activity(s, f, late) ==
    [Start |-> s, Finish |-> f, riskAdjustedStart |-> IF late THEN s + 1 ELSE NoDate,
     riskAdjustedEnd |-> IF late THEN f + 1 ELSE NoDate,
     Duration |-> HoursPerDay * (f - s), riskAdjustedDuration |-> IF late THEN 15 * (f - s) ELSE 0,
     ActualStart |-> NoDate, ActualFinish |-> NoDate, ActualDuration |-> -1, ActualCost |-> 0,
     PercentComplete |-> 0]
Milestone == Activity(0, 0, FALSE)
Progressed(a) ==
    {a, [a EXCEPT !.ActualStart = a.Start + 1, !.PercentComplete = 40],
     [a EXCEPT !.PercentComplete = 40],
     [a EXCEPT !.PercentComplete = 100, !.ActualCost = 5],
     [a EXCEPT !.ActualStart = a.Start],
     [a EXCEPT !.ActualStart = a.Start, !.ActualFinish = a.Finish + 1, !.ActualDuration = 25, !.PercentComplete = 100],
     [a EXCEPT !.ActualFinish = a.Finish]}
Link(s, t, type, lag) == [source |-> s, target |-> t, type |-> type, lag |-> lag]

MCSchedules ==
    {[node |-> (0 :> Milestone @@ 1 :> a @@ 2 :> b @@ 3 :> c), links |-> ls, status |-> 5,
      overrun |-> o, topoOrder |-> order] :
        a \in Progressed(Activity(0, 3, FALSE)) \cup Progressed(Activity(0, 3, TRUE)),
        b \in Progressed(Activity(3, 5, TRUE)),
        c \in {Activity(5, 8, FALSE), [Activity(7, 9, TRUE) EXCEPT !.PercentComplete = 30],
               [Activity(8, 7, TRUE) EXCEPT !.Duration = 15]},
        ls \in {<<>>} \cup {<<Link(0, 1, "FS", 0), Link(1, 2, t, lag), Link(2, 3, "FS", lag)>> :
                            t \in {"FS", "SS", "FF", "SF"}, lag \in {0, 25}}
              \cup {<<Link(1, 2, "FS", 0), Link(1, 3, "FS", lag), Link(2, 3, "FS", 60 - lag)>> : lag \in {0, 60}},
        o \in {0, 60}, order \in {<<>>, <<3, 2, 1, 0>>, <<0, 1, 2, 3>>}}

\* Wednesday at eight; a holiday follows on Thursday of the next week.
Wednesday == 24 * 10 + 8
CNode(s, f, hours) ==
    [Start |-> s, Finish |-> f, ActualStart |-> NoDate, ActualFinish |-> NoDate, PercentComplete |-> 0,
     Duration |-> hours, Milestone |-> FALSE, isCritical |-> FALSE, TotalFloat |-> 0,
     risk |-> 0, external |-> 0, index |-> 0, importance |-> 50, maxFrac |-> 25]
CMilestone(t) == [CNode(t, t, 0) EXCEPT !.Milestone = TRUE]
Fitted(s, hours) == CNode(s, addWorkingHours(s, hours), hours)
CLink(s, t, type, lag) == [source |-> s, target |-> t, type |-> type, lag |-> lag]
CProgressed(n) ==
    {n, [n EXCEPT !.ActualStart = Wednesday - 48, !.PercentComplete = 50],
     [n EXCEPT !.ActualStart = Wednesday - 96],
     [n EXCEPT !.ActualStart = Wednesday - 120, !.ActualFinish = Wednesday + 24, !.PercentComplete = 90],
     [n EXCEPT !.ActualStart = Wednesday - 120, !.ActualFinish = Wednesday - 24, !.PercentComplete = 100]}

Networks ==
    {<<CLink(0, 1, "FS", 0), CLink(1, 2, t, lag), CLink(1, 3, t3, 0), CLink(2, 3, "FS", lag)>> :
        t \in {"FS", "SS", "FF", "SF"}, t3 \in {"FF", "FS"}, lag \in {0, 20}}
    \cup {<<CLink(0, 1, "FS", 0), CLink(1, 2, "FS", 0), CLink(2, 1, "FS", 0), CLink(2, 3, "FS", 0)>>,
          <<CLink(0, 2, "FS", 0), CLink(1, 2, "SS", 24), CLink(1, 2, "FF", 0), CLink(2, 3, "FS", -8)>>}
Project(a, b, finish, ls, d) ==
    [node |-> (0 :> CMilestone(Wednesday - 72) @@ 1 :> a @@ 2 :> b @@ 3 :> CMilestone(finish)),
     links |-> ls, dataDate |-> d, now |-> Wednesday + 240, startNode |-> NoNode, endNode |-> 3]
Long == [Fitted(Wednesday - 72, 60) EXCEPT !.risk = 70, !.TotalFloat = 85, !.importance = 0]
Short == [Fitted(Wednesday + 24, 29) EXCEPT !.index = 60, !.risk = 30, !.maxFrac = 28]
Unfit == [CNode(Wednesday + 24, Wednesday + 200, 20) EXCEPT !.TotalFloat = 24]
MCCompletionSchedules ==
    {Project(a, Short, Wednesday + 48, ls, Wednesday) : a \in CProgressed(Long), ls \in Networks}
    \cup {Project(a, Unfit, Wednesday + 480, ls, NoDate) : a \in CProgressed(Long), ls \in Networks}

VARIABLE forecastMachine
vars == <<evmVars, completionVars, forecastMachine>>
MCInit ==
    \/ /\ completionIn = CHOOSE p \in CompletionSchedules : TRUE
       /\ CompletionInit /\ EvmInit /\ forecastMachine = "earned value"
    \/ /\ evmIn = CHOOSE s \in EvmSchedules : TRUE
       /\ EvmInit /\ CompletionInit /\ forecastMachine = "completion"
MCNext ==
    /\ forecastMachine' = forecastMachine
    /\ \/ forecastMachine = "earned value" /\ EvmNext /\ UNCHANGED completionVars
       \/ forecastMachine = "completion" /\ CompletionNext /\ UNCHANGED evmVars
MCSpec == MCInit /\ [][MCNext]_vars
=============================================================================
