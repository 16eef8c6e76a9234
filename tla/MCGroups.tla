------------------------------ MODULE MCGroups ------------------------------
(* Activities in up to four groups with up to four links, one of them perhaps *)
(* twice or to an activity that is not there; a group of up to three          *)
(* activities and delays of them; and the costs of a tab of four groups, asked *)
(* about in batches, one of which the service does not estimate and two of    *)
(* which share an id, and of a tab of one, asked about as a whole.  And the    *)
(* insights of two tabs, of two groups and of one.                             *)
EXTENDS GroupInsights, GroupMetrics, GroupCosts

Two == [a1 |-> "A", a2 |-> "A", b |-> "B", c |-> "none"]
Four == [a1 |-> "A", b |-> "B", c |-> "C", d |-> "none"]
Zero == [a1 |-> "A", b |-> "0", c |-> "none"]
Pairs(f) == {st \in (DOMAIN f) \X (DOMAIN f) : st[1] # st[2]}
Chosen(f) == {SetToSeq(S) : S \in UNION {kSubset(k, Pairs(f)) : k \in 0..4}}
MCNetworkCases ==
    {[fieldOf |-> Four, links |-> l] : l \in Chosen(Four)}
    \cup {[fieldOf |-> Two, links |-> l \o extra] :
            l \in {SetToSeq(S) : S \in UNION {kSubset(k, Pairs(Two)) : k \in 0..3}},
            extra \in {<<>>, <<<<"a1", "b">>>>, <<<<"b", "z">>>>}}
    \cup {[fieldOf |-> Zero, links |-> l] : l \in Chosen(Zero)}

Plain == [percentComplete |-> 0, duration |-> 4, isOnCriticalPath |-> FALSE, isOnOutlierPath |-> FALSE, riskScore |-> 0,
          slack |-> 2, LF |-> 8, EF |-> 6, BAC |-> 4, BCWP |-> 0, BCWS |-> 2, ACWP |-> 0, milestone |-> FALSE,
          Start |-> 4, Finish |-> 8, ActualStart |-> 0, ActualFinish |-> 0, predictedStart |-> 0, predictedEnd |-> 0,
          delayed |-> FALSE, phase |-> "none"]
Begun == [Plain EXCEPT !.percentComplete = 40, !.BCWP = 2, !.ACWP = 3, !.Start = 2, !.Finish = 7, !.predictedEnd = 6,
                       !.phase = "Commissioning"]
BegunCritical == [Begun EXCEPT !.isOnCriticalPath = TRUE, !.slack = 0, !.riskScore = 750, !.phase = "Design"]
Done == [Plain EXCEPT !.percentComplete = 100, !.BCWP = 4, !.ACWP = 4, !.Start = 1, !.Finish = 4, !.ActualStart = 1,
                      !.ActualFinish = 3, !.BCWS = 4]
DueMilestone == [Plain EXCEPT !.milestone = TRUE, !.Finish = 5, !.duration = 0, !.isOnOutlierPath = TRUE, !.riskScore = 450]
NextMilestone == [Plain EXCEPT !.milestone = TRUE, !.duration = 0, !.slack = -1, !.phase = "Pre-Commissioning"]
MCHealthCases == UNION {[1..k -> {Plain, Begun, BegunCritical, Done, DueMilestone, NextMilestone}] : k \in 1..3}

Act(kind, duration) == [kind |-> kind, duration |-> duration]
GroupOf(group, id, activities) == [group |-> group, id |-> id, activities |-> activities]
MCTabGroups ==
    [WBS_ID |-> <<GroupOf("w1", "w1", <<Act("install", 2), Act("material", 1)>>),
                  GroupOf("w0", "w0", <<>>),
                  GroupOf("w2", "w2", <<Act("equipment", 1)>>)>>,
     CommunityGroup |-> <<GroupOf("1", "w1", <<Act("other", 1)>>), GroupOf("2", "w2", <<Act("material", 1)>>),
                          GroupOf("3", "w2", <<Act("subcontract", 1)>>), GroupOf("4", "w9", <<Act("install", 1)>>)>>]
MCEditedValues == {-1, 50}
Part(count, rate, amount) == [count |-> count, rate |-> rate, amount |-> amount]
MCEstimateOf ==
    [w1 |-> [cost |-> 1200, breakdown |-> [labor |-> Part(10, 80, 800), material |-> Part(2, 0, 200), indirect |-> Part(0, 20, 200)]],
     w2 |-> [cost |-> 700, breakdown |-> [equipment |-> Part(1, 400, 400), subcontracts |-> Part(0, 0, 300)]]]

TabGroupKeys == [WBS_ID |-> <<"1", "2">>, CommunityGroup |-> <<"1">>]

VARIABLE groupMachine
vars == <<groupMachine, networkVars, healthVars, costVars, groupVars>>
NoNetwork == groupCase = [fieldOf |-> Two, links |-> <<>>] /\ groupGraph = <<>> /\ betweenness = <<>> /\ groupStep = "none"
NoHealth == members = <<Plain>> /\ cachedMetrics = Computed(<<Plain>>) /\ sentGroup = Sent(<<Plain>>) /\ delays = 0
MCInit ==
    /\ GroupInit /\ CostInit
    /\ \/ groupMachine = "network" /\ NetworkInit /\ NoHealth
       \/ groupMachine = "health" /\ HealthInit /\ NoNetwork
       \/ groupMachine \in {"costs", "insights"} /\ NoNetwork /\ NoHealth
MCNext ==
    /\ groupMachine' = groupMachine
    /\ \/ groupMachine = "network" /\ NetworkNext /\ UNCHANGED <<healthVars, costVars, groupVars>>
       \/ groupMachine = "health" /\ HealthNext /\ UNCHANGED <<networkVars, costVars, groupVars>>
       \/ groupMachine = "costs" /\ CostNext /\ UNCHANGED <<networkVars, healthVars, groupVars>>
       \/ groupMachine = "insights" /\ GroupNext /\ UNCHANGED <<networkVars, healthVars, costVars>>
MCSpec == MCInit /\ [][MCNext]_vars /\ GroupFairness

\* Two tabs of one group each, and their insights only.
MCSingles == [WBS_ID |-> <<"1">>, CommunityGroup |-> <<"1">>]
ButtonSpec == MCInit /\ groupMachine = "insights" /\ [][MCNext]_vars /\ GroupFairness
=============================================================================
