------------------------------ MODULE MCRisks ------------------------------
(* The page with two activities and two risks; or the pipeline, with up to    *)
(* four candidates.  Which of the two a behaviour is about is chosen first.   *)
EXTENDS RiskPage, RiskPipeline

VARIABLE which
allVars == <<which, riskVars, pipeVars>>

-----------------------------------------------------------------------------
Permit(id, prob) == [id |-> id, name |-> "permit", type |-> "Regulatory", probability |-> prob, cost |-> 800, schedule |-> 900,
                     confidence |-> 640]
Storm(id) == [id |-> id, name |-> "storm", type |-> "Weather", probability |-> 500, cost |-> 600, schedule |-> 600,
              confidence |-> Unscored]
Strike == [id |-> "seed-1", name |-> "strike", type |-> "User Seed", probability |-> 500, cost |-> 500, schedule |-> 500,
           confidence |-> Unscored]
Signal(id, type) == [id |-> id, type |-> type, region |-> "gulf", severity |-> 500]

MCActivities == <<"a", "b">>
MCTraits ==
    [a |-> [category |-> "Permits & Approvals", critical |-> TRUE, importance |-> 800, supplier |-> "internal", phase |-> "none"],
     b |-> [category |-> "Foundation", critical |-> FALSE, importance |-> 0, supplier |-> "external_equipment", phase |-> "Procurement"]]
MCTypeMapping == [Regulatory |-> {"Permits & Approvals"}, Weather |-> {"Foundation", "Structural"}]
MCWordMatch == [p \in {"a", "b"} \X {"permit", "storm", "strike"} |-> IF p = <<"b", "strike">> THEN "strong" ELSE "none"]
MCOwn == [a |-> [riskScore |-> 100, overrun |-> 100], b |-> [riskScore |-> 0, overrun |-> 0]]
MCRegisterAnswers == {<<<<>>, {}>>, <<<<Permit("1", 900), Storm("2")>>, {Signal(1, "weather"), Signal(2, "news")}>>}
On(id) == [id |-> id, influence |-> 900]
MCMappingAnswers ==
    {[entries |-> <<[risk |-> "1", activities |-> <<On("a"), On("b")>>], [risk |-> "2", activities |-> <<On("b"), On("a")>>]>>,
      malformed |-> FALSE],
     [entries |-> <<[risk |-> "1", activities |-> <<[id |-> "z", influence |-> 500]>>], [risk |-> "9", activities |-> <<On("a")>>]>>,
      malformed |-> FALSE],
     [entries |-> <<>>, malformed |-> TRUE]}
MCMitigationAnswers == {<<[id |-> "m1", predecessors |-> {"a", "z"}, successors |-> {"b"}]>>}
MCSeeds == {Strike}

-----------------------------------------------------------------------------
Generates(id, type, words, marks, prob, conf) ==
    [id |-> id, type |-> type, words |-> words, marks |-> marks, probability |-> prob, cost |-> 0, schedule |-> 400,
     confidence |-> conf, mitigations |-> <<id>>, indicators |-> <<>>, categories |-> {type}]
Rich == {"quantity", "longJustification", "region", "category", "name", "description", "mitigation"}
Poor == {"name", "type"}
Bare == {}
Candidates4 ==
    {Generates(1, "Weather", {"flood", "the"}, Poor, 0, Unscored),
     Generates(2, "Weather", {"flood", "river"}, Rich, 900, 800),
     Generates(3, "Market", {"price"}, Poor, 500, 0),
     Generates(NoId, "Labor", {"flood", "crew"}, Bare, 100, 0)}
Projects ==
    {[activityCount |-> 100, durationDays |-> 300, capex |-> 100, sector |-> {}],
     [activityCount |-> 600, durationDays |-> 900, capex |-> 100, sector |-> {"offshore"}],
     [activityCount |-> 900, durationDays |-> 1500, capex |-> 4000, sector |-> {"nuclear"}]}
MCPipeCases ==
    {[project |-> p, candidates |-> c, validate |-> v] :
        p \in Projects, v \in BOOLEAN, c \in {s \in UNION {[1..k -> Candidates4] : k \in 0..4} : IsInjective(s)}}

-----------------------------------------------------------------------------
PipelineIdle ==
    /\ pipeCase = 0 /\ pipeStage = "idle" /\ assigned = {} /\ merged = <<>> /\ looked = 0
    /\ selected = <<>> /\ deferredRisks = <<>> /\ synthesis = 0 /\ pipeRegister = <<>>
Init == \/ which = "page" /\ RiskPageInit /\ PipelineIdle
        \/ which = "pipeline" /\ PipelineInit /\ RiskPageInit
Next == \/ which = "page" /\ RiskPageNext /\ UNCHANGED <<which, pipeVars>>
        \/ which = "pipeline" /\ PipelineNext /\ UNCHANGED <<which, riskVars>>
Spec == Init /\ [][Next]_allVars
=============================================================================
