------------------------------ MODULE MCPages ------------------------------
(* The pages that ask the backend and may do without it: the earned value     *)
(* views, whose data change meanwhile, and the completion dashboard, over     *)
(* backends that answer, give up or are asked for one stage only.             *)
EXTENDS EvmPage, CompletionPage

MCBackends == {<<Stages, {"recovery"}>>, <<{"monte_carlo"}, {}>>, <<{}, {"monte_carlo"}>>}

VARIABLE shownPage
vars == <<pageVars, predictionVars, shownPage>>
MCInit == PageInit /\ PredictionInit /\ shownPage \in {"earned value", "completion"}
MCNext ==
    /\ shownPage' = shownPage
    /\ \/ shownPage = "earned value" /\ PageNext /\ UNCHANGED predictionVars
       \/ shownPage = "completion" /\ PredictionNext /\ UNCHANGED pageVars
MCSpec == MCInit /\ [][MCNext]_vars /\ PageFairness /\ PredictionFairness
=============================================================================
