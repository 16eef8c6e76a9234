--------------------------- MODULE CompletionPage ---------------------------
(***************************************************************************)
(* Completionprediction.js as its page runs it: init and analyzeAsync with   *)
(* their two requests, the risk mitigations that ask again, the services     *)
(* without a local equivalent, and destroy.  Between two awaits a handler    *)
(* runs alone; overlapping analyses share the node objects of the page.      *)
(***************************************************************************)
EXTENDS Integers, FiniteSets

CONSTANTS
    MaxAnalyses, MaxCalls,  \* bounds: runs of init, requests sent
    RiskCards,              \* the mitigations offered
    Backends                \* pairs: the stages that are asked for, those whose
                            \* local calculation throws

Stages == {"monte_carlo", "recovery"}
Services == Stages \cup {"reference_classes", "outcome", "calibration"}
ASSUME BackendsAssumption == Backends \subseteq (SUBSET Stages) \X (SUBSET Stages)

VARIABLES
    analyses,       \* per run: what it asks the backend for, where the local
                    \* calculation throws, its step, whose dates its curves show
    calls,          \* per request: service, analysis, mitigations (or none), phase
    written,        \* the run that wrote the expected dates of the nodes last
    lastAnalysis,
    dashboard,      \* the run whose results are rendered
    selectedMitigations, \* per dashboard, in the closure of its cards
    riskShown,      \* of which run and mitigations, and the count of the banner
    classesCache,   \* _referenceClassesCache is filled
    predictionTelemetry \* completionPredictionTelemetry.by_service

predictionVars == <<analyses, calls, written, lastAnalysis, dashboard, selectedMitigations, riskShown,
                    classesCache, predictionTelemetry>>

Runs == 1..MaxAnalyses
NoRun == 0
InFlight(c) == c \in DOMAIN calls /\ calls[c].phase \in {"headers", "body"}

\* One service after the other, monte_carlo first, until one is awaited or throws.
Stop(r, stage) ==
    LET held(s) == s \in r.asks \cup r.throws
    IN  IF stage = "monte_carlo" /\ held("monte_carlo") THEN "monte_carlo"
        ELSE IF stage \in Stages /\ held("recovery") THEN "recovery" ELSE "render"
StepFrom(r, stage) == LET s == Stop(r, stage) IN IF s = "render" \/ s \in r.asks THEN s ELSE "failed"
\* Without the backend, or with a scope too large for it, a fallback is counted.
Skipped(r, stage) ==
    {s \in Stages \ r.asks : /\ s # "monte_carlo" \/ stage = "monte_carlo"
                             /\ s = "monte_carlo" \/ Stop(r, stage) # "monte_carlo"
                             /\ stage # "render"}
Counted(t, called, succeeded, fellBack) ==
    [s \in Services |-> [calls |-> t[s].calls + (IF s \in called THEN 1 ELSE 0),
                         successes |-> t[s].successes + (IF s \in succeeded THEN 1 ELSE 0),
                         fallbacks |-> t[s].fallbacks + (IF s \in fellBack THEN 1 ELSE 0)]]

NewCall == Cardinality(DOMAIN calls) + 1
Sent(known, service, a, mitigations) ==
    [c \in DOMAIN known \cup {NewCall} |->
        IF c = NewCall THEN [service |-> service, analysis |-> a, mitigations |-> mitigations, phase |-> "headers"]
        ELSE known[c]]

\* Run a goes on with stage, its record being r: it sends the next request, or
\* is over but for the frame that renders it.  The curves are drawn then, from
\* the dates that the nodes have by then.
Continue(a, r, stage, known, t, writer) ==
    LET step == StepFrom(r, stage)
    IN  /\ analyses' = [b \in DOMAIN analyses \cup {a} |->
                          IF b = a THEN [r EXCEPT !.step = step, !.curvesOf = IF step = "render" THEN writer ELSE @]
                          ELSE analyses[b]]
        /\ calls' = IF step \in Stages THEN Sent(known, step, a, {}) ELSE known
        /\ predictionTelemetry' = Counted(t, {step} \cap Stages, {}, Skipped(r, stage))
        /\ lastAnalysis' = IF step = "render" THEN a ELSE lastAnalysis

\* init, up to the first request of analyzeAsync: any number may be under way.
StartAnalysis ==
    LET a == Cardinality(DOMAIN analyses) + 1
    IN  /\ a \in Runs
        /\ \E backend \in Backends :
              Continue(a, [asks |-> backend[1], throws |-> backend[2], step |-> "monte_carlo", curvesOf |-> NoRun],
                       "monte_carlo", calls, predictionTelemetry, a)
        /\ written' = a
        /\ UNCHANGED <<dashboard, selectedMitigations, riskShown, classesCache>>

RenderDashboard(a) ==
    /\ a \in DOMAIN analyses /\ analyses[a].step = "render"
    /\ analyses' = [analyses EXCEPT ![a].step = "over"]
    /\ dashboard' = a
    /\ selectedMitigations' = [selectedMitigations EXCEPT ![a] = {}]
    /\ riskShown' = [analysis |-> a, mitigations |-> {}, count |-> 0]
    /\ UNCHANGED <<calls, written, lastAnalysis, classesCache, predictionTelemetry>>

-----------------------------------------------------------------------------
(* Requests.                                                                  *)
\* Mutant: recovery has no timer.
TimedFirst == {"monte_carlo"}
\* Only these two have an AbortController and a timer.
Timed == Stages

Responded(c) ==
    /\ InFlight(c) /\ calls[c].phase = "headers"
    /\ calls' = [calls EXCEPT ![c].phase = "body"]
    /\ UNCHANGED <<analyses, written, lastAnalysis, dashboard, selectedMitigations, riskShown,
                   classesCache, predictionTelemetry>>

\* The click that asked for mitigations shows the answer, or the local
\* calculation, and the number of cards that are selected by now.
\* Mutant: the number when it asked.
CountWhenAsked(c) == Cardinality(calls[c].mitigations)
CountNow(c) == Cardinality(selectedMitigations[calls[c].analysis])
ShowMitigations(c) ==
    riskShown' = [analysis |-> calls[c].analysis, mitigations |-> calls[c].mitigations, count |-> CountNow(c)]

\* How a request ends.  "non_ok" is decided when the response begins; a body
\* that does not parse or map is an error like that of the network.  Where the
\* local calculation throws within the try, the fallback is counted again.
Over(c, how) ==
    LET call == calls[c]
        s == call.service
        ended == [calls EXCEPT ![c].phase = how]
        r == analyses[call.analysis]
        throws == s \in r.throws
        once == Counted(predictionTelemetry, {}, IF how = "answered" THEN {s} ELSE {}, IF how = "answered" THEN {} ELSE {s})
        t == IF how = "non_ok" /\ throws THEN Counted(once, {}, {}, {s}) ELSE once
    IN  IF s \notin Stages
        THEN /\ calls' = ended /\ predictionTelemetry' = once
             /\ classesCache' = (classesCache \/ (s = "reference_classes" /\ how = "answered"))
             /\ UNCHANGED <<analyses, written, lastAnalysis, dashboard, selectedMitigations, riskShown>>
        ELSE IF call.mitigations # {}
        THEN /\ calls' = ended /\ predictionTelemetry' = t
             /\ IF how # "answered" /\ throws THEN UNCHANGED riskShown ELSE ShowMitigations(c)
             /\ UNCHANGED <<analyses, written, lastAnalysis, dashboard, selectedMitigations, classesCache>>
        ELSE /\ IF how # "answered" /\ throws
                THEN /\ analyses' = [analyses EXCEPT ![call.analysis].step = "failed"]
                     /\ calls' = ended /\ predictionTelemetry' = t /\ UNCHANGED lastAnalysis
                ELSE Continue(call.analysis, r, IF s = "monte_carlo" THEN "recovery" ELSE "render", ended, t, written)
             /\ UNCHANGED <<written, dashboard, selectedMitigations, riskShown, classesCache>>

Refused(c) == InFlight(c) /\ calls[c].phase = "headers" /\ Over(c, "non_ok")
NetworkFails(c) == InFlight(c) /\ Over(c, "error")
\* The timer is cleared when the response begins.
TimesOut(c) == InFlight(c) /\ calls[c].phase = "headers" /\ calls[c].service \in Timed /\ Over(c, "error")
BodyEnds(c) == InFlight(c) /\ calls[c].phase = "body" /\ \E how \in {"answered", "error"} : Over(c, how)

-----------------------------------------------------------------------------
(* The user.                                                                  *)
ClickRisk(card) ==
    LET a == dashboard
        now == IF card \in selectedMitigations[a] THEN selectedMitigations[a] \ {card} ELSE selectedMitigations[a] \cup {card}
        asks == "monte_carlo" \in analyses[a].asks
        throws == "monte_carlo" \in analyses[a].throws
    IN  /\ a # NoRun
        /\ selectedMitigations' = [selectedMitigations EXCEPT ![a] = now]
        /\ IF now = {}
           THEN /\ riskShown' = [analysis |-> a, mitigations |-> {}, count |-> 0]
                /\ UNCHANGED <<calls, predictionTelemetry>>
           ELSE IF asks
           THEN /\ calls' = Sent(calls, "monte_carlo", a, now)
                /\ predictionTelemetry' = Counted(predictionTelemetry, {"monte_carlo"}, {}, {})
                /\ UNCHANGED riskShown
           ELSE /\ predictionTelemetry' = Counted(predictionTelemetry, {}, {}, {"monte_carlo"})
                /\ riskShown' = IF throws THEN riskShown
                                ELSE [analysis |-> a, mitigations |-> now, count |-> Cardinality(now)]
                /\ UNCHANGED calls
        /\ UNCHANGED <<analyses, written, lastAnalysis, dashboard, classesCache>>

\* fetchReferenceClasses, registerProjectOutcome and fetchCalibrationReport.
AskService(s, enabled) ==
    /\ s \in Services \ Stages
    /\ s = "reference_classes" => ~classesCache
    /\ \A z \in Services \ Stages :  \* bound: once
          predictionTelemetry[z] = [calls |-> 0, successes |-> 0, fallbacks |-> 0]
    /\ calls' = IF enabled THEN Sent(calls, s, 1, {}) ELSE calls
    /\ predictionTelemetry' = IF enabled THEN Counted(predictionTelemetry, {s}, {}, {})
                              ELSE Counted(predictionTelemetry, {}, {}, {s})
    /\ UNCHANGED <<analyses, written, lastAnalysis, dashboard, selectedMitigations, riskShown, classesCache>>

\* destroy forgets the analysis; one that is under way will set it again.
Destroy ==
    /\ lastAnalysis # NoRun
    /\ lastAnalysis' = NoRun
    /\ UNCHANGED <<analyses, calls, written, dashboard, selectedMitigations, riskShown, classesCache, predictionTelemetry>>

-----------------------------------------------------------------------------
PredictionInit ==
    /\ analyses = [a \in {} |-> 0] /\ calls = [c \in {} |-> 0]
    /\ written = NoRun /\ lastAnalysis = NoRun /\ dashboard = NoRun
    /\ selectedMitigations = [a \in Runs |-> {}]
    /\ riskShown = [analysis |-> NoRun, mitigations |-> {}, count |-> 0]
    /\ classesCache = FALSE
    /\ predictionTelemetry = [s \in Services |-> [calls |-> 0, successes |-> 0, fallbacks |-> 0]]

\* A bound on the requests of a whole behaviour, not of the code.
Room == Cardinality(DOMAIN calls) + predictionTelemetry["monte_carlo"].fallbacks < MaxCalls
PredictionNext ==
    \/ Room /\ StartAnalysis
    \/ \E a \in Runs : RenderDashboard(a)
    \/ \E c \in DOMAIN calls : Responded(c) \/ Refused(c) \/ NetworkFails(c) \/ TimesOut(c) \/ BodyEnds(c)
    \/ Room /\ \E card \in RiskCards : ClickRisk(card)
    \/ Room /\ \E s \in Services, enabled \in BOOLEAN : AskService(s, enabled)
    \/ Destroy
PredictionSpec == PredictionInit /\ [][PredictionNext]_predictionVars

\* The browser runs timers and frames, and a body that has begun ends.
PredictionFairness ==
    /\ \A a \in Runs : WF_predictionVars(RenderDashboard(a))
    /\ \A c \in 1..(MaxCalls + MaxAnalyses) : WF_predictionVars(TimesOut(c)) /\ WF_predictionVars(BodyEnds(c))
FairPredictionSpec == PredictionSpec /\ PredictionFairness

-----------------------------------------------------------------------------
(* Properties *)

\* Once no answer about mitigations is out, the banner counts the cards that
\* are selected, in whichever order the answers came and though each of them
\* may have been asked for another selection; unless an answer was for a
\* dashboard that has been replaced, or the local calculation threw.
CountFollowsSelection ==
    /\ dashboard # NoRun /\ riskShown.analysis = dashboard
    /\ "monte_carlo" \notin analyses[dashboard].throws
    /\ \A c \in DOMAIN calls : InFlight(c) => calls[c].mitigations = {}
    => riskShown.count = Cardinality(selectedMitigations[dashboard])

\* Every run of init ends, with its dashboard rendered or with an error, though
\* neither service need ever respond.
AnalysisEnds == \A a \in Runs : a \in DOMAIN analyses ~> a \in DOMAIN analyses /\ analyses[a].step \in {"over", "failed"}
=============================================================================
