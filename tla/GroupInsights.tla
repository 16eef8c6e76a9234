--------------------------- MODULE GroupInsights ---------------------------
(***************************************************************************)
(* The AI analyses of the group tabs, CommunityGroups.js.  Showing a tab     *)
(* starts a fetch of the insights of its groups, in batches, one after the   *)
(* other, and an analysis of its systems; when both have come a button is    *)
(* offered that asks for the synthesis.  Groups are opened, tabs changed and *)
(* projects replaced while the answers are out.  A tab of up to 15 groups is *)
(* rendered at once, which is the case modelled.                             *)
(***************************************************************************)
EXTENDS Integers, Sequences, FiniteSets, FiniteSetsExt, SequencesExt

CONSTANTS
    Groups,         \* per group type, the sequence of the ids of its groups
    FirstTab,       \* the type whose tab is shown when a project is loaded
    BATCH_SIZE, MAX_RETRIES,
    InjectionTries, \* maxRetries of the button's injection
    RenderTries,    \* maxRetries of the rendering
    MaxShows, MaxProjects, MaxSyntheses \* bounds: tabs rendered, projects, syntheses

GroupTypes == DOMAIN Groups
ASSUME GroupsAssumption == FirstTab \in GroupTypes
GroupKeys == UNION {{t} \X Range(Groups[t]) : t \in GroupTypes}

VARIABLES
    insights,       \* groupInsights.insights: of each key the fetch it is from, or 0
    insightsStatus, \* groupInsights.status
    typeTotals,     \* groupTypeTotals, 0 where there is none
    trackers,       \* groupInsightsByGroupType: status, total, ids that have an insight
    systems,        \* systemsAnalysis.status, and the types that have a result
    waitingSystems, \* the types whose result waits for their tab
    renderRetries, renderTimers, \* per type
    synthesisStatus,
    deferred,       \* _pendingGroupInsights
    tab,            \* the tab in the page, its opened groups and what these show
    container,      \* the systems insights in it: whether there, times made, the button
    insightFetches, \* per fetch: type, batch, attempt (0: over)
    systemsRuns,    \* per analysis of the systems: type, whether it is out
    injections,     \* per injection: tries made, whether its timer runs
    synthesisRuns,  \* the syntheses that are out: the making of the container with their button
    project         \* projects so far, whether the tabs are those of the last, syntheses asked for

groupVars == <<insights, insightsStatus, typeTotals, trackers, systems, waitingSystems, renderRetries, renderTimers,
               synthesisStatus, deferred, tab, container, insightFetches, systemsRuns, injections, synthesisRuns, project>>

-----------------------------------------------------------------------------
(* The analytics object.                                                      *)
NoTracker == [status |-> "none", total |-> 0, got |-> {}]
InsightCount(ins) == Cardinality({k \in GroupKeys : ins[k] # 0})
totalGroups(totals) == MapThenSumSet(LAMBDA t : totals[t], GroupTypes)
EnoughOf(status, completed, total) ==
    status = "complete" \/ (status = "partial" /\ total > 0 /\ 10 * completed >= 9 * total)
isGroupInsightsComplete(status, ins, totals, trk) ==
    \/ EnoughOf(status, InsightCount(ins), totalGroups(totals))
    \/ \E t \in GroupTypes : EnoughOf(trk[t].status, Cardinality(trk[t].got), trk[t].total)
isSystemsAnalysisComplete(sys) == sys.status = "complete" \/ sys.types # {}
isSynthesisAvailable == isGroupInsightsComplete(insightsStatus, insights, typeTotals, trackers) /\ isSystemsAnalysisComplete(systems)

StatusNow(status, completed, total) ==
    IF total > 0 /\ completed >= total THEN "complete" ELSE IF completed > 0 THEN "partial" ELSE status
\* setGroupInsight, for the groups that an answer names.
setGroupInsight(t, ids, f) == [k \in GroupKeys |-> IF k[1] = t /\ k[2] \in ids THEN f ELSE insights[k]]
TrackerWith(t, ids) ==
    LET got == trackers[t].got \cup ids
        total == trackers[t].total
        status == IF trackers[t].status = "none" THEN "partial" ELSE trackers[t].status
    IN  IF ids = {} THEN trackers
        ELSE [trackers EXCEPT ![t] = [status |-> StatusNow(status, Cardinality(got), total), total |-> total, got |-> got]]

\* checkSynthesisAvailability tells the page, once; the listener gives a button
\* to a container without one.
Bare(c) == c.there /\ c.button = "none"
WithButton(c) == IF Bare(c) THEN [c EXCEPT !.button = "ready"] ELSE c
checkSynthesisAvailability(available) ==
    /\ synthesisStatus' = IF available /\ synthesisStatus = "pending" THEN "available" ELSE synthesisStatus
    /\ container' = IF available /\ synthesisStatus = "pending" THEN WithButton(container) ELSE container

-----------------------------------------------------------------------------
(* WorkGroupInsights.fetch, from one answer to the next.                      *)
BatchCount(t) == (Len(Groups[t]) + BATCH_SIZE - 1) \div BATCH_SIZE
BatchIds(f) ==
    LET r == insightFetches[f]
    IN  {Groups[r.type][k] : k \in {i \in DOMAIN Groups[r.type] : (i - 1) \div BATCH_SIZE = r.batch - 1}}
Fetching(f) == f \in DOMAIN insightFetches /\ insightFetches[f].attempt > 0

\* updateGroupUI: into the opened group, or kept until it is opened.
\* Mutant: what waits already is kept.
KeptFirst(t, ids, f) ==
    [k \in GroupKeys |-> IF k[1] = t /\ k[2] \in ids /\ k \notin tab.open /\ deferred[k] = 0 THEN f ELSE deferred[k]]
Kept(t, ids, f) ==
    [k \in GroupKeys |-> IF k[1] = t /\ k[2] \in ids /\ k \notin tab.open THEN f ELSE deferred[k]]
updateGroupUI(t, ids, f) ==
    /\ deferred' = Kept(t, ids, f)
    /\ tab' = [tab EXCEPT !.shown = [k \in GroupKeys |-> IF k \in tab.open /\ k[1] = t /\ k[2] \in ids THEN f ELSE @[k]]]

\* After the last batch the fetch judges its tracker, and then all of them.
FetchJudged(trk, t) ==
    LET r == trk[t]
        status == IF Cardinality(r.got) = r.total THEN "complete" ELSE IF r.got # {} THEN "partial" ELSE "error"
    IN  IF r.status = "none" THEN trk ELSE [trk EXCEPT ![t].status = status]
AllJudged(trk, ins) ==
    LET started == {t \in GroupTypes : trk[t].status # "none"}
    IN  IF started # {} /\ \A t \in started : trk[t].status = "complete" THEN "complete"
        ELSE IF InsightCount(ins) > 0 THEN "partial" ELSE "error"

EndBatch(f, ids) ==
    LET t == insightFetches[f].type
        last == insightFetches[f].batch = BatchCount(t)
        ins == setGroupInsight(t, ids, f)
        trk == TrackerWith(t, ids)
        status == IF ids = {} THEN insightsStatus ELSE StatusNow(insightsStatus, InsightCount(ins), totalGroups(typeTotals))
    IN  /\ insights' = ins
        /\ trackers' = IF last THEN FetchJudged(trk, t) ELSE trk
        /\ insightsStatus' = IF last THEN AllJudged(FetchJudged(trk, t), ins) ELSE status
        /\ checkSynthesisAvailability(/\ ids # {} /\ isSystemsAnalysisComplete(systems)
                                      /\ isGroupInsightsComplete(status, ins, typeTotals, trk))
        /\ updateGroupUI(t, ids, f)
        /\ insightFetches' = [insightFetches EXCEPT ![f] = IF last THEN [@ EXCEPT !.attempt = 0]
                                                           ELSE [@ EXCEPT !.batch = @ + 1, !.attempt = 1]]
        /\ UNCHANGED <<typeTotals, systems, waitingSystems, renderRetries, renderTimers, systemsRuns, injections,
                       synthesisRuns, project>>

\* processBatch.  An answer may leave groups of the batch out.
BatchAnswered(f) == Fetching(f) /\ \E ids \in SUBSET BatchIds(f) : EndBatch(f, ids)
\* A request that fails, or that its timer stops, is made again; the last one's
\* groups get an insight made here.
\* Mutant: every attempt is taken for the first.
AttemptKept(f) == 1
NextAttempt(f) == insightFetches[f].attempt + 1
BatchFails(f) ==
    /\ Fetching(f)
    /\ \/ /\ insightFetches[f].attempt <= MAX_RETRIES
          /\ insightFetches' = [insightFetches EXCEPT ![f].attempt = NextAttempt(f)]
          /\ UNCHANGED <<insights, insightsStatus, typeTotals, trackers, systems, waitingSystems, renderRetries, renderTimers,
                         synthesisStatus, deferred, tab, container, systemsRuns, injections, synthesisRuns, project>>
       \/ insightFetches[f].attempt > MAX_RETRIES /\ EndBatch(f, BatchIds(f))

-----------------------------------------------------------------------------
(* generateSystemsInsights and its rendering.                                 *)
\* What updateSystemsInsightsUI leaves of the container when its tab is there:
\* its content is made anew, with a button if the synthesis is available.
Rendered(c, available) == [there |-> TRUE, made |-> c.made + 1, button |-> IF available THEN "ready" ELSE "none"]
\* When the tab is not there: the result waits, and a timer looks once more.
RenderLater(t) ==
    /\ waitingSystems' = waitingSystems \cup {t}
    /\ renderRetries' = [renderRetries EXCEPT ![t] = IF @ < RenderTries THEN @ + 1 ELSE @]
    /\ renderTimers' = [renderTimers EXCEPT ![t] = IF renderRetries[t] < RenderTries THEN @ + 1 ELSE @]

SystemsAnswered(r) ==
    LET t == systemsRuns[r].type
        enough == isGroupInsightsComplete(insightsStatus, insights, typeTotals, trackers)
    IN  /\ r \in DOMAIN systemsRuns /\ systemsRuns[r].out
        /\ systems' = [status |-> "complete", types |-> systems.types \cup {t}]
        /\ systemsRuns' = [systemsRuns EXCEPT ![r].out = FALSE]
        /\ injections' = Append(injections, [tries |-> 0, timer |-> TRUE])
        /\ synthesisStatus' = IF enough /\ synthesisStatus = "pending" THEN "available" ELSE synthesisStatus
        /\ IF tab.type = t
           THEN /\ container' = Rendered(container, enough)
                /\ renderRetries' = [renderRetries EXCEPT ![t] = 0]
                /\ UNCHANGED <<waitingSystems, renderTimers>>
           ELSE /\ container' = IF enough /\ synthesisStatus = "pending" THEN WithButton(container) ELSE container
                /\ RenderLater(t)
        /\ UNCHANGED <<insights, insightsStatus, typeTotals, trackers, deferred, tab, insightFetches, synthesisRuns, project>>
\* Nothing bounds the time it takes.
SystemsFail(r) ==
    /\ r \in DOMAIN systemsRuns /\ systemsRuns[r].out
    /\ systems' = [systems EXCEPT !.status = "error"]
    /\ systemsRuns' = [systemsRuns EXCEPT ![r].out = FALSE]
    /\ UNCHANGED <<insights, insightsStatus, typeTotals, trackers, waitingSystems, renderRetries, renderTimers, synthesisStatus,
                   deferred, tab, container, insightFetches, injections, synthesisRuns, project>>
RenderTimer(t) ==
    /\ renderTimers[t] > 0
    /\ renderTimers' = [renderTimers EXCEPT ![t] = @ - 1]
    /\ renderRetries' = IF tab.type = t THEN [renderRetries EXCEPT ![t] = 0] ELSE renderRetries
    /\ waitingSystems' = IF tab.type = t THEN waitingSystems \ {t} ELSE waitingSystems
    /\ container' = IF tab.type = t /\ t \in waitingSystems THEN Rendered(container, isSynthesisAvailable) ELSE container
    /\ UNCHANGED <<insights, insightsStatus, typeTotals, trackers, systems, synthesisStatus, deferred, tab, insightFetches,
                   systemsRuns, injections, synthesisRuns, project>>
\* _retrySynthesisButtonInjection goes on until it has added a button.
InjectButton(k) ==
    LET adds == isSynthesisAvailable /\ Bare(container)
    IN  /\ k \in DOMAIN injections /\ injections[k].timer
        /\ injections' = [injections EXCEPT ![k] = [tries |-> @.tries + 1, timer |-> ~adds /\ @.tries + 1 < InjectionTries]]
        /\ container' = IF adds THEN WithButton(container) ELSE container
        /\ UNCHANGED <<insights, insightsStatus, typeTotals, trackers, systems, waitingSystems, renderRetries, renderTimers,
                       synthesisStatus, deferred, tab, insightFetches, systemsRuns, synthesisRuns, project>>

-----------------------------------------------------------------------------
(* generateSynthesis.                                                         *)
AskSynthesis ==
    /\ project.syntheses < MaxSyntheses \* bound
    /\ container.there /\ container.button \in {"ready", "retry"}
    /\ container' = [container EXCEPT !.button = "busy"]
    /\ synthesisStatus' = "loading"
    /\ synthesisRuns' = synthesisRuns \cup {container.made}
    /\ project' = [project EXCEPT !.syntheses = @ + 1]
    /\ UNCHANGED <<insights, insightsStatus, typeTotals, trackers, systems, waitingSystems, renderRetries, renderTimers,
                   deferred, tab, insightFetches, systemsRuns, injections>>
\* A container made anew since has lost the button that was pressed.
SynthesisEnds(made, ok) ==
    /\ made \in synthesisRuns
    /\ synthesisRuns' = synthesisRuns \ {made}
    /\ synthesisStatus' = IF ok THEN "complete" ELSE "error"
    /\ container' = IF container.there /\ container.made = made THEN [container EXCEPT !.button = IF ok THEN "done" ELSE "retry"] ELSE container
    /\ UNCHANGED <<insights, insightsStatus, typeTotals, trackers, systems, waitingSystems, renderRetries, renderTimers,
                   deferred, tab, insightFetches, systemsRuns, injections, project>>

-----------------------------------------------------------------------------
(* The tabs.                                                                  *)
\* A fetch begins with its tracker anew; what the insights are stays.
BeginFetch(t) ==
    /\ insightFetches' = Append(insightFetches, [type |-> t, batch |-> 1, attempt |-> 1])
    /\ trackers' = [trackers EXCEPT ![t] = [status |-> "loading", total |-> Len(Groups[t]), got |-> {}]]
    /\ insightsStatus' = "loading"
    /\ typeTotals' = [typeTotals EXCEPT ![t] = Len(Groups[t])]
\* An analysis that begins takes the last one's status away, not its result.
BeginSystems(t) ==
    /\ systemsRuns' = Append(systemsRuns, [type |-> t, out |-> TRUE])
    /\ systems' = [systems EXCEPT !.status = "loading"]
finishGroupRendering(t) == BeginFetch(t) /\ BeginSystems(t)
\* showTabContent renders a tab that is not in the page in place of the one that
\* is, and the result that waited for it.
ShowTab(t) ==
    LET waits == t \in waitingSystems
    IN  /\ Len(insightFetches) < MaxShows \* bound
        /\ tab' = [type |-> t, open |-> {}, shown |-> [k \in GroupKeys |-> 0]]
        /\ finishGroupRendering(t)
        /\ waitingSystems' = waitingSystems \ {t}
        /\ renderRetries' = IF waits THEN [renderRetries EXCEPT ![t] = 0] ELSE renderRetries
        /\ container' = IF waits
                        THEN Rendered(container, /\ isSystemsAnalysisComplete(systems')
                                                 /\ isGroupInsightsComplete("loading", insights, typeTotals', trackers'))
                        ELSE [container EXCEPT !.there = FALSE, !.button = "none"]
        /\ UNCHANGED <<insights, renderTimers, synthesisStatus, deferred, injections, synthesisRuns>>
ClickTab(t) == tab.type \notin {"none", t} /\ ShowTab(t) /\ UNCHANGED project
\* A group is rendered when it is first opened: with what was kept for it.
applyDeferredInsight(k) ==
    /\ tab' = [tab EXCEPT !.open = @ \cup {k}, !.shown[k] = deferred[k]]
    /\ deferred' = [deferred EXCEPT ![k] = 0]
OpenGroup(k) ==
    /\ k[1] = tab.type /\ k \notin tab.open
    /\ applyDeferredInsight(k)
    /\ UNCHANGED <<insights, insightsStatus, typeTotals, trackers, systems, waitingSystems, renderRetries, renderTimers,
                   synthesisStatus, container, insightFetches, systemsRuns, injections, synthesisRuns, project>>

\* cleanupBeforeProjectLoad: neither what is out nor what is kept for groups is touched.
cleanupBeforeProjectLoad ==
    /\ project.loaded /\ project.number < MaxProjects \* bound
    /\ project' = [project EXCEPT !.number = @ + 1, !.loaded = FALSE]
    /\ insights' = [k \in GroupKeys |-> 0]
    /\ insightsStatus' = "pending"
    /\ typeTotals' = [t \in GroupTypes |-> 0]
    /\ trackers' = [t \in GroupTypes |-> NoTracker]
    /\ systems' = [status |-> "pending", types |-> {}]
    /\ waitingSystems' = {}
    /\ renderRetries' = [t \in GroupTypes |-> 0]
    /\ synthesisStatus' = "pending"
    /\ UNCHANGED <<renderTimers, deferred, tab, container, insightFetches, systemsRuns, injections, synthesisRuns>>
\* displayGroupedNodesWithTabs, when the groups of the project are known.
LoadProject == ~project.loaded /\ ShowTab(FirstTab) /\ project' = [project EXCEPT !.loaded = TRUE]

-----------------------------------------------------------------------------
GroupInit ==
    /\ insights = [k \in GroupKeys |-> 0] /\ insightsStatus = "pending"
    /\ typeTotals = [t \in GroupTypes |-> 0] /\ trackers = [t \in GroupTypes |-> NoTracker]
    /\ systems = [status |-> "pending", types |-> {}]
    /\ waitingSystems = {} /\ renderRetries = [t \in GroupTypes |-> 0] /\ renderTimers = [t \in GroupTypes |-> 0]
    /\ synthesisStatus = "pending" /\ deferred = [k \in GroupKeys |-> 0]
    /\ tab = [type |-> "none", open |-> {}, shown |-> [k \in GroupKeys |-> 0]]
    /\ container = [there |-> FALSE, made |-> 0, button |-> "none"]
    /\ insightFetches = <<>> /\ systemsRuns = <<>> /\ injections = <<>> /\ synthesisRuns = {}
    /\ project = [number |-> 1, loaded |-> FALSE, syntheses |-> 0]
GroupNext ==
    \/ \E f \in 1..MaxShows : BatchAnswered(f) \/ BatchFails(f)
    \/ \E r \in 1..MaxShows : SystemsAnswered(r) \/ SystemsFail(r) \/ InjectButton(r)
    \/ \E t \in GroupTypes : RenderTimer(t) \/ ClickTab(t)
    \/ \E made \in synthesisRuns, ok \in BOOLEAN : SynthesisEnds(made, ok)
    \/ \E k \in GroupKeys : OpenGroup(k)
    \/ AskSynthesis \/ cleanupBeforeProjectLoad \/ LoadProject
GroupSpec == GroupInit /\ [][GroupNext]_groupVars
\* A request is stopped by its timer at the latest, and the page's timers fire.
\* Nothing ends a systems analysis or a synthesis.
GroupFairness ==
    /\ \A f \in 1..MaxShows : WF_groupVars(BatchFails(f))
    /\ \A k \in 1..MaxShows : WF_groupVars(InjectButton(k))
    /\ \A t \in GroupTypes : WF_groupVars(RenderTimer(t))
FairGroupSpec == GroupSpec /\ GroupFairness

-----------------------------------------------------------------------------
\* An opened group shows the newest insight that its project has for it, though
\* insights come before and after it is opened and of several fetches; it may
\* show none while the state has one, when its tab was rendered anew since.
ShownIsNewest ==
    \A k \in tab.open : tab.shown[k] # 0 /\ insights[k] # 0 => tab.shown[k] = insights[k]

\* A fetch ends, whatever the service does and though its tab or its project is
\* gone; the last of a type leaves no tracker as loading.
FetchEnds ==
    \A f \in 1..MaxShows, t \in GroupTypes :
        Fetching(f) /\ insightFetches[f].type = t
            ~> /\ ~Fetching(f)
               /\ trackers[t].status # "loading" \/ \E g \in 1..MaxShows : Fetching(g) /\ insightFetches[g].type = t

\* What the comment on _retrySynthesisButtonInjection says: the button appears
\* wherever the systems insights are shown and the synthesis is available.
ButtonAppears ==
    ~<>[](Bare(container) /\ isSynthesisAvailable)
=============================================================================
