------------------------------ MODULE RiskPage ------------------------------
(***************************************************************************)
(* How ExtRisks.js links the risks of a register to the activities: by the   *)
(* mapping that the service answers, by a basic influence score where that   *)
(* maps nothing, with every risk kept on some activity and the number of     *)
(* risks per activity capped; the scores that follow, and the risk graph.    *)
(* Then the assessments that use it, run after run, on one page.             *)
(* A risk: [id, name, type, probability, cost, schedule, confidence].        *)
(***************************************************************************)
EXTENDS RiskScores

CONSTANTS
    Activities,             \* a sequence: the nodes in the order of the page
    Traits,                 \* of each: category, critical, importance, supplier, phase
    TypeMapping,            \* the categories of activities that a type of risk concerns
    WordMatch,              \* for other types, of activity and risk: "none", "weak" or "strong"
    SupplyTypes,            \* the types (by themselves or by their names) about supply
    MAX_RISKS_PER_ACTIVITY, \* 15
    maxFallbackActivities   \* min(50, 5 % of the activities)

ASSUME MappingAssumption ==
    /\ MAX_RISKS_PER_ACTIVITY \in Nat /\ maxFallbackActivities \in Nat \ {0}
    /\ DOMAIN Traits = Range(Activities) /\ \A a \in DOMAIN Traits : Traits[a].importance \in Int
    /\ Activities \in Seq(Range(Activities)) /\ IsInjective(Activities)

Ids == Range(Activities)
Concerned(type) == IF type \in DOMAIN TypeMapping THEN TypeMapping[type] ELSE {}

-----------------------------------------------------------------------------
(* Influence of a risk on an activity whose riskScore is given.               *)
getBasicInfluenceScore(a, riskScore, risk) ==
    LET t == Traits[a]
        topic == IF risk.type \in DOMAIN TypeMapping
                 THEN IF t.category \in Concerned(risk.type) THEN 400 ELSE 0
                 ELSE CASE WordMatch[a, risk.name] = "strong" -> 350
                        [] WordMatch[a, risk.name] = "weak" -> 250
                        [] OTHER -> 0
        critical == IF t.critical THEN 200 ELSE 0
        internal == IF riskScore > 700 THEN 150 ELSE IF riskScore > 500 THEN 80 ELSE 0
        important == IF t.importance > 700 THEN 100 ELSE 0
        supplied == IF risk.type \notin SupplyTypes THEN 0
                    ELSE CASE t.supplier = "external_equipment" -> 200
                           [] t.supplier = "external_material" -> 150
                           [] t.supplier = "external_service" -> 120
                           [] OTHER -> 0
    IN  Least(1000, topic + critical + internal + important + supplied)

\* One entry of an activity's externalRisks.
Assignment(risk, influence, why) ==
    [id |-> risk.id, name |-> risk.name, type |-> risk.type, confidence |-> OwnConfidence(risk), influence |-> influence, why |-> why,
     weightedCost |-> Times(Times(risk.probability, risk.cost), influence),
     weightedSchedule |-> Times(Times(risk.probability, risk.schedule), influence)]
Impact(assignment) == Most(assignment.weightedCost, assignment.weightedSchedule)
Assigned(links, a, assignment) == [links EXCEPT ![a] = Append(@, assignment)]
NoLinks == [a \in Ids |-> <<>>]
Mapped(links) == UNION {{r.id : r \in Range(links[a])} : a \in Ids}
BestFor(risk, riskScore) ==
    Descending(Activities, LAMBDA a : getBasicInfluenceScore(a, riskScore[a], risk))[1]

\* A risk that is on no activity goes to the one it influences most.
Covered(links, risk, riskScore) ==
    LET best == BestFor(risk, riskScore)
        score == getBasicInfluenceScore(best, riskScore[best], risk)
    IN  IF risk.id \in Mapped(links) THEN links
        ELSE Assigned(links, best, Assignment(risk, Most(200, score), "coverage"))
ensureExternalRiskCoverage(links, register, riskScore) ==
    FoldLeft(LAMBDA acc, risk : Covered(acc, risk, riskScore), links, register)

-----------------------------------------------------------------------------
(* The mapping that the service answers: a sequence of [risk, activities],    *)
(* the activities a sequence of [id, influence], 0 for none given.            *)
\* The register's risk with that id, the last one if several.
RiskOf(register, id) ==
    LET k == SelectLastInSeq(register, LAMBDA r : r.id = id) IN register[k]
\* The activities that it names; those that there are not are passed over.
NamedAt(links, risk, m) == Assigned(links, m.id, Assignment(risk, OrHalf(m.influence), "mapped"))
Named(links, risk, mapping) == FoldLeft(LAMBDA acc, m : NamedAt(acc, risk, m), links, mapping.activities)
\* Without any, the few that it influences most.
mostInfluenced(risk, riskScore) ==
    LET scored == [k \in DOMAIN Activities |-> getBasicInfluenceScore(Activities[k], riskScore[Activities[k]], risk)]
        candidates == {k \in DOMAIN Activities : scored[k] >= 250}
        order == Ranked(candidates, scored)
    IN  [k \in 1..Least(maxFallbackActivities, Cardinality(candidates)) |-> Activities[order[k]]]
MatchedAt(links, risk, riskScore, a) ==
    Assigned(links, a, Assignment(risk, getBasicInfluenceScore(a, riskScore[a], risk), "category"))
Matched(links, risk, riskScore) ==
    FoldLeft(LAMBDA acc, a : MatchedAt(acc, risk, riskScore, a), links, mostInfluenced(risk, riskScore))
processIndividualMapping(links, register, mapping, riskScore) ==
    LET risk == RiskOf(register, mapping.risk)
    IN  IF \A r \in Range(register) : r.id # mapping.risk THEN links
        ELSE IF \E m \in Range(mapping.activities) : m.id \in Ids THEN Named(links, risk, mapping)
        ELSE Matched(links, risk, riskScore)
generateBasicRiskMappings(register) == [k \in DOMAIN register |-> [risk |-> register[k].id, activities |-> <<>>]]

Places(links, id) == UNION {{a} \X {k \in DOMAIN links[a] : links[a][k].id = id} : a \in Ids}
\* What an activity has above the cap goes, weakest impact last to be kept; an
\* assignment that is the last one of its risk stays all the same.
\* Mutant: the count of what is left is not kept up to date.
DroppedCountingOnce(counts, id) == counts
Dropped(counts, id) == [counts EXCEPT ![id] = @ - 1]
Trimmed(state, r) ==
    IF state.counts[r.id] <= 1 THEN [state EXCEPT !.kept = Append(@, r)]
    ELSE [state EXCEPT !.counts = Dropped(@, r.id)]
TrimmedAll(state, rest) == FoldLeft(Trimmed, state, rest)
CutDown(assignments, counts) ==
    LET ranked == Descending(assignments, Impact)
    IN  TrimmedAll([kept |-> SubSeq(ranked, 1, MAX_RISKS_PER_ACTIVITY), counts |-> counts],
                   SubSeq(ranked, MAX_RISKS_PER_ACTIVITY + 1, Len(ranked)))
CutAt(state, a) ==
    LET end == CutDown(state.links[a], state.counts)
    IN  IF Len(state.links[a]) <= MAX_RISKS_PER_ACTIVITY THEN state
        ELSE [links |-> [state.links EXCEPT ![a] = end.kept], counts |-> end.counts]
CutAll(state) == FoldLeft(CutAt, state, Activities)
Capped(links) == CutAll([links |-> links, counts |-> [id \in Mapped(links) |-> Cardinality(Places(links, id))]]).links

Explicitly(register, mapping, riskScore) ==
    FoldLeft(LAMBDA acc, m : processIndividualMapping(acc, register, m, riskScore), NoLinks, mapping)
intelligentLinks(register, mapping, riskScore) ==
    LET covered(links) == ensureExternalRiskCoverage(links, register, riskScore)
    IN  covered(Capped(covered(Explicitly(register, mapping, riskScore))))

-----------------------------------------------------------------------------
(* Without a mapping: categories, critical path and internal risk.            *)
\* riskMappings is a function of some ids, to [categories, impact_factor].
findAffectedActivities(risk, riskMappings, riskScore) ==
    LET mapping == riskMappings[risk.id]
        influence(a) ==
            IF risk.id \notin DOMAIN riskMappings THEN getBasicInfluenceScore(a, riskScore[a], risk)
            ELSE Times((IF Traits[a].category \in mapping.categories THEN 600 ELSE 0)
                         + (IF Traits[a].critical THEN 200 ELSE 0), mapping.impact_factor)
                 + (IF riskScore[a] > 500 THEN 100 ELSE 0)
    IN  [a \in {b \in Ids : influence(b) > 50} |-> Least(1000, influence(a))]
fallbackActivity(riskScore) ==
    Descending(Activities, LAMBDA a : (IF Traits[a].critical THEN 3000 ELSE 0) + 2 * riskScore[a] + Traits[a].importance)[1]
Affected(risk, riskMappings, riskScore) ==
    LET found == findAffectedActivities(risk, riskMappings, riskScore)
    IN  IF DOMAIN found = {} THEN [a \in {fallbackActivity(riskScore)} |-> 150] ELSE found
Linked(links, risk, affected) ==
    [a \in Ids |-> IF a \in DOMAIN affected THEN Append(links[a], Assignment(risk, affected[a], "basic")) ELSE links[a]]
basicLinks(register, riskMappings, riskScore) ==
    FoldLeft(LAMBDA acc, risk : Linked(acc, risk, Affected(risk, riskMappings, riskScore)), NoLinks, register)
\* No risk on any activity: the first three of the register go to the critical
\* activities, or to the first ten.  The combined scores are left as they were.
emergencyLinks(register) ==
    LET critical == {a \in Ids : Traits[a].critical}
        targets == IF critical # {} THEN critical ELSE Range(SubSeq(Activities, 1, Least(10, Len(Activities))))
        first == SubSeq(register, 1, Least(3, Len(register)))
    IN  [a \in Ids |-> IF a \notin targets THEN <<>>
                       ELSE [k \in DOMAIN first |-> Assignment(first[k], IF Traits[a].critical THEN 500 ELSE 300, "emergency")]]

-----------------------------------------------------------------------------
(* Scores.                                                                    *)
Highest(assignments, F(_)) == Max({0} \cup {F(r) : r \in Range(assignments)})
\* The confidences weighted by the impacts.
Confidence(assignments) ==
    LET total == FoldLeft(LAMBDA s, r : s + Impact(r), 0, assignments)
    IN  IF total = 0 THEN 500
        ELSE FoldLeft(LAMBDA s, r : s + r.confidence * Impact(r), 0, assignments) \div total
\* Scores that stay below a half are stretched so that the highest is 0.8.
Normalised(v, top) == IF top > 0 /\ top < 500 THEN (v * 800) \div top ELSE v
Enriched(links, riskScore, amplification) ==
    LET cost(a) == Highest(links[a], LAMBDA r : r.weightedCost)
        schedule(a) == Highest(links[a], LAMBDA r : r.weightedSchedule)
        top == Max({0} \cup {Most(cost(a), schedule(a)) : a \in Ids})
        external(a) == Unit(Normalised(schedule(a), top))
    IN  [a \in Ids |->
           [externalRisks |-> links[a],
            externalCostRisk |-> Unit(Normalised(cost(a), top)),
            externalScheduleRisk |-> external(a),
            externalRiskScore |-> Unit(Normalised(Most(cost(a), schedule(a)), top)),
            confidence |-> IF links[a] = <<>> THEN 500 ELSE Confidence(links[a]),
            combined |-> computeCombinedRisk(riskScore[a], external(a), Traits[a].phase,
                              IF links[a] = <<>> THEN 500 ELSE Confidence(links[a]), Traits[a].critical, amplification)]]
initializeEmptyExternalRisks(riskScore) ==
    [a \in Ids |-> [externalRisks |-> <<>>, externalCostRisk |-> 0, externalScheduleRisk |-> 0, externalRiskScore |-> 0,
                    confidence |-> Unscored, combined |-> riskScore[a]]]
\* The scores of an activity in the emergency come from its assignments alone.
Emergency(enriched, register) ==
    LET links == emergencyLinks(register)
    IN  [a \in Ids |-> IF links[a] = <<>> THEN enriched[a]
                       ELSE [enriched[a] EXCEPT !.externalRisks = links[a],
                                !.externalCostRisk = Highest(links[a], LAMBDA r : r.weightedCost),
                                !.externalScheduleRisk = Highest(links[a], LAMBDA r : r.weightedSchedule),
                                !.externalRiskScore = Highest(links[a], Impact),
                                !.confidence = Confidence(links[a])]]
\* applyRisks: the mapping if there is one, unless it leaves all activities
\* without a risk; the emergency if that does too.
NoneMapped(enriched) == \A a \in Ids : enriched[a].externalRisks = <<>>
Unless(enriched, otherwise) == IF NoneMapped(enriched) THEN otherwise ELSE enriched
InEmergency(enriched, register) == IF NoneMapped(enriched) THEN Emergency(enriched, register) ELSE enriched
applyRisks(register, mapping, riskMappings, riskScore, amplification) ==
    LET basic == Enriched(basicLinks(register, riskMappings, riskScore), riskScore, amplification)
    IN  InEmergency(IF mapping = <<>> THEN basic
                    ELSE Unless(Enriched(intelligentLinks(register, mapping, riskScore), riskScore, amplification), basic),
                    register)

-----------------------------------------------------------------------------
(* The risk graph.  Each base node: its ID and the ids of its externalRisks;  *)
(* a node or a risk without the field has "undefined".                        *)
Undefined == "undefined"
materializeRiskGraph(baseNodes, risks, startId) ==
    LET linked == {[source |-> p[1], target |-> p[2].ID] : p \in
                     {p \in risks \X baseNodes : p[1] \in p[2].externalRisks}}
        unlinked == {r \in risks : \A l \in linked : l.source # r}
        hasStart == \E n \in baseNodes : n.ID = startId
    IN  [nodes |-> risks,
         links |-> linked \cup (IF hasStart THEN {[source |-> r, target |-> startId] : r \in unlinked} ELSE {})]
\* assessProjectExternalRisks passes the register for the nodes and the
\* activities for the risks: the former have no ID, the latter no id.
riskGraphOf(register) ==
    materializeRiskGraph({[ID |-> Undefined, externalRisks |-> {}] : r \in Range(register)}, {Undefined}, "start")
\* Risk links are drawn only between nodes that are drawn.
combineForRender(graph) ==
    LET drawn == Ids \cup graph.nodes
    IN  [nodes |-> drawn, links |-> {l \in graph.links : l.source \in drawn /\ l.target \in drawn}]

-----------------------------------------------------------------------------
(***************************************************************************)
(* The external risks of a page, ExtRisks.js: getExternalRisk with the       *)
(* assessment it awaits (a register, a mapping and mitigations, each from    *)
(* the cache or from its service), what it writes to the activities of the   *)
(* page, the user's own risks, and the mitigations that the user accepts.    *)
(* Between two awaits a handler runs alone; assessments may overlap.         *)
(***************************************************************************)
CONSTANTS
    Own,                \* of each activity, before any assessment: riskScore, overrun
    RegisterAnswers,    \* pairs: a register (empty when the service fails), its signals
    MappingAnswers,     \* [entries, malformed] that the service may answer
    MitigationAnswers,  \* sequences of [id, predecessors, successors]
    SeedRisks,          \* what the user may enter
    MaxAssessments, MaxTime, MaxSeeds, \* bounds: runs, clock, risks entered
    ttl, cacheLimit     \* 5 minutes and 10 entries

\* Risks whose numbers are numbers, and what is mapped, as lists.
IsRegister(register) ==
    /\ register \in Seq(Range(register))
    /\ \A r \in Range(register) : r.probability \in Int /\ r.cost \in Int /\ r.schedule \in Int
IsMapping(mapping) ==
    /\ mapping.entries \in Seq(Range(mapping.entries)) /\ mapping.malformed \in BOOLEAN
    /\ \A m \in Range(mapping.entries) :
          /\ m.activities \in Seq(Range(m.activities))
          /\ \A x \in Range(m.activities) : x.influence \in Int
\* A mitigation without the fields has them made when it is taken in.
ASSUME RiskPageAssumption ==
    /\ DOMAIN Own = Range(Activities) /\ \A a \in DOMAIN Own : Own[a].riskScore \in Nat /\ Own[a].overrun \in Nat
    /\ \A answer \in MitigationAnswers : \A k \in DOMAIN answer : DOMAIN answer[k] = {"id", "predecessors", "successors"}
    /\ \A answer \in RegisterAnswers : IsRegister(answer[1])
    /\ \A answer \in MappingAnswers : IsMapping(answer)

VARIABLES
    activity,           \* of each: its scores, its risks and the saved internal values
    riskCache,          \* per kind, a sequence of [key, data, time], oldest first
    now,
    progress,           \* the rounded average progress, which the cache keys contain
    riskRuns,           \* per getExternalRisk: step, key, register, mapping, mitigation
    scored,             \* the run whose scores the activities have (or NoRisks)
    amplification,      \* cybereumState.compoundRiskAnalysis
    riskGraph,
    userRiskRegister, seededRiskRegister,
    mitigationResult,   \* cybereumState.mitigationResult, or NoMitigations
    shownMitigations,   \* the rows of the mitigation table
    network             \* cybereumState.nodes and links, by ids

riskVars == <<activity, riskCache, now, progress, riskRuns, scored, amplification, riskGraph, userRiskRegister,
              seededRiskRegister, mitigationResult, shownMitigations, network>>

NoRisks == 0
NoMitigations == [made |-> FALSE, activities |-> <<>>]
Made(activities) == [made |-> TRUE, activities |-> activities]
NoMapping == [entries |-> <<>>, malformed |-> FALSE]
NewRun == Cardinality(DOMAIN riskRuns) + 1
With(f, k, v) == [x \in DOMAIN f \cup {k} |-> IF x = k THEN v ELSE f[x]]

-----------------------------------------------------------------------------
(* riskCache.                                                                 *)
At(cache, kind, key) == SelectInSeq(cache[kind], LAMBDA e : e.key = key)
Fresh(cache, kind, key) ==
    LET k == At(cache, kind, key) IN k # 0 /\ now - cache[kind][k].time <= ttl
\* get, which forgets what has expired.
Looked(cache, kind, key) ==
    IF At(cache, kind, key) = 0 \/ Fresh(cache, kind, key) THEN cache
    ELSE [cache EXCEPT ![kind] = RemoveAt(@, At(cache, kind, key))]
Got(cache, kind, key) == cache[kind][At(cache, kind, key)].data
\* set: a full cache loses its oldest entry, though the key may be there already.
Cached(cache, kind, key, data) ==
    LET room == IF Len(cache[kind]) > cacheLimit THEN [cache EXCEPT ![kind] = Tail(@)] ELSE cache
        k == At(room, kind, key)
        entry == [key |-> key, data |-> data, time |-> now]
    IN  [room EXCEPT ![kind] = IF k = 0 THEN Append(@, entry) ELSE [@ EXCEPT ![k] = entry]]

-----------------------------------------------------------------------------
(* The user's registers.                                                      *)
Numbered(register) ==
    [k \in DOMAIN register |-> IF register[k].id = "" THEN [register[k] EXCEPT !.id = ToString(k)] ELSE register[k]]
\* One risk per name and type: the first.
mergeRiskRegisters(existing, generated) ==
    FoldLeft(LAMBDA out, r : IF \E o \in Range(out) : o.name = r.name /\ o.type = r.type THEN out ELSE Append(out, r),
             <<>>, Numbered(existing \o generated))
getUserRiskRegisterInputs == mergeRiskRegisters(userRiskRegister, seededRiskRegister)

AddSeed(risk) ==
    /\ Len(seededRiskRegister) < MaxSeeds /\ riskRuns = [n \in {} |-> 0] \* bounds
    /\ seededRiskRegister' = mergeRiskRegisters(seededRiskRegister, <<risk>>)
    /\ UNCHANGED <<activity, riskCache, now, progress, riskRuns, scored, amplification, riskGraph, userRiskRegister,
                   mitigationResult, shownMitigations, network>>
\* An edit of a row takes every risk with its id away and puts the row back last.
EditRow(k, name) ==
    LET row == [userRiskRegister[k] EXCEPT !.name = name]
    IN  /\ k \in DOMAIN userRiskRegister /\ \A r \in Range(userRiskRegister) : r.name # name \* bound: a name once
        /\ userRiskRegister' = mergeRiskRegisters(SelectSeq(userRiskRegister, LAMBDA r : r.id # row.id), <<row>>)
        /\ UNCHANGED <<activity, riskCache, now, progress, riskRuns, scored, amplification, riskGraph,
                       seededRiskRegister, mitigationResult, shownMitigations, network>>

-----------------------------------------------------------------------------
(* What an assessment does to the activities.                                 *)
CurrentRisk == [a \in Ids |-> activity[a].riskScore]
\* Mutant: what an earlier assessment has made of it counts as its own.
SavedEachTime(saved, current) == current
Saved(saved, current) == IF saved = Unscored THEN current ELSE saved
\* What is not a number counts as zero.
OrZero(v) == IF v \in Int THEN v ELSE 0
\* propagateExternalRiskAndRefreshCharts, for one activity.
Propagated(a) ==
    LET combined == OrZero(a.combined)
        internal == Saved(a.internalRisk, OrZero(a.riskScore))
        overrun == Saved(a.internalOverrun, OrZero(a.overrun))
        raised == IF internal > 0 /\ overrun > 0 THEN Times(overrun, Least((combined * 1000) \div internal, 5000))
                  ELSE Times(combined, 300)
    IN  IF combined <= 0 THEN a
        ELSE [a EXCEPT !.internalRisk = internal, !.internalOverrun = overrun, !.riskScore = combined, !.overrun = Unit(raised)]
\* getExternalRisk copies all but the confidence.
Written(a, e) ==
    [a EXCEPT !.externalRisks = e.externalRisks, !.externalRiskScore = e.externalRiskScore,
              !.externalCostRisk = e.externalCostRisk, !.externalScheduleRisk = e.externalScheduleRisk, !.combined = e.combined]

generateBasicMitigationActivities(register) ==
    [k \in DOMAIN register |-> [id |-> "MIT-" \o register[k].id, predecessors |-> {}, successors |-> {}]]
\* The rows offer, of what was recommended, the nodes that exist by then.
Displayed(mitigations, nodes) ==
    [k \in DOMAIN mitigations |-> [mitigations[k] EXCEPT !.predecessors = @ \cap Range(nodes), !.successors = @ \cap Range(nodes)]]

-----------------------------------------------------------------------------
(* An assessment, from one await to the next.                                 *)
\* The run goes on with what is cached, until it must ask a service.
Onward(run, cache, key) ==
    LET afterMapping(r, c) ==
            LET looked == Looked(c, "mitigations", key)
            IN  IF Fresh(c, "mitigations", key)
                THEN [run |-> [r EXCEPT !.step = "score", !.mitigation = Got(c, "mitigations", key)], cache |-> looked]
                ELSE [run |-> [r EXCEPT !.step = "mitigation"], cache |-> looked]
        afterRegister(r, c) ==
            LET looked == Looked(c, "mappings", key)
            IN  IF r.register = <<>> THEN [run |-> [r EXCEPT !.step = "score"], cache |-> c]
                ELSE IF Fresh(c, "mappings", key) /\ Got(c, "mappings", key) # NoMapping
                THEN afterMapping([r EXCEPT !.mapping = Got(c, "mappings", key)], looked)
                ELSE [run |-> [r EXCEPT !.step = "mapping"], cache |-> looked]
    IN  IF run.step = "mapped" THEN afterMapping(run, cache) ELSE afterRegister(run, cache)

\* Scoring, the graph, and the rest of getExternalRisk up to its own await.
Scored(n, run, cache, result) ==
    LET empty == run.register = <<>> \/ run.mapping.malformed
        enriched == IF empty THEN initializeEmptyExternalRisks(CurrentRisk)
                    ELSE applyRisks(run.register, run.mapping.entries, [r \in {} |-> 0], CurrentRisk, amplification)
        generated == IF empty THEN <<>> ELSE run.register
        register == mergeRiskRegisters(getUserRiskRegisterInputs, generated)
        asks == register # <<>> /\ result = NoMitigations
    IN  /\ activity' = [a \in Ids |-> Propagated(Written(activity[a], enriched[a]))]
        /\ riskGraph' = IF empty THEN [nodes |-> {}, links |-> {}] ELSE riskGraphOf(run.register)
        /\ amplification' = IF empty THEN amplification ELSE analyzeCompoundRisk(run.signals)
        /\ userRiskRegister' = register
        /\ scored' = n
        /\ mitigationResult' = result
        /\ shownMitigations' = IF register # <<>> /\ ~asks /\ result.activities # <<>>
                               THEN Displayed(result.activities, network.nodes) ELSE shownMitigations
        /\ riskRuns' = With(riskRuns, n, [run EXCEPT !.step = IF asks THEN "own mitigation" ELSE "over"])
        /\ riskCache' = cache
Goes(n, next, result) ==
    /\ IF next.run.step = "score" THEN Scored(n, next.run, next.cache, result)
       ELSE /\ riskRuns' = With(riskRuns, n, next.run) /\ riskCache' = next.cache /\ mitigationResult' = result
            /\ UNCHANGED <<activity, scored, amplification, riskGraph, userRiskRegister, shownMitigations>>
    /\ UNCHANGED <<now, progress, seededRiskRegister, network>>

StartAssessment ==
    LET n == NewRun
        run == [step |-> "register", key |-> progress, register |-> <<>>, signals |-> {}, mapping |-> NoMapping, mitigation |-> <<>>]
        data == Got(riskCache, "assessments", progress)
        looked == Looked(riskCache, "assessments", progress)
    IN  /\ n <= MaxAssessments
        /\ Goes(n, IF Fresh(riskCache, "assessments", progress)
                   THEN Onward([run EXCEPT !.register = data[1], !.signals = data[2]], looked, progress)
                   ELSE [run |-> run, cache |-> looked],
                mitigationResult)

Awaits(n, step) == n \in DOMAIN riskRuns /\ riskRuns[n].step = step
\* A failure answers an empty register, which is not cached.
RegisterAnswered(n) ==
    /\ Awaits(n, "register")
    /\ \E answer \in RegisterAnswers :
          LET run == [riskRuns[n] EXCEPT !.register = answer[1], !.signals = answer[2]]
              cache == IF answer[1] = <<>> THEN riskCache ELSE Cached(riskCache, "assessments", run.key, answer)
          IN  Goes(n, Onward(run, cache, run.key), mitigationResult)
\* A failure is answered by the basic mappings, which are cached as well.
MappingAnswered(n) ==
    /\ Awaits(n, "mapping")
    /\ \E answer \in MappingAnswers \cup {[entries |-> generateBasicRiskMappings(riskRuns[n].register), malformed |-> FALSE]} :
          LET run == [riskRuns[n] EXCEPT !.mapping = answer, !.step = "mapped"]
          IN  Goes(n, Onward(run, Cached(riskCache, "mappings", run.key, answer), run.key), mitigationResult)
\* Only mitigations that were asked for, not cached ones, become the page's.
MitigationAnswered(n) ==
    /\ Awaits(n, "mitigation")
    /\ \E answer \in MitigationAnswers \cup {generateBasicMitigationActivities(riskRuns[n].register)} :
          LET run == [riskRuns[n] EXCEPT !.mitigation = answer, !.step = "score"]
          IN  Goes(n, [run |-> run, cache |-> Cached(riskCache, "mitigations", run.key, answer)], Made(answer))
OwnMitigationAnswered(n) ==
    /\ Awaits(n, "own mitigation")
    /\ \E answer \in MitigationAnswers \cup {generateBasicMitigationActivities(userRiskRegister)} :
          /\ mitigationResult' = Made(answer)
          /\ shownMitigations' = IF answer # <<>> THEN Displayed(answer, network.nodes) ELSE shownMitigations
    /\ riskRuns' = [riskRuns EXCEPT ![n].step = "over"]
    /\ UNCHANGED <<activity, riskCache, now, progress, scored, amplification, riskGraph, userRiskRegister,
                   seededRiskRegister, network>>

-----------------------------------------------------------------------------
(* The user and the clock.                                                    *)
\* Links are told apart by their ends: of the new ones, in their order, those that
\* are not there yet and have not come before.
LinkedOnce(links, new) ==
    LET first == {i \in DOMAIN new : ~Contains(links, new[i]) /\ \A h \in 1..(i - 1) : new[h] # new[i]}
        place == Ranked(first, [i \in first |-> 0])
    IN  links \o [p \in DOMAIN place |-> new[place[p]]]
applyAcceptedMitigation(m) ==
    LET before(S) == SetToSeq({[source |-> p, target |-> m.id] : p \in S})
        after(S) == SetToSeq({[source |-> m.id, target |-> s] : s \in S})
    IN  [nodes |-> IF Contains(network.nodes, m.id) THEN network.nodes ELSE Append(network.nodes, m.id),
         links |-> LinkedOnce(network.links, before(m.predecessors) \o after(m.successors))]
Accept(k) ==
    /\ k \in DOMAIN shownMitigations
    /\ network' = applyAcceptedMitigation(shownMitigations[k])
    /\ network' # network
    /\ UNCHANGED <<activity, riskCache, now, progress, riskRuns, scored, amplification, riskGraph, userRiskRegister,
                   seededRiskRegister, mitigationResult, shownMitigations>>
Tick ==
    /\ now < MaxTime /\ now' = now + 1
    /\ progress = 0 /\ riskCache["assessments"] # <<>> \* bounds
    /\ UNCHANGED <<activity, riskCache, progress, riskRuns, scored, amplification, riskGraph, userRiskRegister,
                   seededRiskRegister, mitigationResult, shownMitigations, network>>
WorkProgresses ==
    /\ progress = 0 /\ progress' = 1
    /\ now = 0 /\ Cardinality(DOMAIN riskRuns) < MaxAssessments \* bounds
    /\ UNCHANGED <<activity, riskCache, now, riskRuns, scored, amplification, riskGraph, userRiskRegister,
                   seededRiskRegister, mitigationResult, shownMitigations, network>>

RiskPageInit ==
    /\ activity = [a \in Ids |-> [riskScore |-> Own[a].riskScore, overrun |-> Own[a].overrun, internalRisk |-> Unscored,
                                  internalOverrun |-> Unscored, externalRisks |-> <<>>, externalRiskScore |-> 0,
                                  externalCostRisk |-> 0, externalScheduleRisk |-> 0, combined |-> 0]]
    /\ riskCache = [kind \in {"assessments", "mappings", "mitigations"} |-> <<>>]
    /\ now = 0 /\ progress = 0 /\ riskRuns = [n \in {} |-> 0] /\ scored = NoRisks /\ amplification = 1000
    /\ riskGraph = [nodes |-> {}, links |-> {}] /\ userRiskRegister = <<>> /\ seededRiskRegister = <<>>
    /\ mitigationResult = NoMitigations /\ shownMitigations = <<>>
    /\ network = [nodes |-> Activities, links |-> <<>>]
RiskPageNext ==
    \/ StartAssessment
    \/ \E n \in DOMAIN riskRuns :
          RegisterAnswered(n) \/ MappingAnswered(n) \/ MitigationAnswered(n) \/ OwnMitigationAnswered(n)
    \/ \E k \in DOMAIN shownMitigations : Accept(k)
    \/ \E k \in DOMAIN userRiskRegister, r \in SeedRisks : EditRow(k, r.name)
    \/ \E r \in SeedRisks : AddSeed(r)
    \/ Tick \/ WorkProgresses
RiskPageSpec == RiskPageInit /\ [][RiskPageNext]_riskVars

-----------------------------------------------------------------------------
(* Properties *)

\* Every risk of the register is on some activity, also when each activity has
\* been cut down to the cap; and one that the mapping has put on activities is
\* still on one of them, never only where the coverage of orphans would put it.
RisksStayWhereLinked ==
    scored # NoRisks /\ ~riskRuns[scored].mapping.malformed =>
    LET run == riskRuns[scored]
        linked == UNION {Range(activity[a].externalRisks) : a \in Ids}
    IN  /\ Ids # {} => \A r \in Range(run.register) : \E e \in linked : e.id = r.id
        /\ \A e \in linked : e.why = "coverage" =>
               \A m \in Range(run.mapping.entries) : m.risk = e.id => \A x \in Range(m.activities) : x.id \notin Ids

\* However often the risks are assessed, an activity's overrun probability is
\* at most five times the one that it came with, though its risk score is
\* replaced by the combined one each time.
OverrunNotCompounded ==
    \A a \in Ids : Own[a].riskScore > 0 /\ Own[a].overrun > 0 => activity[a].overrun <= 5 * Own[a].overrun

\* A mitigation that is accepted, again after each assessment that shows it
\* anew, is in the network once, and so is each of its links.
AcceptedOnce ==
    /\ IsInjective(network.nodes) /\ IsInjective(network.links)
    /\ \A l \in Range(network.links) : {l.source, l.target} \subseteq Range(network.nodes)

\* Assessing the risks again and accepting a mitigation again count nothing twice.
NothingCountedTwice == OverrunNotCompounded /\ AcceptedOnce

\* "Build risk nodes and Risk->Activity links [...] Supports 1 risk -> many
\* activities (one link per pair)": what an activity lists is in the graph.
GraphShowsTheRisks ==
    scored # NoRisks =>
    \A a \in Ids : \A r \in Range(activity[a].externalRisks) :
        \E l \in combineForRender(riskGraph).links : l.source = r.id /\ l.target = a
=============================================================================
