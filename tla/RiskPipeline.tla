---------------------------- MODULE RiskPipeline ----------------------------
(***************************************************************************)
(* getExternalRiskRegisterCalibrated of ExtRisks.js: how much is asked of    *)
(* the service and through which stages the register that it generates goes, *)
(* synthesis and validation, with the fallback on any failure.               *)
(***************************************************************************)
EXTENDS RiskScores

CONSTANTS
    PipeCases,              \* what a run of the pipeline may meet
    baseRisks, maxRisks,    \* RISK_PIPELINE_CONFIG.scaling, 30 and 200
    maxMergedMitigations, maxMergedIndicators, maxValidationBatch, \* 8, 6 and 15
    Stopwords

NoId == 0 \* a generated risk without an id
\* What the service may generate, and the metrics of a project.
Candidate == [id : Nat, type : STRING, words : SUBSET STRING, marks : SUBSET STRING, probability : Nat, cost : Nat,
              schedule : Nat, confidence : Nat \cup {Unscored}, mitigations : Seq(Nat), indicators : Seq(Nat),
              categories : SUBSET STRING]
Metrics == [activityCount : Nat, durationDays : Nat, capex : Nat, sector : SUBSET STRING]

ASSUME PipelineAssumption ==
    /\ baseRisks \in Nat /\ maxRisks \in Nat /\ baseRisks <= maxRisks
    /\ maxValidationBatch \in Nat /\ maxMergedMitigations \in Nat /\ maxMergedIndicators \in Nat
    /\ PipeCases \subseteq [project : Metrics, candidates : Seq(Candidate), validate : BOOLEAN]

VARIABLES
    pipeCase,       \* the project's metrics, the candidates and the validate option
    pipeStage,
    assigned,       \* the candidates, by their numbers, that are in a cluster
    merged,         \* of each cluster, the merged risk and its score
    looked,         \* how many of those the selection has looked at
    selected, deferredRisks, \* sequences of their numbers
    synthesis,      \* the risks selected, with the id each was generated with, and the borderline ids
    pipeRegister    \* the risk_register that the caller gets

working == <<assigned, merged, looked, selected, deferredRisks>>
pipeVars == <<pipeCase, pipeStage, working, synthesis, pipeRegister>>

qualityThreshold == 250
RoundDiv(a, b) == (2 * a + b) \div (2 * b)

-----------------------------------------------------------------------------
(* Calibration.  The metrics: activityCount, durationDays, capex in millions  *)
(* and the words found in the sector.                                         *)
SectorMultipliers ==
    <<<<"nuclear", 140>>, <<"olympic", 130>>, <<"petrochemical", 125>>, <<"chemical", 120>>, <<"lng", 125>>,
      <<"refinery", 120>>, <<"offshore", 125>>, <<"semiconductor", 120>>, <<"defense", 115>>, <<"aerospace", 115>>,
      <<"rail", 110>>, <<"airport", 110>>, <<"tunnel", 110>>, <<"hospital", 110>>, <<"datacenter", 105>>,
      <<"port", 105>>, <<"mining", 100>>, <<"bridge", 100>>, <<"water", 100>>, <<"power", 95>>, <<"solar", 90>>,
      <<"wind", 90>>, <<"road", 90>>, <<"building", 85>>>>
\* The first entry that applies.
getSectorMultiplier(words) ==
    LET found == {k \in DOMAIN SectorMultipliers : SectorMultipliers[k][1] \in words}
    IN  IF found = {} THEN 100 ELSE SectorMultipliers[Min(found)][2]
isCriticalSector(words) ==
    words \cap {"nuclear", "petrochemical", "chemical", "lng", "refinery", "offshore", "defense", "aerospace",
                "dam", "pipeline", "port", "airport"} # {}
\* In hundredths until it is rounded.
calculateComplexity(p) ==
    LET activity == Least(2500, 5 * p.activityCount)
        duration == Least(2500, (5 * p.durationDays) \div 3)
        capex == Least(2500, p.capex \div 2)
        bonus == IF p.activityCount > 1000 THEN 1000 ELSE IF p.activityCount > 500 THEN 500 ELSE 0
    IN  Least(100, RoundDiv((activity + duration + capex + bonus) * getSectorMultiplier(p.sector), 10000))
selectPipelineDepth(score, p) ==
    IF score < 30 /\ p.activityCount < 200 THEN "LIGHT"
    ELSE IF score < 65 \/ p.capex < 500 THEN "STANDARD" ELSE "DEEP"
calculateTargets(score, p) ==
    LET megaProject == IF p.capex > 1000 THEN 25 ELSE IF p.capex > 500 THEN 15 ELSE 0
        critical == IF isCriticalSector(p.sector) THEN 15 ELSE 0
        final == Least(maxRisks, Most(baseRisks, baseRisks + RoundDiv(score * maxRisks * 80, 10000) + megaProject + critical))
    IN  [final |-> final, generate |-> RoundDiv(final * 3, 2)]
determineRequiredTypes(words) ==
    {"Regulatory", "Environmental", "Market", "Technical", "Labor", "Supply Chain"} \cup
    (IF "nuclear" \in words THEN {"Safety", "Security", "Social", "Quality"}
     ELSE IF words \cap {"petrochemical", "chemical", "lng", "refinery"} # {} THEN {"Process Safety", "Commodity", "Contractor"}
     ELSE IF words \cap {"offshore", "subsea", "oil", "gas"} # {} THEN {"Weather", "Marine Operations", "Logistics"}
     ELSE IF "data center" \in words THEN {"Power Supply", "Technology"}
     ELSE IF "mining" \in words THEN {"Commodity", "Social", "Geotechnical"} ELSE {})
\* The families of canonical seeds besides the universal ones: one at most.
SeedFamilies ==
    <<<<"petrochemical", {"petrochemical", "chemical", "polymer", "cracker", "refinery", "lng", "ammonia"}>>,
      <<"nuclear", {"nuclear"}>>, <<"datacenter", {"data center", "datacenter"}>>,
      <<"offshore", {"offshore", "subsea", "fpso", "platform", "oil", "gas"}>>, <<"mining", {"mining", "mine", "mineral"}>>,
      <<"infrastructure", {"infrastructure", "road", "highway", "bridge", "tunnel", "rail", "transit"}>>>>
selectCanonicalSeeds(words) ==
    LET k == SelectInSeq(SeedFamilies, LAMBDA f : f[2] \cap words # {})
    IN  IF k = 0 THEN <<"universal">> ELSE <<"universal", SeedFamilies[k][1]>>
calibrateRiskPipeline(p) ==
    LET score == calculateComplexity(p)
    IN  [complexity |-> score, depth |-> selectPipelineDepth(score, p), targets |-> calculateTargets(score, p),
         seeds |-> selectCanonicalSeeds(p.sector), requiredTypes |-> determineRequiredTypes(p.sector)]

-----------------------------------------------------------------------------
(* Synthesis: clusters, one merged risk of each, and the selection.           *)
Calibration == calibrateRiskPipeline(pipeCase.project)
Candidates == pipeCase.candidates
Target == Calibration.targets.final

extractKeywords(risk) == risk.words \ Stopwords
\* jaccard above 0.5, of one type.
Similar(a, b) ==
    /\ a.type = b.type
    /\ 2 * Cardinality(extractKeywords(a) \cap extractKeywords(b)) > Cardinality(extractKeywords(a) \cup extractKeywords(b))
Upto(seq, k) == SubSeq(seq, 1, Least(k, Len(seq)))
Distinct(seq) == FoldLeft(LAMBDA acc, e : IF Contains(acc, e) THEN acc ELSE Append(acc, e), <<>>, seq)
MergedMitigations(order) ==
    Upto(Distinct(FlattenSeq([k \in DOMAIN order |-> Candidates[order[k]].mitigations])), maxMergedMitigations)
MergedIndicators(order) ==
    Upto(Distinct(FlattenSeq([k \in DOMAIN order |-> Candidates[order[k]].indicators])), maxMergedIndicators)
\* The best of a cluster, with what the others add; its score stays as it was.
mergeClusters(cluster) ==
    LET order == Ranked(cluster, [j \in cluster |-> scoreRisk(Candidates[j])])
        best == Candidates[order[1]]
    IN  [score |-> scoreRisk(best),
         risk |-> IF Cardinality(cluster) = 1 THEN best
                  ELSE [best EXCEPT !.mitigations = MergedMitigations(order), !.indicators = MergedIndicators(order),
                                    !.categories = UNION {Candidates[j].categories : j \in cluster}]]

Left == DOMAIN Candidates \ assigned
\* The first that is left opens a cluster and takes the later ones similar to it.
Cluster ==
    /\ pipeStage = "clustering" /\ Left # {}
    /\ LET cluster == {j \in Left : j = Min(Left) \/ Similar(Candidates[Min(Left)], Candidates[j])}
       IN  assigned' = assigned \cup cluster /\ merged' = Append(merged, mergeClusters(cluster))
    /\ UNCHANGED <<pipeCase, pipeStage, looked, selected, deferredRisks, synthesis, pipeRegister>>
SortMerged ==
    /\ pipeStage = "clustering" /\ Left = {}
    /\ pipeStage' = "selecting"
    /\ merged' = Descending(merged, LAMBDA m : m.score)
    /\ UNCHANGED <<pipeCase, assigned, looked, selected, deferredRisks, synthesis, pipeRegister>>

SelectedKeywords == UNION {extractKeywords(merged[s].risk) : s \in Range(selected)}
CoveredTypes == {merged[s].risk.type : s \in Range(selected)}
\* Each keyword that a risk shares with those selected costs it 0.025, 0.2 at most.
Adjusted(quality, risk) == quality - Least(25 * Cardinality(extractKeywords(risk) \cap SelectedKeywords), 200)
\* Mutant: the bar at which risks are deferred, as it once was.
WorthDeferringOnce(quality) == quality > 200
WorthDeferring(quality) == quality > 100
Looking == pipeStage = "selecting" /\ looked < Len(merged) /\ Len(selected) < Target
Look ==
    LET k == looked + 1
        quality == merged[k].score
        risk == merged[k].risk
    IN  /\ Looking
        /\ looked' = k
        /\ IF Adjusted(quality, risk) >= qualityThreshold \/ risk.type \in Calibration.requiredTypes \ CoveredTypes
           THEN selected' = Append(selected, k) /\ UNCHANGED deferredRisks
           ELSE /\ deferredRisks' = IF WorthDeferring(quality) THEN Append(deferredRisks, k) ELSE deferredRisks
                /\ UNCHANGED selected
        /\ UNCHANGED <<pipeCase, pipeStage, assigned, merged, synthesis, pipeRegister>>
\* What room is left goes to the first of those deferred, all of them borderline.
Fill == Upto(deferredRisks, Target - Len(selected))
\* The risks selected are numbered anew.
NumberedAnew(chosen) ==
    [k \in DOMAIN chosen |-> [risk |-> [merged[chosen[k]].risk EXCEPT !.id = k], originalId |-> merged[chosen[k]].risk.id]]
Synthesised ==
    [risks |-> NumberedAnew(selected \o Fill),
     borderline |-> {merged[s].risk.id : s \in {z \in Range(selected) : merged[z].score < qualityThreshold} \cup Range(Fill)}]

-----------------------------------------------------------------------------
(* Validation, of the risks by their numbers.                                 *)
FirstOf(K, n) == {k \in K : Cardinality({j \in K : j <= k}) <= n}
\* Mutant: the new ids are taken for those of the borderline risks.
ToValidateRenumbered(s) ==
    FirstOf({k \in DOMAIN s.risks : s.risks[k].risk.id \in s.borderline}, maxValidationBatch)
\* A risk that came without an id goes by its number.
KnownAs(r) == IF r.originalId = NoId THEN r.risk.id ELSE r.originalId
ToValidate(s) == FirstOf({k \in DOMAIN s.risks : KnownAs(s.risks[k]) \in s.borderline}, maxValidationBatch)
Plain(s) == [k \in DOMAIN s.risks |-> s.risks[k].risk]
\* What the service says of a risk: keep it, discard it, or enhance it.
Enhanced(risk, says) ==
    IF risk.id \in DOMAIN says /\ says[risk.id] = "enhance" THEN [risk EXCEPT !.confidence = 1000] ELSE risk
Validated(s, says) ==
    LET kept == {k \in DOMAIN s.risks : ~(s.risks[k].risk.id \in DOMAIN says /\ says[s.risks[k].risk.id] = "discard")}
        order == Ranked(kept, [k \in kept |-> 0])
    IN  [p \in DOMAIN order |-> Enhanced(s.risks[order[p]].risk, says)]

-----------------------------------------------------------------------------
PipelineInit ==
    /\ pipeCase \in PipeCases
    /\ pipeStage = "generating"
    /\ assigned = {} /\ merged = <<>> /\ looked = 0 /\ selected = <<>> /\ deferredRisks = <<>>
    /\ synthesis = [risks |-> <<>>, borderline |-> {}]
    /\ pipeRegister = <<>>

\* A light project keeps what was generated as it is.
Generated ==
    /\ pipeStage = "generating"
    /\ IF Calibration.depth = "LIGHT"
       THEN /\ synthesis' = [risks |-> [k \in DOMAIN Candidates |-> [risk |-> Candidates[k], originalId |-> Candidates[k].id]],
                             borderline |-> {}]
            /\ pipeStage' = "done" /\ pipeRegister' = Plain(synthesis')
       ELSE pipeStage' = "clustering" /\ UNCHANGED <<synthesis, pipeRegister>>
    /\ UNCHANGED <<pipeCase, working>>
Select ==
    /\ pipeStage = "selecting" /\ ~Looking
    /\ synthesis' = Synthesised
    /\ IF Calibration.depth = "DEEP" /\ pipeCase.validate /\ ToValidate(synthesis') # {}
       THEN pipeStage' = "validating" /\ pipeRegister' = <<>>
       ELSE pipeStage' = "done" /\ pipeRegister' = Plain(synthesis')
    /\ UNCHANGED <<pipeCase, working>>
GenerationFails ==
    /\ pipeStage = "generating" /\ pipeStage' = "fallback"
    /\ UNCHANGED <<pipeCase, working, synthesis, pipeRegister>>

\* The answer speaks of risks that it was asked about, not always of each.
ValidationAnswers ==
    /\ pipeStage = "validating" /\ pipeStage' = "done"
    /\ \E ids \in SUBSET {synthesis.risks[k].risk.id : k \in ToValidate(synthesis)} :
          \E says \in [ids -> {"keep", "discard", "enhance"}] : pipeRegister' = Validated(synthesis, says)
    /\ UNCHANGED <<pipeCase, working, synthesis>>
\* A failure of the service, or an answer without validations, keeps them all.
ValidationFails ==
    /\ pipeStage = "validating" /\ pipeStage' = "done"
    /\ pipeRegister' = Plain(synthesis)
    /\ UNCHANGED <<pipeCase, working, synthesis>>

FallbackAnswers ==
    /\ pipeStage = "fallback" /\ pipeStage' = "single shot"
    /\ pipeRegister' = pipeCase.candidates
    /\ UNCHANGED <<pipeCase, working, synthesis>>
FallbackFails ==
    /\ pipeStage = "fallback" /\ pipeStage' = "failed"
    /\ UNCHANGED <<pipeCase, working, synthesis, pipeRegister>>

PipelineNext ==
    \/ Generated \/ Cluster \/ SortMerged \/ Look \/ Select \/ GenerationFails
    \/ ValidationAnswers \/ ValidationFails \/ FallbackAnswers \/ FallbackFails
PipelineSpec == PipelineInit /\ [][PipelineNext]_pipeVars

-----------------------------------------------------------------------------
(* Properties *)

\* Validation only ever takes away risks that selection had found borderline:
\* each other risk that came with an id and was selected is in the register,
\* under the number that it was given before the service was asked.
ConfidentRisksSurvive ==
    pipeStage = "done" =>
    \A r \in Range(synthesis.risks) :
        r.originalId \notin synthesis.borderline \cup {NoId} => \E f \in Range(pipeRegister) : f.id = r.risk.id

\* Selection stops at its target and not before: when it ends below, no
\* cluster worth a mark of 0.1 was left out, nor the only one of a type that
\* the sector requires.
SelectionUsesItsRoom ==
    pipeStage \in {"validating", "done"} /\ Calibration.depth # "LIGHT" =>
    LET taken == {r.originalId : r \in Range(synthesis.risks)}
        types == {r.risk.type : r \in Range(synthesis.risks)}
    IN  /\ Len(synthesis.risks) <= Target
        /\ Len(synthesis.risks) < Target =>
              \A m \in Range(merged) :
                 /\ m.score > 100 => m.risk.id \in taken
                 /\ m.risk.type \in Calibration.requiredTypes => m.risk.type \in types
=============================================================================
