----------------------------- MODULE RiskScores -----------------------------
(***************************************************************************)
(* The scores of ExtRisks.js: what a set of external signals amplifies, how  *)
(* the internal and the external risk of an activity are combined, and how a *)
(* generated risk is graded.  A score from 0 to 1 is an integer from 0 to     *)
(* 1000, and every product is rounded down.                                   *)
(***************************************************************************)
EXTENDS Integers, FiniteSets, FiniteSetsExt, SequencesExt

Unscored == -1
Least(a, b) == IF a < b THEN a ELSE b
Most(a, b) == IF a < b THEN b ELSE a
Unit(v) == Most(0, Least(1000, v))
Times(a, b) == (a * b) \div 1000
SquareRoot(v) == Most(0, CHOOSE r \in 0..1001 : r * r <= v * 1000 /\ (r + 1) * (r + 1) > v * 1000)
\* The numbers of a set, highest key first; the sorts of the code are stable.
Before(keys, i, j) == keys[i] > keys[j] \/ (keys[i] = keys[j] /\ i < j)
Ranked(J, keys) ==
    [p \in 1..Cardinality(J) |-> CHOOSE j \in J : Cardinality({i \in J : Before(keys, i, j)}) = p - 1]
Descending(seq, Key(_)) ==
    LET order == Ranked(DOMAIN seq, [i \in DOMAIN seq |-> Key(seq[i])])
    IN  [k \in DOMAIN seq |-> seq[order[k]]]

-----------------------------------------------------------------------------
(* Signals: [id, type, region, severity].                                     *)
SignalTypes(signals, region) == {s.type : s \in {z \in signals : z.region = region}}
MaxSeverity(signals, region) == Max({0} \cup {s.severity : s \in {z \in signals : z.region = region}})
\* 1 + 0.25 log2 of the number of types, and a boost for a severe signal.
RegionAmplification(types, severity) ==
    LET base == IF types >= 4 THEN 1500 ELSE <<1000, 1250, 1396>>[types]
        boost == IF severity > 700 THEN 80 ELSE IF severity > 400 THEN 40 ELSE 0
    IN  Least(1500, base + boost)
CompoundRegions(signals) ==
    IF Cardinality(signals) < 2 THEN {}
    ELSE {r \in {s.region : s \in signals} : Cardinality(SignalTypes(signals, r)) >= 2}
analyzeCompoundRisk(signals) ==
    Max({1000} \cup {RegionAmplification(Cardinality(SignalTypes(signals, r)), MaxSeverity(signals, r)) :
                        r \in CompoundRegions(signals)})

-----------------------------------------------------------------------------
(* Internal and external risk of an activity.                                 *)
\* The weight of the internal risk, of 1000, by the phase of the activity.
InternalWeight(phase) ==
    CASE phase \in {"Planning", "Development"} -> 250
      [] phase = "Engineering" -> 350
      [] phase = "Procurement" -> 400
      [] phase = "Marine Logistics" -> 450
      [] phase = "Offshore Installation" -> 500
      [] phase = "Integration" -> 650
      [] phase \in {"Construction", "Pre-Commissioning"} -> 700
      [] phase = "Commissioning" -> 750
      [] phase = "Project Controls / Milestones" -> 800
      [] phase = "Operations / Handover" -> 850
      [] OTHER -> 550
computeCombinedRisk(internalRisk, externalRisk, phase, confidence, critical, amplification) ==
    LET internal == Unit(internalRisk)
        amplified == Least(1000, Times(Unit(externalRisk), amplification))
        external == Times(amplified, SquareRoot(Unit(confidence)))
        combined == IF phase # "none"
                    THEN (InternalWeight(phase) * internal + (1000 - InternalWeight(phase)) * external) \div 1000
                    ELSE 1000 - Times(1000 - internal, 1000 - external)
    IN  Unit(IF critical THEN Times(combined, 1120) ELSE combined)

-----------------------------------------------------------------------------
(* The grade of a generated risk, from the marks that its text earns.          *)
Mark(risk, mark, worth) == IF mark \in risk.marks THEN worth ELSE 0
\* A long justification is not also a justification.
scoreSpecificity(risk) ==
    Least(1000, Mark(risk, "quantity", 200) + Mark(risk, "equipment", 150) + Mark(risk, "construction", 100)
                + (IF "longJustification" \in risk.marks THEN 250 ELSE Mark(risk, "justification", 150))
                + Mark(risk, "citations", 150) + Mark(risk, "party", 100))
scoreGrounding(risk) ==
    Least(1000, Mark(risk, "sector", 150) + Mark(risk, "region", 250) + Mark(risk, "country", 200)
                + Mark(risk, "category", 150) + Mark(risk, "threeCategories", 100)
                + Mark(risk, "reasoning", 100) + Mark(risk, "source", 50))
scoreCompleteness(risk) ==
    Least(1000, Mark(risk, "name", 150) + Mark(risk, "type", 100) + Mark(risk, "description", 150)
                + Mark(risk, "probability", 100) + Mark(risk, "cost", 100) + Mark(risk, "schedule", 100)
                + Mark(risk, "mitigation", 150) + Mark(risk, "twoMitigations", 100) + Mark(risk, "indicator", 100))
\* 0 counts as not given.
OrHalf(v) == IF v = 0 THEN 500 ELSE v
calculateSeverity(risk) == Times(OrHalf(risk.probability), Most(OrHalf(risk.cost), OrHalf(risk.schedule)))
OwnConfidence(risk) == IF risk.confidence = Unscored THEN 500 ELSE risk.confidence
scoreRisk(risk) ==
    (250 * scoreSpecificity(risk) + 300 * scoreGrounding(risk) + 200 * scoreCompleteness(risk)
     + 150 * calculateSeverity(risk) + 100 * OwnConfidence(risk)) \div 1000
=============================================================================
