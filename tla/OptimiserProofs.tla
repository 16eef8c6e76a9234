-------------------------- MODULE OptimiserProofs ---------------------------
(***************************************************************************)
(* Theorems about the optimiser: one run of the solver and the analyses around *)
(* it (SolverRun), for any number of activities, samples, points and       *)
(* evaluations; and the sweep that keeps the frontier of several runs      *)
(* (ParetoSweep), for every set of disciplines and of objective values and *)
(* every number of weight vectors.                                         *)
(***************************************************************************)
EXTENDS SolverRun, ParetoSweep, FiniteSetTheorems, SequenceTheorems, TLAPS

-----------------------------------------------------------------------------
(***************************************************************************)
(* SolverRun.                                                              *)
(***************************************************************************)

InGradients == runStep \in {"gradients", "durations", "counts"}
Value == arrays[params_durations]
Outcome == IF endpoint = "optimize" THEN optimized ELSE At(x0)
PlainVectors == {At(y) : y \in Points}

\* Which arrays may be shared when: the scratch copy is never params.durations,
\* and dag_state.durations only while the durations are perturbed.
SharingInv ==
    /\ params_durations # "scratch"
    /\ saved.dag # "scratch" /\ saved.params # "scratch"
    /\ runStep = "durations" => original # "scratch" /\ arrays[original] = Value
    /\ runStep \notin {"durations", "sample"} =>
           dag_durations # "scratch" /\ arrays[dag_durations] = Value /\ cpm = Value
    /\ runStep # "sample" => Value.bump = 0 /\ resource_counts.point = Value.point
    /\ resource_counts.bump # 0 => runStep = "counts" /\ i <= n

\* Whose vector the durations are, by what is going on.
PhaseInv ==
    /\ runStep \in {"search", "record"} \/ (InGradients /\ back = "record") => endpoint = "optimize"
    /\ runStep = "record" \/ (InGradients /\ back = "record") => Value = At(x)
    /\ runStep = "search" => Value \in PlainVectors
    /\ InGradients /\ back = "ensemble" => endpoint = "sensitivity" /\ Value = At(x0)
    /\ runStep \in {"ensemble", "done"} \/ (InGradients /\ back = "done") => Value = Outcome
    /\ InGradients /\ back = "sample" => Value = [saved.values EXCEPT !.draws = {m - 1}]
    /\ runStep = "sample" \/ (InGradients /\ back = "sample") =>
           saved.values = Outcome /\ resource_counts.point = saved.values.point
    /\ Outcome \in PlainVectors

\* The best point is the best of the evaluated ones, the one under evaluation
\* aside.
BestInv ==
    /\ runStep = "search" => /\ history = {} => best = None /\ Value = At(x0)
                             /\ history # {} => best # None
                             /\ \A y \in history : w_obj[best] <= w_obj[y]
    /\ runStep = "record" \/ (InGradients /\ back = "record") =>
           /\ x \in history
           /\ \A y \in history \ {x} : best # None /\ w_obj[best] <= w_obj[y]

RunInv == RunTypeOK /\ SharingInv /\ PhaseInv /\ BestInv

-----------------------------------------------------------------------------
(* Type correctness. *)

LEMMA PlainFacts ==
    ASSUME NEW y \in Points
    PROVE  /\ At(y) \in Vector /\ At(y) \in PlainVectors
           /\ At(y).bump = 0 /\ At(y).point = y /\ At(y).draws = {}
<1>1. At(y) = [point |-> y, draws |-> {}, bump |-> 0]
  BY DEF At
<1>2. 0 \in 0..n /\ {} \in SUBSET (1..M)
  BY RunAssumption
<1>3. At(y) \in Vector
  BY <1>1, <1>2 DEF Vector
<1>. QED
  BY <1>1, <1>3 DEF PlainVectors

LEMMA TypeInit == RunInit => RunTypeOK
<1>1. At(x0) \in Vector
  BY PlainFacts, RunAssumption
<1>. SUFFICES ASSUME RunInit PROVE RunTypeOK
  OBVIOUS
<1>2. /\ endpoint \in {"sensitivity", "optimize"}
      /\ stochastic \in BOOLEAN /\ resources \in BOOLEAN /\ expensive_fd \in BOOLEAN
      /\ late \in BOOLEAN
  BY DEF RunInit
<1>3. arrays \in [Arrays -> Vector] /\ saved \in [dag : Arrays, params : Arrays, values : Vector]
  BY <1>1 DEF RunInit, Arrays
<1>4. /\ {dag_durations, params_durations, original} \subseteq Arrays
      /\ runStep \in {"search", "gradients"} /\ back = "ensemble"
      /\ best \in history \cup {None}
  BY DEF RunInit, Arrays
<1>5. m \in 1..(M + 1) /\ i \in 1..(n + 1)
  BY RunAssumption DEF RunInit
<1>. QED
  BY <1>1, <1>2, <1>3, <1>4, <1>5, RunAssumption DEF RunInit, RunTypeOK

LEMMA TypeStep == RunInv /\ [RunNext]_runVars => RunTypeOK'
<1>. SUFFICES ASSUME RunTypeOK, SharingInv, BestInv, [RunNext]_runVars PROVE RunTypeOK'
  BY DEF RunInv
<1>. USE RunAssumption
<1>1. CASE DeadlinePasses
  BY <1>1 DEF DeadlinePasses, RunTypeOK, request, ensemble
<1>2. CASE Evaluate
  <2>1. x' \in Points
    BY <1>2 DEF Evaluate, RunTypeOK
  <2>2. At(x') \in Vector
    BY <2>1, PlainFacts
  <2>. QED
    BY <1>2, <2>1, <2>2 DEF Evaluate, unpack, run_cpm, RunTypeOK, request, ensemble
<1>3. CASE Record
  BY <1>3 DEF Record, BestInv, RunTypeOK, request, ensemble
<1>4. CASE Converge
  <2>1. PICK y \in history : unpack(y)
    BY <1>4 DEF Converge
  <2>2. At(y) \in Vector
    BY <2>1, PlainFacts DEF RunTypeOK
  <2>. QED
    BY <1>4, <2>1, <2>2 DEF Converge, unpack, run_cpm, RunTypeOK, request, ensemble
<1>5. CASE Timeout
  <2>1. best # None => At(best) \in Vector
    BY PlainFacts DEF RunTypeOK
  <2>2. arrays' \in [Arrays -> Vector] /\ resource_counts' \in Vector
    BY <1>5, <2>1 DEF Timeout, unpack, RunTypeOK
  <2>. QED
    BY <1>5, <2>2 DEF Timeout, run_cpm, RunTypeOK, request, ensemble
<1>6. CASE Gradients
  <2>1. CASE SkipFiniteDifferences \/ EndCounts
    BY <2>1 DEF SkipFiniteDifferences, EndCounts, RunTypeOK, fd, request, search, ensemble
  <2>2. CASE BeginDurations
    BY <2>2 DEF BeginDurations, RunTypeOK, fd, request, search, ensemble, Arrays
  <2>3. CASE PerturbDuration
    <3>1. i \in 0..n /\ i + 1 \in 1..(n + 1)
      BY <2>3 DEF PerturbDuration, RunTypeOK
    <3>2. arrays' \in [Arrays -> Vector] /\ "scratch" \in Arrays
      BY <2>3, <3>1 DEF PerturbDuration, RunTypeOK, Arrays, Vector
    <3>. QED
      BY <2>3, <3>1, <3>2 DEF PerturbDuration, run_cpm, RunTypeOK, fd, request, search, ensemble
  <2>4. CASE EndDurations
    BY <2>4 DEF EndDurations, run_cpm, RunTypeOK, fd, request, search, ensemble
  <2>5. CASE PerturbCount \/ RestoreCount
    <3>1. resource_counts' \in Vector /\ i' \in 1..(n + 1)
      <4>1. i \in 1..n /\ i \in 0..n /\ 0 \in 0..n /\ i + 1 \in 1..(n + 1)
        BY <2>5 DEF PerturbCount, RestoreCount, RunTypeOK, SharingInv
      <4>. QED
        BY <2>5, <4>1 DEF PerturbCount, RestoreCount, RunTypeOK, Vector
    <3>. QED
      BY <2>5, <3>1 DEF PerturbCount, RestoreCount, RunTypeOK, fd, request, search, ensemble
  <2>. QED
    BY <1>6, <2>1, <2>2, <2>3, <2>4, <2>5 DEF Gradients
<1>7. CASE Ensemble
  BY <1>7 DEF Ensemble, Skip, Save, Sample, Restore, run_cpm, RunTypeOK, fd, request, search,
     ensemble, Arrays, Vector
<1>8. CASE UNCHANGED runVars
  BY <1>8 DEF runVars, RunTypeOK, request, search, ensemble
<1>. QED
  BY <1>1, <1>2, <1>3, <1>4, <1>5, <1>6, <1>7, <1>8 DEF RunNext, RunTurn

-----------------------------------------------------------------------------
(* Each step keeps the rest of the invariant. *)

LEMMA OthersInit == RunInit => SharingInv /\ PhaseInv /\ BestInv
<1>. SUFFICES ASSUME RunInit PROVE SharingInv /\ PhaseInv /\ BestInv
  OBVIOUS
<1>1. /\ At(x0) \in PlainVectors /\ At(x0).bump = 0 /\ At(x0).point = x0
      /\ Value = At(x0) /\ arrays[dag_durations] = At(x0) /\ Outcome = At(x0)
  BY PlainFacts, RunAssumption DEF RunInit, Arrays, Value, Outcome
<1>. QED
  BY <1>1, PlainFacts DEF RunInit, SharingInv, PhaseInv, BestInv, InGradients

LEMMA EvaluateKeeps == RunInv /\ Evaluate => SharingInv' /\ PhaseInv' /\ BestInv'
<1>. SUFFICES ASSUME RunInv, Evaluate PROVE SharingInv' /\ PhaseInv' /\ BestInv'
  OBVIOUS
<1>1. /\ runStep = "search" /\ runStep' = "gradients" /\ back' = "record" /\ params_durations' = params_durations
      /\ history' = history \cup {x'} /\ saved' = saved /\ best' = best /\ m' = m
      /\ arrays' = [arrays EXCEPT ![params_durations] = At(x')]
      /\ resource_counts' = At(x') /\ dag_durations' = params_durations
      /\ cpm' = arrays'[params_durations]
      /\ endpoint' = endpoint /\ optimized' = optimized
  BY DEF Evaluate, unpack, run_cpm, request, ensemble
<1>2. x' \in Points /\ params_durations \in Arrays /\ arrays \in [Arrays -> Vector]
  BY RunAssumption DEF Evaluate, RunInv, RunTypeOK
<1>3. Value' = At(x') /\ Outcome' = Outcome /\ endpoint = "optimize"
  BY <1>1, <1>2 DEF Value, Outcome, RunInv, PhaseInv
<1>4. At(x').bump = 0 /\ At(x').point = x'
  BY <1>2, PlainFacts
<1>5. SharingInv'
  BY <1>1, <1>2, <1>3, <1>4 DEF RunInv, SharingInv, Value
<1>6. PhaseInv'
  BY <1>1, <1>3 DEF RunInv, PhaseInv, InGradients, PlainVectors
<1>7. BestInv'
  BY <1>1 DEF RunInv, BestInv, InGradients
<1>. QED
  BY <1>5, <1>6, <1>7

LEMMA RecordKeeps == RunInv /\ Record => SharingInv' /\ PhaseInv' /\ BestInv'
<1>. SUFFICES ASSUME RunInv, Record PROVE SharingInv' /\ PhaseInv' /\ BestInv'
  OBVIOUS
<1>1. /\ runStep = "record" /\ runStep' = "search" /\ best' = IF Better(x) THEN x ELSE best
      /\ history' = history /\ x' = x /\ x \in history
      /\ endpoint' = endpoint /\ optimized' = optimized /\ arrays' = arrays
      /\ params_durations' = params_durations /\ dag_durations' = dag_durations
      /\ resource_counts' = resource_counts /\ cpm' = cpm /\ saved' = saved
  BY DEF Record, request, ensemble, RunInv, BestInv
<1>2. Value' = Value /\ Outcome' = Outcome /\ Value = At(x) /\ x \in Points
  BY <1>1 DEF Value, Outcome, RunInv, PhaseInv, RunTypeOK
<1>3. SharingInv'
  BY <1>1, <1>2 DEF RunInv, SharingInv
<1>4. PhaseInv'
  BY <1>1, <1>2, PlainFacts DEF RunInv, PhaseInv, InGradients, PlainVectors
<1>5. BestInv'
  <2>1. \A y \in history : y \in Points /\ w_obj[y] \in Int
    BY RunAssumption DEF RunInv, RunTypeOK
  <2>2. x # None /\ (best # None => best \in history)
    BY <1>2, RunAssumption DEF None, RunInv, RunTypeOK
  <2>3. \A y \in history \ {x} : best # None /\ w_obj[best] <= w_obj[y]
    BY <1>1 DEF RunInv, BestInv
  <2>4. \A y \in history : w_obj[best'] <= w_obj[y]
    BY <1>1, <2>1, <2>2, <2>3 DEF Better
  <2>5. best' # None
    BY <1>1, <2>2 DEF Better
  <2>. QED
    BY <1>1, <2>4, <2>5 DEF BestInv
<1>. QED
  BY <1>3, <1>4, <1>5

\* The search ends, by itself or by the deadline, at a plain point y.
LEMMA EndsAt ==
    ASSUME RunInv, runStep = "search", NEW y \in Points,
           arrays' = [arrays EXCEPT ![params_durations] = At(y)],
           resource_counts'.point = y, resource_counts'.bump = 0,
           optimized' = arrays'[params_durations],
           run_cpm(params_durations), runStep' = "ensemble",
           UNCHANGED <<request, params_durations, saved>>
    PROVE  SharingInv' /\ PhaseInv' /\ BestInv'
<1>1. params_durations \in Arrays /\ arrays \in [Arrays -> Vector]
  BY DEF RunInv, RunTypeOK
<1>2. Value' = At(y) /\ Outcome' = At(y) /\ endpoint' = "optimize"
  BY <1>1 DEF Value, Outcome, RunInv, PhaseInv, request
<1>3. At(y).bump = 0 /\ At(y).point = y /\ At(y) \in PlainVectors
  BY PlainFacts
<1>4. SharingInv'
  BY <1>1, <1>2, <1>3 DEF RunInv, SharingInv, run_cpm, Value
<1>. QED
  BY <1>2, <1>3, <1>4 DEF PhaseInv, BestInv, InGradients, PlainVectors

LEMMA ConvergeKeeps == RunInv /\ Converge => SharingInv' /\ PhaseInv' /\ BestInv'
<1>. SUFFICES ASSUME RunInv, Converge PROVE SharingInv' /\ PhaseInv' /\ BestInv'
  OBVIOUS
<1>1. PICK y \in history : unpack(y)
  BY DEF Converge
<1>2. y \in Points /\ At(y).point = y /\ At(y).bump = 0
  BY PlainFacts DEF RunInv, RunTypeOK
<1>3. /\ runStep = "search" /\ runStep' = "ensemble" /\ optimized' = arrays'[params_durations]
      /\ run_cpm(params_durations) /\ UNCHANGED <<request, params_durations, saved>>
  BY DEF Converge, ensemble
<1>. QED
  BY <1>1, <1>2, <1>3, EndsAt DEF unpack

\* The point at which a run that the deadline ends is left.
LEMMA TimeoutLands ==
    ASSUME RunInv, Timeout
    PROVE  \E y \in Points :
              /\ arrays' = [arrays EXCEPT ![params_durations] = At(y)]
              /\ resource_counts'.point = y /\ resource_counts'.bump = 0
              /\ history = {} => y = x0
              /\ \A z \in history : w_obj[y] <= w_obj[z]
<1>1. /\ runStep = "search" /\ Value \in PlainVectors
      /\ resource_counts.point = Value.point /\ resource_counts.bump = 0
  BY DEF Timeout, RunInv, PhaseInv, SharingInv
<1>2. CASE best = None
  <2>1. history = {} /\ Value = At(x0) /\ x0 \in Points
    BY <1>1, <1>2, RunAssumption DEF RunInv, BestInv
  <2>2. arrays' = arrays /\ resource_counts' = resource_counts
    BY <1>2 DEF Timeout
  <2>3. arrays = [arrays EXCEPT ![params_durations] = At(x0)]
    BY <2>1 DEF Value, RunInv, RunTypeOK
  <2>4. At(x0).point = x0
    BY <2>1, PlainFacts
  <2>. QED
    BY <1>1, <2>1, <2>2, <2>3, <2>4
<1>3. CASE best # None
  <2>1. best \in history /\ best \in Points /\ history # {}
    BY <1>3 DEF RunInv, RunTypeOK
  <2>2. arrays' = [arrays EXCEPT ![params_durations] = At(best)] /\ resource_counts' = At(best)
    BY <1>3 DEF Timeout, unpack
  <2>3. At(best).point = best /\ At(best).bump = 0
    BY <2>1, PlainFacts
  <2>4. \A z \in history : w_obj[best] <= w_obj[z]
    BY <1>1 DEF RunInv, BestInv
  <2>. QED
    BY <2>1, <2>2, <2>3, <2>4
<1>. QED
  BY <1>2, <1>3

LEMMA TimeoutKeeps == RunInv /\ Timeout => SharingInv' /\ PhaseInv' /\ BestInv'
<1>. SUFFICES ASSUME RunInv, Timeout PROVE SharingInv' /\ PhaseInv' /\ BestInv'
  OBVIOUS
<1>1. PICK y \in Points : /\ arrays' = [arrays EXCEPT ![params_durations] = At(y)]
                          /\ resource_counts'.point = y /\ resource_counts'.bump = 0
  BY TimeoutLands
<1>2. /\ runStep = "search" /\ runStep' = "ensemble" /\ optimized' = arrays'[params_durations]
      /\ run_cpm(params_durations) /\ UNCHANGED <<request, params_durations, saved>>
  BY DEF Timeout, ensemble
<1>. QED
  BY <1>1, <1>2, EndsAt

\* Within compute_gradients, and as it returns, the durations and what they
\* belong to stay.
LEMMA GradientsKeepPhase ==
    ASSUME RunInv, InGradients, InGradients' \/ runStep' = back, Value' = Value,
           resource_counts'.point = resource_counts.point,
           UNCHANGED <<request, search, ensemble, back>>
    PROVE  PhaseInv' /\ BestInv'
<1>1. /\ endpoint' = endpoint /\ x' = x /\ history' = history /\ best' = best
      /\ optimized' = optimized /\ saved' = saved /\ m' = m /\ back' = back
  BY DEF request, search, ensemble
<1>2. Outcome' = Outcome
  BY <1>1 DEF Outcome
<1>3. back \in {"record", "ensemble", "sample", "done"}
  BY DEF RunInv, RunTypeOK
<1>4. PhaseInv'
  BY <1>1, <1>2, <1>3 DEF RunInv, PhaseInv, InGradients, Outcome
<1>5. BestInv'
  BY <1>1, <1>3 DEF RunInv, BestInv, InGradients
<1>. QED
  BY <1>4, <1>5

LEMMA GradientsKeep == RunInv /\ Gradients => SharingInv' /\ PhaseInv' /\ BestInv'
<1>. SUFFICES ASSUME RunInv, Gradients PROVE SharingInv' /\ PhaseInv' /\ BestInv'
  OBVIOUS
<1>1. /\ UNCHANGED <<request, search, ensemble, back>> /\ params_durations' = params_durations
      /\ saved' = saved
  BY DEF Gradients, SkipFiniteDifferences, BeginDurations, PerturbDuration, EndDurations,
     PerturbCount, RestoreCount, EndCounts, fd, ensemble
<1>2. /\ params_durations \in Arrays \ {"scratch"} /\ dag_durations \in Arrays
      /\ original \in Arrays /\ arrays \in [Arrays -> Vector] /\ i \in 1..(n + 1)
      /\ back \in {"record", "ensemble", "sample", "done"} /\ n \in Nat
  BY RunAssumption DEF RunInv, RunTypeOK, SharingInv
<1>3. resource_counts \in [point : Points, draws : SUBSET (1..M), bump : 0..n]
  BY DEF RunInv, RunTypeOK, Vector
<1>4. InGradients /\ (InGradients' \/ runStep' = back) /\ Value' = Value
      /\ resource_counts'.point = resource_counts.point
  BY <1>1, <1>2, <1>3 DEF Gradients, SkipFiniteDifferences, BeginDurations, PerturbDuration,
     EndDurations, PerturbCount, RestoreCount, EndCounts, run_cpm, InGradients, Value
<1>5. PhaseInv' /\ BestInv'
  BY <1>1, <1>4, GradientsKeepPhase
<1>6. SharingInv'
  <2>1. CASE SkipFiniteDifferences \/ EndCounts
    BY <2>1, <1>1, <1>2, <1>4 DEF SkipFiniteDifferences, EndCounts, RunInv, SharingInv
  <2>2. CASE BeginDurations
    BY <2>2, <1>1, <1>2, <1>4 DEF BeginDurations, RunInv, SharingInv
  <2>3. CASE PerturbDuration
    BY <2>3, <1>1, <1>2, <1>4 DEF PerturbDuration, run_cpm, RunInv, SharingInv
  <2>4. CASE EndDurations
    BY <2>4, <1>1, <1>2, <1>4 DEF EndDurations, run_cpm, RunInv, SharingInv
  <2>5. CASE PerturbCount \/ RestoreCount
    BY <2>5, <1>1, <1>2, <1>3, <1>4 DEF PerturbCount, RestoreCount, RunInv, SharingInv
  <2>. QED
    BY <2>1, <2>2, <2>3, <2>4, <2>5 DEF Gradients
<1>. QED
  BY <1>5, <1>6

\* Samples and the finite differences between them write neither the values
\* to restore nor what the search has found.
LEMMA EnsembleKeeps == RunInv /\ Ensemble => SharingInv' /\ PhaseInv' /\ BestInv'
<1>. SUFFICES ASSUME RunInv, Ensemble PROVE SharingInv' /\ PhaseInv' /\ BestInv'
  OBVIOUS
<1>1. /\ params_durations \in Arrays /\ dag_durations \in Arrays /\ arrays \in [Arrays -> Vector]
      /\ saved \in [dag : Arrays, params : Arrays, values : Vector]
      /\ "perturbed" \in Arrays /\ m \in 1..(M + 1) /\ M \in Nat
  BY RunAssumption DEF RunInv, RunTypeOK, Arrays
<1>2. /\ endpoint' = endpoint /\ optimized' = optimized /\ x' = x /\ history' = history
      /\ best' = best /\ resource_counts' = resource_counts
  BY DEF Ensemble, Skip, Save, Sample, Restore, fd, request, search
<1>3. Outcome' = Outcome /\ Outcome \in PlainVectors
  BY <1>2 DEF Outcome, RunInv, PhaseInv
<1>4. \A v \in PlainVectors : v.bump = 0 /\ v.draws = {}
  BY PlainFacts DEF PlainVectors
<1>5. CASE Skip
  <2>1. runStep = "ensemble" /\ runStep' = "done" /\ UNCHANGED <<arrays, params_durations, dag_durations, cpm, saved>>
    BY <1>5 DEF Skip, fd, ensemble
  <2>. QED
    BY <2>1, <1>2, <1>3 DEF RunInv, SharingInv, PhaseInv, BestInv, Value, InGradients
<1>6. CASE Save
  <2>1. /\ runStep = "ensemble" /\ runStep' = "sample" /\ UNCHANGED <<arrays, params_durations, dag_durations, cpm>>
        /\ saved'.dag = dag_durations /\ saved'.params = params_durations
        /\ saved'.values = arrays[dag_durations]
    BY <1>6 DEF Save
  <2>2. Value = Outcome /\ arrays[dag_durations] = Value /\ resource_counts.point = Value.point
    BY <2>1 DEF RunInv, SharingInv, PhaseInv
  <2>. QED
    BY <2>1, <2>2, <1>2, <1>3 DEF RunInv, SharingInv, PhaseInv, BestInv, Value, InGradients
<1>7. CASE Sample
  <2>1. /\ runStep = "sample" /\ runStep' = "gradients" /\ back' = "sample" /\ saved' = saved /\ m' = m + 1
        /\ params_durations' = "perturbed" /\ dag_durations' = "perturbed"
        /\ cpm' = arrays'["perturbed"]
        /\ arrays'["perturbed"] = [saved.values EXCEPT !.draws = @ \cup {m}]
    BY <1>7, <1>1 DEF Sample, run_cpm
  <2>2. /\ saved.values = Outcome /\ resource_counts.point = saved.values.point
        /\ resource_counts.bump = 0
    BY <2>1 DEF RunInv, PhaseInv, SharingInv
  <2>3. /\ saved.values \in Vector /\ saved.values.bump = 0 /\ saved.values.draws = {}
    BY <2>2, <1>1, <1>3, <1>4
  <2>4. Value' = [saved.values EXCEPT !.draws = {m' - 1}]
    <3>1. m' - 1 = m
      BY <2>1, <1>1
    <3>2. [saved.values EXCEPT !.draws = @ \cup {m}] = [saved.values EXCEPT !.draws = {m}]
      <4>1. saved.values.draws \cup {m} = {m}
        BY <2>3
      <4>. QED
        BY <4>1
    <3>3. Value' = arrays'["perturbed"]
      BY <2>1 DEF Value
    <3>. QED
      BY <2>1, <3>1, <3>2, <3>3
  <2>5. Value'.bump = 0 /\ Value'.point = saved.values.point
    BY <2>3, <2>4 DEF Vector
  <2>6. SharingInv'
    BY <2>1, <2>2, <2>5, <1>2 DEF RunInv, SharingInv, Value
  <2>. QED
    BY <2>1, <2>2, <2>4, <2>6, <1>2, <1>3 DEF PhaseInv, BestInv, InGradients
<1>8. CASE Restore
  <2>1. /\ runStep = "sample" /\ runStep' \in {"gradients", "done"} /\ back' = "done" /\ saved' = saved
        /\ params_durations' = saved.params /\ dag_durations' = saved.dag
        /\ cpm' = arrays'[saved.dag]
        /\ arrays'[saved.dag] = saved.values /\ arrays'[saved.params] = saved.values
    BY <1>8, <1>1 DEF Restore, run_cpm, ensemble
  <2>2. /\ saved.values = Outcome /\ resource_counts.point = saved.values.point
        /\ resource_counts.bump = 0
    BY <2>1 DEF RunInv, PhaseInv, SharingInv
  <2>3. Value' = Outcome /\ Outcome.bump = 0
    BY <2>1, <2>2, <1>3, <1>4 DEF Value
  <2>4. SharingInv'
    BY <2>1, <2>2, <2>3, <1>2 DEF RunInv, SharingInv, Value
  <2>. QED
    BY <2>1, <2>2, <2>3, <2>4, <1>2, <1>3 DEF PhaseInv, BestInv, InGradients
<1>. QED
  BY <1>5, <1>6, <1>7, <1>8 DEF Ensemble

LEMMA NothingElseKeeps ==
    RunInv /\ (DeadlinePasses \/ UNCHANGED runVars) => SharingInv' /\ PhaseInv' /\ BestInv'
<1>. SUFFICES ASSUME RunInv, DeadlinePasses \/ UNCHANGED runVars
              PROVE  SharingInv' /\ PhaseInv' /\ BestInv'
  OBVIOUS
<1>1. UNCHANGED <<endpoint, arrays, dag_durations, params_durations, resource_counts, cpm, x,
                  history, best, optimized, original, saved, m, i, runStep, back>>
  BY DEF DeadlinePasses, runVars, request, search, ensemble
<1>2. UNCHANGED <<Value, Outcome, InGradients>>
  BY <1>1 DEF Value, Outcome, InGradients
<1>. QED
  BY <1>1, <1>2 DEF RunInv, SharingInv, PhaseInv, BestInv

-----------------------------------------------------------------------------
(* The theorems. *)

\* The invariant behind all the others: which arrays are shared when, whose
\* vector they hold in each phase, and what the best point is the best of.
THEOREM RunInvariance == RunSpec => []RunInv
<1>1. RunInit => RunInv
  BY TypeInit, OthersInit DEF RunInv
<1>2. RunInv /\ [RunNext]_runVars => RunInv'
  BY TypeStep, EvaluateKeeps, RecordKeeps, ConvergeKeeps, TimeoutKeeps, GradientsKeep,
     EnsembleKeeps, NothingElseKeeps DEF RunInv, RunNext, RunTurn
<1>. QED
  BY <1>1, <1>2, PTL DEF RunSpec

\* Type correctness of a run of the solver.
THEOREM RunTypeCorrect == RunSpec => []RunTypeOK
<1>1. RunInv => RunTypeOK
  BY DEF RunInv
<1>. QED
  BY <1>1, RunInvariance, PTL

\* Objectives and penalties are always read from dates, durations and counts
\* of one and the same point or sample, whatever compute_gradients perturbed.
THEOREM AtOnePoint == RunSpec => []EvaluatedAtOnePoint
<1>1. RunInv => EvaluatedAtOnePoint
  <2>. SUFFICES ASSUME RunInv PROVE EvaluatedAtOnePoint
    OBVIOUS
  <2>1. runStep \in {"search", "gradients", "record", "ensemble", "done"} => Clean
    BY DEF RunInv, SharingInv, Value, Clean
  <2>2. runStep = "record" => cpm = At(x)
    BY DEF RunInv, SharingInv, PhaseInv, Value
  <2>. QED
    BY <2>1, <2>2 DEF EvaluatedAtOnePoint
<1>. QED
  BY <1>1, RunInvariance, PTL

\* Every sample of run_ensemble perturbs the values it was called with.
THEOREM Independent == RunSpec => []SamplesIndependent
<1>1. RunInv => SamplesIndependent
  BY DEF RunInv, SharingInv, PhaseInv, SamplesIndependent, InGradients
<1>. QED
  BY <1>1, RunInvariance, PTL

\* At the end the state is what optimize found, or the baseline: neither the
\* ensemble nor the finite differences have left a trace.
THEOREM Optimum == RunSpec => []ReportsTheOptimum
<1>1. RunInv => ReportsTheOptimum
  BY DEF RunInv, SharingInv, PhaseInv, ReportsTheOptimum, Clean, Value, Outcome
<1>. QED
  BY <1>1, RunInvariance, PTL

\* A search that the deadline ends is left at the best of its points.
THEOREM BestKept == RunSpec => TimeoutKeepsTheBest
<1>. DEFINE Kept == Timeout => /\ history = {} => cpm' = At(x0)
                              /\ \A y \in history : w_obj[cpm'.point] <= w_obj[y]
<1>1. RunInv /\ [RunNext]_runVars => [Kept]_runVars
  <2>. SUFFICES ASSUME RunInv, Timeout PROVE Kept
    OBVIOUS
  <2>1. PICK y \in Points : /\ arrays' = [arrays EXCEPT ![params_durations] = At(y)]
                            /\ history = {} => y = x0
                            /\ \A z \in history : w_obj[y] <= w_obj[z]
    BY TimeoutLands
  <2>2. cpm' = At(y) /\ At(y).point = y
    BY <2>1, PlainFacts DEF Timeout, run_cpm, RunInv, RunTypeOK
  <2>. QED
    BY <2>1, <2>2
<1>. QED
  BY <1>1, RunInvariance, PTL DEF RunSpec, TimeoutKeepsTheBest

\* Nothing of one point, sample or perturbation leaks into what is read or
\* reported for another.
THEOREM NothingLeaks == RunSpec => []StateIsOfOnePoint
<1>1. EvaluatedAtOnePoint /\ SamplesIndependent /\ ReportsTheOptimum => StateIsOfOnePoint
  BY DEF StateIsOfOnePoint
<1>. QED
  BY <1>1, AtOnePoint, Independent, Optimum, PTL

-----------------------------------------------------------------------------
(***************************************************************************)
(* ParetoSweep.                                                            *)
(***************************************************************************)

\* newly_dominated is domination, and domination is a strict order.
LEMMA NewlyDominated ==
    ASSUME NEW a \in 1..found, all_solutions \in Seq(Objectives)
    PROVE  newly_dominated(a) = {b \in 1..found : Dominates(a, b)}
<1>1. all_solutions[a] \in [disciplines -> Int]
  BY ElementOfSeq, SweepAssumption DEF found
<1>2. ~Dominates(a, a)
  BY <1>1 DEF Dominates
<1>. QED
  BY <1>2 DEF newly_dominated, Dominates

LEMMA DominatesTransitive ==
    ASSUME NEW a \in 1..found, NEW b \in 1..found, NEW c \in 1..found,
           all_solutions \in Seq(Objectives), Dominates(a, b), Dominates(b, c)
    PROVE  Dominates(a, c)
<1>1. /\ all_solutions[a] \in [disciplines -> Int]
      /\ all_solutions[b] \in [disciplines -> Int]
      /\ all_solutions[c] \in [disciplines -> Int]
  BY ElementOfSeq, SweepAssumption DEF found
<1>2. ASSUME NEW d \in disciplines PROVE all_solutions[a][d] <= all_solutions[c][d]
  BY <1>1 DEF Dominates
<1>3. PICK d \in disciplines : all_solutions[a][d] < all_solutions[b][d]
  BY DEF Dominates
<1>4. all_solutions[a][d] < all_solutions[c][d]
  BY <1>1, <1>3 DEF Dominates
<1>. QED
  BY <1>2, <1>4 DEF Dominates

LEMMA DominatesIrreflexive ==
    ASSUME NEW a \in 1..found, all_solutions \in Seq(Objectives)
    PROVE  ~Dominates(a, a)
BY ElementOfSeq, SweepAssumption DEF found, Dominates

-----------------------------------------------------------------------------
(* The inductive invariant of the filter: every marked solution is dominated  *)
(* by an unmarked one, and every compared solution is marked or has marked    *)
(* everything it dominates.                                                   *)

Witnessed == \A b \in dominated : \E a \in (1..found) \ dominated : Dominates(a, b)
Compared == \A a \in 1..(compared - 1) : a \in dominated \/
                \A b \in 1..found : Dominates(a, b) => b \in dominated

SweepInv ==
    /\ SweepTypeOK
    /\ sweepStep \in {"utopia", "sweep"} => dominated = {} /\ compared = 1
    /\ Witnessed /\ Compared
    /\ sweepStep = "done" => compared > found

LEMMA LengthNat == SweepTypeOK => found \in Nat
BY LenProperties DEF SweepTypeOK, found

LEMMA CompareKeeps == SweepInv /\ Compare => SweepInv'
<1>. SUFFICES ASSUME SweepInv, Compare PROVE SweepInv'
  OBVIOUS
<1>1. /\ sweepStep = "filter" /\ sweepStep' = sweepStep /\ compared <= found /\ compared' = compared + 1
      /\ utopia' = utopia /\ round_late' = round_late /\ all_solutions' = all_solutions
      /\ dominated' = IF compared \in dominated THEN dominated ELSE dominated \cup newly_dominated(compared)
  BY DEF Compare
<1>2. /\ SweepTypeOK /\ found \in Nat /\ found' = found /\ compared \in 1..found /\ dominated \subseteq 1..found
      /\ all_solutions \in Seq(Objectives)
  BY <1>1, LengthNat DEF SweepInv, SweepTypeOK, found
<1>3. newly_dominated(compared) = {b \in 1..found : Dominates(compared, b)}
  BY <1>2, NewlyDominated
<1>4. \A a, b : Dominates(a, b)' <=> Dominates(a, b)
  BY <1>1 DEF Dominates
<1>5. dominated \subseteq dominated' /\ dominated' \subseteq 1..found
  BY <1>1, <1>2, <1>3
<1>6. SweepTypeOK'
  BY <1>1, <1>2, <1>5 DEF SweepTypeOK
<1>7. Witnessed'
  <2>1. CASE compared \in dominated
    BY <1>1, <1>2, <1>4, <2>1 DEF SweepInv, Witnessed
  <2>2. CASE compared \notin dominated
    <3>1. dominated' = dominated \cup {b \in 1..found : Dominates(compared, b)}
      BY <1>1, <1>3, <2>2
    <3>2. compared \in (1..found) \ dominated'
      BY <1>2, <2>2, <3>1, DominatesIrreflexive
    <3>3. ASSUME NEW b \in dominated' PROVE \E a \in (1..found) \ dominated' : Dominates(a, b)
      <4>1. CASE Dominates(compared, b)
        BY <3>2, <4>1
      <4>2. CASE ~Dominates(compared, b)
        <5>1. PICK a \in (1..found) \ dominated : Dominates(a, b)
          BY <3>1, <4>2 DEF SweepInv, Witnessed
        <5>2. a \notin dominated'
          BY <1>2, <1>5, <3>1, <4>2, <5>1, DominatesTransitive
        <5>. QED
          BY <5>1, <5>2
      <4>. QED
        BY <4>1, <4>2
    <3>. QED
      BY <1>2, <1>4, <3>3 DEF Witnessed
  <2>. QED
    BY <2>1, <2>2
<1>8. Compared'
  <2>. SUFFICES ASSUME NEW a \in 1..compared, a \notin dominated',
                       NEW b \in 1..found, Dominates(a, b)
                PROVE  b \in dominated'
    BY <1>1, <1>2, <1>4 DEF Compared
  <2>1. CASE a = compared
    BY <1>1, <1>3, <1>5, <2>1
  <2>2. CASE a # compared
    <3>1. a \in 1..(compared - 1)
      BY <1>2, <2>2
    <3>. QED
      BY <1>5, <3>1 DEF SweepInv, Compared
  <2>. QED
    BY <2>1, <2>2
<1>. QED
  BY <1>1, <1>6, <1>7, <1>8 DEF SweepInv

\* The steps before the filter leave nothing marked.
LEMMA SweepKeeps ==
    SweepInv /\ (SweepDeadlinePasses \/ EstimateUtopia \/ BeginSweep \/ Optimise \/ EndSweep) => SweepInv'
<1>. SUFFICES ASSUME SweepInv, SweepDeadlinePasses \/ EstimateUtopia \/ BeginSweep \/ Optimise \/ EndSweep
              PROVE  SweepInv'
  OBVIOUS
<1>1. /\ sweepStep \in {"utopia", "sweep"} /\ sweepStep' \in {"utopia", "sweep", "filter"}
      /\ dominated' = dominated /\ compared' = compared /\ dominated = {} /\ compared = 1
  BY DEF SweepInv, SweepDeadlinePasses, EstimateUtopia, BeginSweep, Optimise, EndSweep
<1>2. SweepTypeOK /\ found \in Nat /\ all_solutions \in Seq(Objectives)
  BY LengthNat DEF SweepInv, SweepTypeOK
<1>3. /\ utopia' \subseteq disciplines /\ round_late' \in BOOLEAN
      /\ all_solutions' \in Seq(Objectives) /\ found' <= weight_vectors /\ found' \in Nat
  <2>1. CASE Optimise
    <3>1. PICK o \in Objectives : all_solutions' = Append(all_solutions, o)
      BY <2>1 DEF Optimise
    <3>2. found' = found + 1 /\ all_solutions' \in Seq(Objectives)
      BY <1>2, <3>1, AppendProperties DEF found
    <3>. QED
      BY <1>2, <2>1, <3>2, SweepAssumption DEF Optimise, SweepTypeOK
  <2>2. CASE ~Optimise
    <3>1. all_solutions' = all_solutions /\ found' = found
      BY <2>2 DEF SweepDeadlinePasses, EstimateUtopia, BeginSweep, EndSweep, found
    <3>2. utopia' \subseteq disciplines /\ round_late' \in BOOLEAN
      BY <1>2, <2>2 DEF SweepDeadlinePasses, EstimateUtopia, BeginSweep, EndSweep, SweepTypeOK
    <3>. QED
      BY <1>2, <3>1, <3>2 DEF SweepTypeOK
  <2>. QED
    BY <2>1, <2>2
<1>4. SweepTypeOK'
  <2>1. dominated' \subseteq 1..found' /\ compared' \in 1..(found' + 1)
    <3>1. dominated' = {} /\ compared' = 1
      BY <1>1
    <3>2. found' \in Nat
      BY <1>3
    <3>3. \A k \in Nat : 1 \in 1..(k + 1)
      OBVIOUS
    <3>4. compared' \in 1..(found' + 1)
      BY <3>1, <3>2, <3>3
    <3>5. dominated' \subseteq 1..found'
      BY <3>1
    <3>. QED
      BY <3>4, <3>5
  <2>2. sweepStep' \in {"utopia", "sweep", "filter", "done"}
    BY <1>1
  <2>. QED
    BY <1>3, <2>1, <2>2 DEF SweepTypeOK
<1>5. Witnessed' /\ Compared'
  BY <1>1 DEF Witnessed, Compared
<1>. QED
  BY <1>1, <1>4, <1>5 DEF SweepInv

\* The invariant holds of every run of run_pareto.
THEOREM SweepInvariance == SweepSpec => []SweepInv
<1>1. SweepInit => SweepInv
  <2>. SUFFICES ASSUME SweepInit PROVE SweepInv
    OBVIOUS
  <2>1. found = 0 /\ all_solutions \in Seq(Objectives)
    BY DEF SweepInit, found
  <2>2. dominated = {} /\ compared = 1 /\ compared \in 1..(found + 1) /\ 1..(compared - 1) = {}
    BY <2>1 DEF SweepInit
  <2>3. SweepTypeOK
    <3>1. dominated \subseteq 1..found
      BY <2>2
    <3>2. found <= weight_vectors
      BY <2>1, SweepAssumption
    <3>3. utopia \subseteq disciplines
      BY DEF SweepInit
    <3>. QED
      BY <2>1, <2>2, <3>1, <3>2, <3>3 DEF SweepInit, SweepTypeOK
  <2>4. Witnessed /\ Compared
    BY <2>2 DEF Witnessed, Compared
  <2>. QED
    BY <2>2, <2>3, <2>4 DEF SweepInit, SweepInv
<1>2. SweepInv /\ Return => SweepInv'
  <2>. SUFFICES ASSUME SweepInv, Return PROVE SweepInv'
    OBVIOUS
  <2>1. /\ utopia' = utopia /\ round_late' = round_late /\ all_solutions' = all_solutions
        /\ dominated' = dominated /\ compared' = compared /\ compared > found /\ sweepStep' = "done" /\ found' = found
    BY DEF Return, found
  <2>2. \A a, b : Dominates(a, b)' <=> Dominates(a, b)
    BY <2>1 DEF Dominates
  <2>. QED
    BY <2>1, <2>2 DEF SweepInv, SweepTypeOK, Witnessed, Compared
<1>3. SweepInv /\ UNCHANGED sweepVars => SweepInv'
  BY DEF SweepInv, SweepTypeOK, Witnessed, Compared, Dominates, sweepVars, found
<1>4. SweepInv /\ [SweepNext]_sweepVars => SweepInv'
  BY <1>2, <1>3, CompareKeeps, SweepKeeps DEF SweepNext, SweepTurn
<1>. QED
  BY <1>1, <1>4, PTL DEF SweepSpec

\* run_pareto keeps its types: no mark and no index outside the solutions.
THEOREM SweepTypeCorrect == SweepSpec => []SweepTypeOK
  BY SweepInvariance, PTL DEF SweepInv

\* The skipping loop of filter_pareto_front computes the non-dominated
\* solutions, whatever the objective values are.
THEOREM FrontierIsExact == SweepSpec => []FrontierExact
<1>1. SweepInv => FrontierExact
  <2>. SUFFICES ASSUME SweepInv, sweepStep = "done"
                PROVE  frontier = {b \in 1..found : ~\E a \in 1..found : Dominates(a, b)}
    BY DEF FrontierExact
  <2>1. found \in Nat /\ compared > found /\ compared \in Nat /\ dominated \subseteq 1..found
        /\ all_solutions \in Seq(Objectives)
    BY LengthNat DEF SweepInv, SweepTypeOK
  <2>2. \A a \in 1..found : a \in 1..(compared - 1)
    BY <2>1
  <2>3. ASSUME NEW b \in frontier, NEW a \in 1..found PROVE ~Dominates(a, b)
    <3>. SUFFICES ASSUME Dominates(a, b) PROVE FALSE
      OBVIOUS
    <3>1. \A c \in (1..found) \ dominated : ~Dominates(c, b)
      BY <2>2, <2>3 DEF SweepInv, Compared, frontier
    <3>2. PICK c \in (1..found) \ dominated : Dominates(c, a)
      BY <3>1 DEF SweepInv, Witnessed
    <3>. QED
      BY <2>1, <3>1, <3>2, DominatesTransitive DEF frontier
  <2>4. ASSUME NEW b \in dominated PROVE \E a \in 1..found : Dominates(a, b)
    BY DEF SweepInv, Witnessed
  <2>. QED
    BY <2>1, <2>3, <2>4 DEF frontier
<1>. QED
  BY <1>1, SweepInvariance, PTL

\* Every solution left out is dominated by one that is shown.
THEOREM FrontierCoversAll == SweepSpec => []FrontierCovers
<1>1. SweepInv => FrontierCovers
  BY DEF SweepInv, Witnessed, FrontierCovers, frontier
<1>. QED
  BY <1>1, SweepInvariance, PTL
=============================================================================
