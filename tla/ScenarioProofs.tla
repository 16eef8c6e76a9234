--------------------------- MODULE ScenarioProofs ---------------------------
(***************************************************************************)
(* What is proved of the scenario optimisation of the page: of the genetic   *)
(* searches that every allocation they breed gives something to every        *)
(* activity it names, and names only those that may be given more; of the    *)
(* simulator that its results are those of one run, whoever started it.      *)
(***************************************************************************)
EXTENDS ScenarioSearch, MonteCarlo, SequenceTheorems, NaturalsInduction, WellFoundedInduction, TLAPS

-----------------------------------------------------------------------------
(* The searches.  An allocation gives at least one resource to each of its     *)
(* activities; those of a population, of what was evaluated of it and the best *)
(* so far are allocations.                                                     *)
Allocation(a) == \A i \in DOMAIN a : a[i] \in Nat \ {0} /\ i \in MayBeGiven \cup Sensitive
Kept == population \cup {best[k].solution : k \in DOMAIN best} \cup {e.solution : e \in evaluations}
SearchInv == \A a \in Kept : Allocation(a)

LEMMA Optimisable == Optimizable \subseteq MayBeGiven
BY DEF Optimizable, MayBeGiven

LEMMA AllocationsAre ==
    ASSUME NEW S, S \subseteq MayBeGiven \cup Sensitive, NEW most, NEW a \in AllocationsOf(S, most)
    PROVE  Allocation(a)
<1>1. PICK D \in SUBSET S : a \in [D -> 1..most]
  BY DEF AllocationsOf
<1>2. \A i \in 1..most : i \in Nat \ {0}
  OBVIOUS
<1>. QED
  BY <1>1, <1>2 DEF Allocation

\* Every seed is an allocation, those of the insights for the sensitive activities.
LEMMA SeedsAre ==
    ASSUME NEW drawn \in generateInitialPopulation, NEW a \in drawn
    PROVE  Allocation(a)
<1>1. PICK d \in [1..PopulationSize -> criticalSeeds \cup multiPathSeeds \cup highRiskSeeds \cup randomSeeds \cup insightSeeds] :
         drawn = {d[k] : k \in 1..PopulationSize}
  BY DEF generateInitialPopulation, SomeOf
<1>2. a \in criticalSeeds \cup multiPathSeeds \cup highRiskSeeds \cup randomSeeds \cup insightSeeds
  BY <1>1
<1>3. CASE a \in criticalSeeds
  <2>. DEFINE S == CriticalTasks \cap MayBeGiven
  <2>1. PICK most : a \in AllocationsOf(S, most)
    BY <1>3 DEF criticalSeeds, Seeded
  <2>. QED
    BY <2>1, AllocationsAre
<1>4. CASE a \in multiPathSeeds
  <2>. DEFINE S == {i \in MayBeGiven : pathCount(i) > 1}
  <2>1. PICK most : a \in AllocationsOf(S, most)
    BY <1>4 DEF multiPathSeeds, Seeded
  <2>. QED
    BY <2>1, AllocationsAre
<1>5. CASE a \in highRiskSeeds
  <2>. DEFINE S == {i \in MayBeGiven : plan.risk[i] > 6}
  <2>1. PICK most : a \in AllocationsOf(S, most)
    BY <1>5 DEF highRiskSeeds, Seeded
  <2>. QED
    BY <2>1, AllocationsAre
<1>6. CASE a \in randomSeeds
  <2>. DEFINE S == (CriticalTasks \cup NearCriticalTasks \cup {j \in Ids(plan) : plan.risk[j] > 7}) \cap MayBeGiven
  <2>1. PICK most : a \in AllocationsOf(S, most)
    BY <1>6 DEF randomSeeds, Seeded
  <2>. QED
    BY <2>1, AllocationsAre
<1>7. CASE a \in insightSeeds
  <2>1. PICK most : a \in AllocationsOf(Sensitive, most)
    BY <1>7 DEF insightSeeds, Seeded
  <2>. QED
    BY <2>1, AllocationsAre
<1>. QED
  BY <1>2, <1>3, <1>4, <1>5, <1>6, <1>7

\* A crossing keeps what one of the parents gives, or the larger of both.
LEMMA CrossingsAre ==
    ASSUME NEW p, NEW q, Allocation(p), Allocation(q), NEW a \in autoCrossover(p, q) \cup crossover(p, q)
    PROVE  Allocation(a)
<1>1. ASSUME NEW T, NEW g \in [T -> Nat], \A i \in T : g[i] > 0 => i \in MayBeGiven \cup Sensitive
      PROVE  Allocation(Entries(g))
  BY <1>1 DEF Allocation, Entries
<1>2. ASSUME NEW from \in {p, q}, NEW i
      PROVE  Given(from, i) \in Nat /\ (Given(from, i) > 0 => i \in MayBeGiven \cup Sensitive)
  BY DEF Given, Allocation
<1>3. CASE a \in autoCrossover(p, q)
  <2>1. PICK pick \in [Optimizable -> {p, q}] : a = Entries([i \in Optimizable |-> Given(pick[i], i)])
    BY <1>3 DEF autoCrossover
  <2>. QED
    BY <1>1, <1>2, <2>1
<1>4. CASE a \in crossover(p, q)
  <2>. DEFINE tasks == (DOMAIN p) \cup (DOMAIN q)
              kept(i, from) == IF i \in CriticalTasks /\ i \in (DOMAIN p) \cap (DOMAIN q) THEN Larger(p[i], q[i]) ELSE Given(from, i)
  <2>1. PICK pick \in [tasks -> {p, q}] : a = Entries([i \in tasks |-> kept(i, pick[i])])
    BY <1>4 DEF crossover
  <2>2. ASSUME NEW i \in tasks
        PROVE  kept(i, pick[i]) \in Nat /\ i \in MayBeGiven \cup Sensitive
    BY <1>2 DEF Larger, Allocation
  <2>. QED
    BY <1>1, <2>1, <2>2
<1>. QED
  BY <1>3, <1>4

LEMMA WithIs ==
    ASSUME NEW a, Allocation(a), NEW i \in MayBeGiven \cup Sensitive, NEW r \in Nat \ {0}
    PROVE  Allocation(With(a, i, r))
BY DEF Allocation, With
LEMMA WithoutIs ==
    ASSUME NEW a, Allocation(a), NEW i
    PROVE  Allocation(Without(a, i))
BY DEF Allocation, Without

\* No mutation leaves an entry of nothing.
LEMMA MutationsAre ==
    ASSUME NEW a, Allocation(a), NEW b \in autoMutate(a) \cup mutate(a)
    PROVE  Allocation(b)
<1>0. maxResourcesPerTask \in Nat \ {0}
  BY ScenarioSearchAssumption
<1>1. \A i \in DOMAIN a : a[i] \in Nat \ {0} /\ i \in MayBeGiven \cup Sensitive
  BY DEF Allocation
<1>2. \/ \E i : b = Without(a, i)
      \/ \E i \in MayBeGiven \cup Sensitive, r \in Nat \ {0} : b = With(a, i, r)
  <2>1. CASE b \in autoMutate(a)
    <3>1. CASE \E i \in Optimizable : b = Without(a, i)
      BY <3>1
    <3>2. CASE \E i \in Optimizable, r \in 1..maxResourcesPerTask : b = With(a, i, r)
      BY <1>0, <3>2, Optimisable
    <3>3. CASE \E i \in DOMAIN a : b = With(a, i, Smaller(a[i] + 1, maxResourcesPerTask))
      BY <1>0, <1>1, <3>3 DEF Smaller
    <3>4. CASE \E i \in DOMAIN a : b = IF a[i] = 1 THEN Without(a, i) ELSE With(a, i, a[i] - 1)
      BY <1>1, <3>4
    <3>. QED
      BY <2>1, <3>1, <3>2, <3>3, <3>4 DEF autoMutate
  <2>2. CASE b \in mutate(a)
    <3>1. CASE \E i \in MayBeGiven \ DOMAIN a, r \in 1..Larger(1, maxResourcesPerTask - 1) : b = With(a, i, r)
      BY <3>1
    <3>2. CASE \E i \in DOMAIN a : b = Without(a, i)
      BY <3>2
    <3>3. CASE \E i \in DOMAIN a : b = With(a, i, a[i] + 1)
      BY <1>1, <3>3
    <3>4. CASE b \in Lowered(a)
      BY <1>1, <3>4 DEF Lowered
    <3>. QED
      BY <2>2, <3>1, <3>2, <3>3, <3>4 DEF mutate
  <2>. QED
    BY <2>1, <2>2
<1>. QED
  BY <1>2, WithIs, WithoutIs

LEMMA Climbs ==
    ASSUME NEW S \in SUBSET Nat, 0 \in S, \A n \in S : n + 1 \in S
    PROVE  S = Nat
<1>. SUFFICES ASSUME Nat \ S # {} PROVE FALSE
  OBVIOUS
<1>1. PICK m \in Nat \ S : \A y \in Nat \ S : <<y, m>> \notin OpToRel(<, Nat)
  <2>1. Nat \ S \subseteq Nat
    OBVIOUS
  <2>. QED
    BY <2>1, NatLessThanWellFounded, WFMin
<1>2. m # 0 /\ m - 1 \in Nat /\ m - 1 < m /\ (m - 1) + 1 = m
  OBVIOUS
<1>3. m - 1 \in S
  BY <1>1, <1>2 DEF OpToRel
<1>. QED
  BY <1>2, <1>3

\* Children after any number of mutations: the recursion over them has a
\* solution, and each of its sets holds allocations only.
LEMMA ChildrenAre ==
    ASSUME SearchInv, NEW a \in Children
    PROVE  Allocation(a)
<1>. DEFINE crossed == UNION {{p} \cup (IF search = "auto" THEN autoCrossover(p, q) ELSE crossover(p, q)) : p \in population, q \in population}
            once(S) == UNION {IF search = "auto" THEN autoMutate(b) ELSE mutate(b) : b \in S}
            Steps == 0..MaxMutations
            Next1(f, k) == IF k = 0 THEN crossed ELSE once(f[k - 1])
            IsIt(f) == f = [k \in Steps |-> Next1(f, k)]
            mutated == CHOOSE f : IsIt(f)
            Solves(n) == \E f : f = [k \in Steps |-> f[k]] /\ \A k \in Steps : k < n => f[k] = Next1(f, k)
<1>0. MaxMutations \in Nat
  BY ScenarioSearchAssumption
<1>1. \A f, g : Next1(f, 0) = Next1(g, 0)
  OBVIOUS
<1>2. \A f, g, k : f[k - 1] = g[k - 1] => Next1(f, k) = Next1(g, k)
  OBVIOUS
<1>3. ASSUME NEW a0 \in crossed PROVE Allocation(a0)
  <2>1. PICK p \in population, q \in population :
           a0 \in {p} \cup (IF search = "auto" THEN autoCrossover(p, q) ELSE crossover(p, q))
    BY <1>3
  <2>2. Allocation(p) /\ Allocation(q)
    BY DEF SearchInv, Kept
  <2>3. CASE a0 = p
    BY <2>2, <2>3
  <2>4. CASE a0 \in autoCrossover(p, q) \cup crossover(p, q)
    BY <2>2, <2>4, CrossingsAre
  <2>. QED
    BY <2>1, <2>3, <2>4
<1>4. ASSUME NEW S, \A b \in S : Allocation(b), NEW c \in once(S) PROVE Allocation(c)
  <2>1. PICK b \in S : c \in autoMutate(b) \cup mutate(b)
    BY <1>4
  <2>. QED
    BY <1>4, <2>1, MutationsAre
<1>5. \A f : Next1(f, 0) = crossed
  OBVIOUS
<1>6. \A f, k : k # 0 => Next1(f, k) = once(f[k - 1])
  OBVIOUS
<1>7. Children = UNION {mutated[k] : k \in Steps}
  BY DEF Children
<1>. HIDE DEF Next1, crossed, once
<1>9. IsIt(mutated)
  <2>1. Solves(0)
    <3>0. PICK g : g = [k \in Steps |-> crossed]
      OBVIOUS
    <3>1. g = [k \in Steps |-> g[k]]
      BY <3>0
    <3>2. \A k \in Steps : k < 0 => g[k] = Next1(g, k)
      BY <1>0
    <3>. QED
      BY <3>1, <3>2
  <2>2. ASSUME NEW n \in Nat, Solves(n) PROVE Solves(n + 1)
    <3>1. PICK f : f = [k \in Steps |-> f[k]] /\ \A k \in Steps : k < n => f[k] = Next1(f, k)
      BY <2>2
    <3>2. PICK g : g = [k \in Steps |-> Next1(f, k)]
      OBVIOUS
    <3>3. ASSUME NEW k \in Steps, k < n + 1 PROVE g[k] = Next1(g, k)
      <4>1. g[k] = Next1(f, k)
        BY <3>2
      <4>2. CASE k = 0
        BY <1>1, <4>1, <4>2
      <4>3. CASE k # 0
        <5>1. k - 1 \in Steps /\ k - 1 < n
          BY <1>0, <3>3, <4>3
        <5>2. g[k - 1] = f[k - 1]
          BY <3>1, <3>2, <5>1
        <5>. QED
          BY <1>2, <4>1, <5>2
      <4>. QED
        BY <4>2, <4>3
    <3>4. g = [k \in Steps |-> g[k]]
      BY <3>2
    <3>. QED
      BY <3>3, <3>4
  <2>3. Solves(MaxMutations + 1)
    <3>. DEFINE R == {n \in Nat : Solves(n)}
    <3>. HIDE DEF Solves
    <3>1. R \subseteq Nat /\ 0 \in R /\ \A n \in R : n + 1 \in R
      BY <2>1, <2>2
    <3>2. R = Nat
      BY <3>1, Climbs
    <3>. QED
      BY <1>0, <3>2
  <2>4. PICK f : f = [k \in Steps |-> f[k]] /\ \A k \in Steps : k < MaxMutations + 1 => f[k] = Next1(f, k)
    BY <2>3
  <2>5. \A k \in Steps : f[k] = Next1(f, k)
    BY <1>0, <2>4
  <2>6. IsIt(f)
    BY <2>4, <2>5
  <2>. QED
    BY <2>6
<1>. HIDE DEF mutated
<1>10. \A k \in Steps : mutated[k] = Next1(mutated, k)
  BY <1>9
<1>. DEFINE Good == {n \in Nat : n \in Steps => \A c \in mutated[n] : Allocation(c)}
<1>11. Good = Nat
  <2>1. 0 \in Good
    BY <1>3, <1>5, <1>10
  <2>2. ASSUME NEW n \in Good PROVE n + 1 \in Good
    <3>. SUFFICES ASSUME n + 1 \in Steps, NEW c \in mutated[n + 1] PROVE Allocation(c)
      OBVIOUS
    <3>1. n \in Steps /\ n + 1 # 0 /\ (n + 1) - 1 = n
      BY <1>0
    <3>2. c \in once(mutated[n])
      BY <1>6, <1>10, <3>1
    <3>. QED
      BY <1>4, <3>1, <3>2
  <2>. HIDE DEF Good
  <2>3. Good \subseteq Nat
    BY DEF Good
  <2>. QED
    BY <2>1, <2>2, <2>3, Climbs
<1>. QED
  BY <1>0, <1>7, <1>11

LEMMA SearchStarts == SearchInit => SearchInv
<1>. SUFFICES ASSUME SearchInit PROVE SearchInv
  OBVIOUS
<1>1. population = {} /\ best = <<>> /\ evaluations = {}
  BY DEF SearchInit
<1>2. DOMAIN best = {}
  BY <1>1
<1>. QED
  BY <1>1, <1>2 DEF SearchInv, Kept

LEMMA BeginsWell ==
    ASSUME NEW kind, NEW start, Begin(kind, start), plan' = plan, \A S \in start : \A a \in S : Allocation(a)
    PROVE  SearchInv'
<1>1. population' \in start /\ evaluations' = {} /\ DOMAIN best' = {}
  BY DEF Begin
<1>2. \A a \in Kept' : Allocation(a)
  BY <1>1 DEF Kept
<1>. QED
  BY <1>2 DEF SearchInv, Allocation, MayBeGiven

LEMMA Undisturbed ==
    ASSUME SearchInv, UNCHANGED <<plan, population, best, evaluations>>
    PROVE  SearchInv'
BY DEF SearchInv, Kept, Allocation, MayBeGiven

LEMMA SearchSteps == ASSUME SearchInv, [SearchNext]_searchVars PROVE SearchInv'
<1>1. CASE UserAdds
  BY <1>1, Undisturbed DEF UserAdds, datesIdle, searchIdle
<1>2. CASE runScheduleOptimization
  <2>1. plan' = plan
    BY <1>2 DEF runScheduleOptimization, datesIdle
  <2>2. CASE UNCHANGED searchIdle
    BY <2>1, <2>2, Undisturbed DEF searchIdle
  <2>3. CASE Begin("auto", SomeOf(AllocationsOf(Optimizable, maxResourcesPerTask)))
    <3>1. ASSUME NEW S \in SomeOf(AllocationsOf(Optimizable, maxResourcesPerTask)), NEW a \in S PROVE Allocation(a)
      <4>1. a \in AllocationsOf(Optimizable, maxResourcesPerTask)
        BY DEF SomeOf
      <4>. QED
        BY <4>1, AllocationsAre, Optimisable
    <3>. QED
      BY <2>1, <2>3, <3>1, BeginsWell
  <2>. QED
    BY <1>2, <2>2, <2>3 DEF runScheduleOptimization
<1>3. CASE findConstrainedSolution
  <2>1. plan' = plan /\ Begin("constraint", generateInitialPopulation)
    BY <1>3 DEF findConstrainedSolution, datesIdle
  <2>. QED
    BY <2>1, SeedsAre, BeginsWell
<1>4. CASE evaluatePopulation
  <2>1. /\ plan' = plan /\ population' = population
        /\ evaluations' = {[solution |-> a, fitness |-> Fitness(a)] : a \in population}
        /\ best' \in BestNow(evaluations')
    BY <1>4 DEF evaluatePopulation, datesIdle
  <2>2. {e.solution : e \in evaluations'} \subseteq population
    BY <2>1
  <2>3. best' = best \/ \E e \in evaluations' : best' = <<e>>
    BY <2>1 DEF BestNow, Fittest
  <2>4. {best'[k].solution : k \in DOMAIN best'} \subseteq population \cup {best[k].solution : k \in DOMAIN best}
    BY <2>2, <2>3
  <2>5. Kept' \subseteq Kept
    BY <2>1, <2>2, <2>4 DEF Kept
  <2>. QED
    BY <2>1, <2>5 DEF SearchInv, Allocation, MayBeGiven
<1>5. CASE Breed
  <2>1. plan' = plan /\ best' = best /\ evaluations' = {}
    BY <1>5 DEF Breed, datesIdle
  <2>2. PICK elite \in Elites, child \in [2..PopulationSize -> Children] :
           population' = {elite.solution} \cup {child[k] : k \in 2..PopulationSize}
    BY <1>5 DEF Breed
  <2>3. elite \in evaluations
    BY DEF Elites, Fittest
  <2>4. population' \subseteq Kept \cup Children
    BY <2>2, <2>3 DEF Kept
  <2>5. Kept' \subseteq Kept \cup Children
    BY <2>1, <2>4 DEF Kept
  <2>. QED
    BY <2>1, <2>5, ChildrenAre DEF SearchInv, Allocation, MayBeGiven
<1>6. CASE AutoEnds \/ ConstrainedEnds
  <2>1. plan' = plan
    BY <1>6 DEF AutoEnds, ConstrainedEnds, datesIdle
  <2>2. population' = {} /\ evaluations' = {} /\ DOMAIN best' = {}
    BY <1>6 DEF AutoEnds, ConstrainedEnds, Ending
  <2>. QED
    BY <2>1, <2>2 DEF SearchInv, Kept
<1>7. CASE saveScenario \/ loadScenario
  BY <1>7, Undisturbed DEF saveScenario, loadScenario, datesIdle, searchIdle
<1>8. CASE UNCHANGED searchVars
  BY <1>8, Undisturbed DEF searchVars, datesState, searchState
<1>. QED
  BY <1>1, <1>2, <1>3, <1>4, <1>5, <1>6, <1>7, <1>8 DEF SearchNext

\* Whatever is sown, crossed, mutated and kept in however many generations, an
\* allocation of either search gives at least one resource to each activity it
\* names, and names no finished or fixed one unless a simulation called it
\* sensitive.
THEOREM AllocationsAreSound == SearchSpec => []GivesOnlyWhatMayBeGiven
<1>1. SearchInv => GivesOnlyWhatMayBeGiven
  BY DEF SearchInv, Kept, Allocation, GivesOnlyWhatMayBeGiven
<1>. QED
  BY <1>1, SearchStarts, SearchSteps, PTL DEF SearchSpec

-----------------------------------------------------------------------------
(* The simulator.  While it is open at most one run is under way, although the *)
(* optimiser starts one without asking: it does so only when there are no      *)
(* results, and a run that has given the page back has some.                   *)
IsSeq(s) == \E S : s \in Seq(S)
Sinks == {j \in Ids(simulated) : OutOf(simulated, j) = {}}
Beside(n) ==
    /\ \A i \in Ids(simulated) : IsSeq(taskEndDates[i]) /\ Len(taskEndDates[i]) = n
    /\ \A k \in 1..n : simulationResults[k] = Most({0} \cup {taskEndDates[i][k] : i \in Sinks})
SimulatorTypeOK ==
    /\ open \in BOOLEAN /\ isSimulationRunning \in BOOLEAN
    /\ asked \in Nat /\ todo \in Seq(Nat) /\ IsSeq(simulationResults)
AloneInv == todo = <<>> \/ \E left \in Nat :
    /\ todo = <<left>> /\ isSimulationRunning /\ asked # 0
    /\ Len(simulationResults) + left = asked
SimulatorInv ==
    /\ SimulatorTypeOK
    /\ open => /\ AloneInv
               /\ Beside(Len(simulationResults))
               /\ todo = <<>> /\ simulationResults # <<>> =>
                     Len(simulationResults) = asked /\ simulationSummary[1].count = asked

LEMMA AppendIs ==
    ASSUME NEW s, IsSeq(s), NEW x
    PROVE  /\ IsSeq(Append(s, x)) /\ Len(s) \in Nat /\ Len(Append(s, x)) = Len(s) + 1
           /\ \A i \in 1..Len(s) : Append(s, x)[i] = s[i]
           /\ Append(s, x)[Len(s) + 1] = x
<1>1. PICK S : s \in Seq(S)
  BY DEF IsSeq
<1>2. s \in Seq(S \cup {x})
  BY <1>1, SeqMonotonic
<1>. QED
  BY <1>2, AppendProperties, LenProperties DEF IsSeq

LEMMA SimulatorStarts == SimulatorInit => SimulatorInv
<1>. SUFFICES ASSUME SimulatorInit PROVE SimulatorInv
  OBVIOUS
<1>1. /\ open = TRUE /\ isSimulationRunning = FALSE /\ todo = <<>> /\ simulationResults = <<>>
      /\ taskEndDates = NoEnds(simulated) /\ asked = 0
  BY DEF SimulatorInit
<1>2. \A S : <<>> \in Seq(S) /\ Len(<<>>) = 0
  BY EmptySeq
<1>3. Beside(Len(simulationResults))
  BY <1>1, <1>2 DEF Beside, NoEnds, IsSeq
<1>. QED
  BY <1>1, <1>2, <1>3 DEF SimulatorInv, SimulatorTypeOK, AloneInv, IsSeq

\* A run that starts clears what the one before has left.
LEMMA RunStarts ==
    ASSUME SimulatorInv, open, todo = <<>>, NEW count \in Nat \ {0}, runSimulation(count), UNCHANGED <<simulated, open>>
    PROVE  SimulatorInv'
<1>1. /\ isSimulationRunning' = TRUE /\ simulationResults' = <<>> /\ taskEndDates' = NoEnds(simulated)
      /\ todo' = <<count>> /\ asked' = count
  BY DEF runSimulation
<1>2. \A S : <<>> \in Seq(S) /\ Len(<<>>) = 0
  BY EmptySeq
<1>3. Beside(Len(simulationResults))'
  BY <1>1, <1>2 DEF Beside, NoEnds, IsSeq
<1>4. todo' \in Seq(Nat) /\ todo' # <<>>
  BY <1>1
<1>5. AloneInv'
  BY <1>1, <1>2 DEF AloneInv
<1>. QED
  BY <1>1, <1>2, <1>3, <1>4, <1>5 DEF SimulatorInv, SimulatorTypeOK, IsSeq

\* Whoever may start a run finds none under way.
LEMMA NoneUnderWay ==
    ASSUME SimulatorInv, MayRun, Free \/ simulationResults = <<>>
    PROVE  open /\ todo = <<>>
<1>1. open /\ GivenBack /\ AloneInv
  BY DEF MayRun, SimulatorInv
<1>2. ASSUME NEW left \in Nat, todo = <<left>>, isSimulationRunning, Len(simulationResults) + left = asked PROVE FALSE
  <2>1. simulationResults = <<>>
    BY <1>2 DEF Free
  <2>2. left = asked
    BY <1>2, <2>1, EmptySeq
  <2>3. 1 \in DOMAIN todo /\ todo[1] = left
    BY <1>2
  <2>4. left < asked
    BY <1>1, <2>3 DEF GivenBack
  <2>. QED
    BY <2>2, <2>4
<1>. QED
  BY <1>1, <1>2 DEF AloneInv

LEMMA SimulatorSteps == ASSUME SimulatorInv, [SimulatorNext]_simulatorState PROVE SimulatorInv'
<1>0. \A S : <<>> \in Seq(S) /\ Len(<<>>) = 0
  BY EmptySeq
<1>1. CASE RunButton
  <2>1. PICK count \in Iterations : runSimulation(count)
    BY <1>1 DEF RunButton
  <2>2. count \in Nat \ {0}
    BY MonteCarloAssumption
  <2>3. open /\ todo = <<>>
    BY <1>1, NoneUnderWay DEF RunButton
  <2>. QED
    BY <1>1, <2>1, <2>2, <2>3, RunStarts DEF RunButton
<1>2. CASE OptimizerRuns
  <2>1. OptimizerIterations \in Nat \ {0}
    BY MonteCarloAssumption
  <2>2. open /\ todo = <<>>
    BY <1>2, NoneUnderWay DEF OptimizerRuns
  <2>. QED
    BY <1>2, <2>1, <2>2, RunStarts DEF OptimizerRuns
<1>3. ASSUME NEW k \in DOMAIN todo, runSimulationBatch(k) PROVE SimulatorInv'
  <2>0. PICK n : n = Len(simulationResults)
    OBVIOUS
  <2>1. PICK durations \in DurationMaps(simulated) : Iterated(durations)
    BY <1>3 DEF runSimulationBatch
  <2>2. /\ open /\ UNCHANGED <<simulated, open, isSimulationRunning, simulationSummary, asked>>
        /\ UnderWay(k) /\ todo' = [todo EXCEPT ![k] = @ - 1]
    BY <1>3 DEF runSimulationBatch
  <2>3. PICK left \in Nat : /\ todo = <<left>> /\ isSimulationRunning /\ asked # 0 /\ n + left = asked
    BY <1>3, <2>0, <2>2 DEF SimulatorInv, AloneInv
  <2>4. k = 1 /\ left > 0
    BY <1>3, <2>2, <2>3 DEF UnderWay
  <2>5. left - 1 \in Nat /\ todo' = <<left - 1>>
    BY <2>2, <2>3, <2>4
  <2>. DEFINE dates == calculateForwardPass([simulated EXCEPT !.days = durations])
              ends == [i \in Ids(simulated) |-> dates[i].finish]
              hours == computeFinishTime(simulated, durations).hours
  <2>6. /\ simulationResults' = Append(simulationResults, hours)
        /\ taskEndDates' = [i \in Ids(simulated) |-> Append(taskEndDates[i], ends[i])]
        /\ hours = Most({0} \cup {ends[i] : i \in Sinks})
    <3>1. computeFinishTime(simulated, durations) = [hours |-> Most({0} \cup {dates[i].finish : i \in Sinks}), ends |-> ends]
      BY DEF computeFinishTime, Sinks
    <3>2. {ends[i] : i \in Sinks} = {dates[i].finish : i \in Sinks}
      BY DEF Sinks
    <3>3. /\ simulationResults' = Append(simulationResults, hours)
          /\ taskEndDates' = [i \in Ids(simulated) |-> Append(taskEndDates[i], computeFinishTime(simulated, durations).ends[i])]
      BY <2>1 DEF Iterated
    <3>. HIDE DEF dates, ends
    <3>4. hours = Most({0} \cup {dates[i].finish : i \in Sinks}) /\ computeFinishTime(simulated, durations).ends = ends
      BY <3>1
    <3>. HIDE DEF hours
    <3>. QED
      BY <3>2, <3>3, <3>4
  <2>. HIDE DEF dates, ends, hours
  <2>7. Beside(n) /\ IsSeq(simulationResults) /\ asked \in Nat
    BY <2>0, <2>2 DEF SimulatorInv, SimulatorTypeOK
  <2>8. /\ n \in Nat /\ IsSeq(simulationResults') /\ Len(simulationResults') = n + 1
        /\ \A j \in 1..n : simulationResults'[j] = simulationResults[j]
        /\ simulationResults'[n + 1] = hours
    BY <2>0, <2>6, <2>7, AppendIs
  <2>9. ASSUME NEW i \in Ids(simulated)
        PROVE  /\ IsSeq(taskEndDates'[i]) /\ Len(taskEndDates'[i]) = n + 1
               /\ \A j \in 1..n : taskEndDates'[i][j] = taskEndDates[i][j]
               /\ taskEndDates'[i][n + 1] = ends[i]
    <3>1. IsSeq(taskEndDates[i]) /\ Len(taskEndDates[i]) = n
      BY <2>7 DEF Beside
    <3>2. taskEndDates'[i] = Append(taskEndDates[i], ends[i])
      BY <2>6
    <3>. QED
      BY <3>1, <3>2, AppendIs
  <2>10. Sinks' = Sinks /\ Sinks \subseteq Ids(simulated)
    BY <2>2 DEF Sinks
  <2>11. ASSUME NEW j \in 1..(n + 1) PROVE simulationResults'[j] = Most({0} \cup {taskEndDates'[i][j] : i \in Sinks})
    <3>1. CASE j \in 1..n
      <4>1. {taskEndDates'[i][j] : i \in Sinks} = {taskEndDates[i][j] : i \in Sinks}
        BY <2>9, <2>10, <3>1
      <4>. QED
        BY <2>7, <2>8, <3>1, <4>1 DEF Beside
    <3>2. CASE j = n + 1
      <4>1. {taskEndDates'[i][j] : i \in Sinks} = {ends[i] : i \in Sinks}
        BY <2>9, <2>10, <3>2
      <4>. QED
        BY <2>6, <2>8, <3>2, <4>1
    <3>. QED
      BY <2>8, <3>1, <3>2
  <2>12. Beside(n + 1)'
    BY <2>2, <2>9, <2>10, <2>11 DEF Beside
  <2>13. AloneInv'
    <3>1. (n + 1) + (left - 1) = asked
      BY <2>3, <2>7, <2>8
    <3>. QED
      BY <2>2, <2>3, <2>5, <2>8, <3>1 DEF AloneInv
  <2>14. todo' \in Seq(Nat) /\ todo' # <<>>
    BY <2>5
  <2>. QED
    BY <2>2, <2>8, <2>12, <2>13, <2>14 DEF SimulatorInv, SimulatorTypeOK
\* At its end a run has done what it was asked for, and counts just that.
<1>4. ASSUME NEW k \in DOMAIN todo, RunEnds(k) PROVE SimulatorInv'
  <2>1. /\ open /\ UNCHANGED <<simulated, open, simulationResults, taskEndDates, asked>>
        /\ k \in DOMAIN todo /\ todo[k] = 0 /\ isSimulationRunning' = FALSE
        /\ todo' = RemoveAt(todo, k) /\ simulationSummary' = analyzeResults(simulationResults)
    BY <1>4 DEF RunEnds
  <2>2. PICK left \in Nat : /\ todo = <<left>> /\ isSimulationRunning /\ asked # 0 /\ Len(simulationResults) + left = asked
    BY <1>4, <2>1 DEF SimulatorInv, AloneInv
  <2>3. k = 1 /\ left = 0
    BY <2>1, <2>2
  <2>4. todo' = <<>>
    BY <2>1, <2>2, <2>3 DEF RemoveAt
  <2>5. IsSeq(simulationResults) /\ Len(simulationResults) \in Nat
    <3>1. IsSeq(simulationResults)
      BY DEF SimulatorInv, SimulatorTypeOK
    <3>. QED
      BY <3>1, AppendIs
  <2>6. Len(simulationResults) = asked /\ simulationResults # <<>>
    BY <1>0, <2>2, <2>3, <2>5
  <2>7. simulationSummary'[1].count = Len(simulationResults)
    <3>1. PICK a, b, c, d, e : analyzeResults(simulationResults) =
             <<[count |-> Len(simulationResults), least |-> a, most |-> b, median |-> c, p80 |-> d, days |-> e]>>
      BY <2>6 DEF analyzeResults
    <3>. QED
      BY <2>1, <3>1
  <2>8. Beside(Len(simulationResults))'
    <3>1. Beside(Len(simulationResults)) /\ Sinks' = Sinks
      BY <2>1 DEF SimulatorInv, Sinks
    <3>. QED
      BY <2>1, <3>1 DEF Beside
  <2>. QED
    BY <1>0, <2>1, <2>4, <2>6, <2>7, <2>8 DEF SimulatorInv, SimulatorTypeOK, AloneInv
\* Closing stops no run, but nothing is shown of it any more.
<1>5. CASE destroy
  BY <1>0, <1>5 DEF destroy, SimulatorInv, SimulatorTypeOK, IsSeq
<1>6. CASE RunFails
  BY <1>0, <1>6 DEF RunFails, SimulatorInv, SimulatorTypeOK
<1>7. CASE UNCHANGED simulatorState
  <2>1. Beside(Len(simulationResults))' = Beside(Len(simulationResults))
    BY <1>7 DEF simulatorState, Beside, Sinks
  <2>. QED
    BY <1>7, <2>1 DEF simulatorState, SimulatorInv, SimulatorTypeOK, AloneInv
<1>. QED
  BY <1>1, <1>2, <1>3, <1>4, <1>5, <1>6, <1>7 DEF SimulatorNext

\* The inductive invariant of the simulator holds throughout.
THEOREM SimulatorInvariance == SimulatorSpec => []SimulatorInv
BY SimulatorStarts, SimulatorSteps, PTL DEF SimulatorSpec

\* While the simulator is open no two runs are under way at once.
THEOREM OneRunAtATime == SimulatorSpec => [](open => Len(todo) <= 1)
<1>1. SimulatorInv => (open => Len(todo) <= 1)
  <2>. SUFFICES ASSUME SimulatorInv, open PROVE Len(todo) <= 1
    OBVIOUS
  <2>1. AloneInv
    BY DEF SimulatorInv
  <2>2. CASE todo = <<>>
    BY <2>2, EmptySeq
  <2>3. ASSUME NEW left \in Nat, todo = <<left>> PROVE Len(todo) <= 1
    BY <2>3
  <2>. QED
    BY <2>1, <2>2, <2>3 DEF AloneInv
<1>. QED
  BY <1>1, SimulatorInvariance, PTL

\* Once a run has ended, the results, the finishes of the activities and the
\* summary are all of it and of nothing that ran before or beside it.
THEOREM ResultsAreOfOneRun == SimulatorSpec => []ResultsOfOneRun
<1>1. SimulatorInv => ResultsOfOneRun
  <2>. SUFFICES ASSUME SimulatorInv, open, todo = <<>>, simulationResults # <<>>
                PROVE  /\ Len(simulationResults) = asked /\ simulationSummary[1].count = asked
                       /\ Beside(asked)
    BY DEF ResultsOfOneRun, Beside, Sinks
  <2>. QED
    BY DEF SimulatorInv
<1>. QED
  BY <1>1, SimulatorInvariance, PTL
=============================================================================
