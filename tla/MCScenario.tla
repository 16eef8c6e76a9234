----------------------------- MODULE MCScenario -----------------------------
(* The schedule optimiser on two paths of which the shorter one soon controls,  *)
(* on three of which one is too short to be listed, on the other kinds of links, *)
(* on durations in days and on a project whose end is not linked; the genetic    *)
(* searches on an activity that is fixed, one that is finished and a required    *)
(* finish that may not be kept; the simulator on an uncertain activity, one      *)
(* short of resources, one off the path and finished ones.                       *)
EXTENDS ScenarioSearch, MonteCarlo

Link(s, t, k, g) == [source |-> s, target |-> t, type |-> k, lag |-> g]
Activities(w) == [i \in 0..4 |-> w[i + 1]]
TwoPaths == [days |-> Activities(<<0, 24, 16, 36, 0>>), unit |-> 1, staff |-> Activities(<<1, 1, 2, 1, 1>>),
             done |-> Activities(<<100, 0, 50, 0, 0>>), weight |-> Activities(<<0, 50, 300, 50, 0>>), fixed |-> {4},
             links |-> <<Link(0, 1, "FS", 0), Link(1, 2, "FS", 0), Link(2, 4, "FS", 0), Link(0, 3, "FS", 0), Link(3, 4, "FS", 0)>>]
OtherLinks == [TwoPaths EXCEPT !.days = Activities(<<0, 40, 32, 48, 0>>), !.weight = Activities(<<0, 300, 0, 300, 0>>), !.fixed = {2, 4},
               !.links = <<Link(0, 1, "FS", 0), Link(1, 2, "SS", 8), Link(2, 3, "FF", 16), Link(1, 3, "SF", 60),
                           Link(3, 4, "FS", 0), Link(2, 4, "FS", 0)>>]
InDays == [TwoPaths EXCEPT !.unit = 8, !.days = Activities(<<0, 8, 4, 11, 0>>), !.staff = Activities(<<1, 2, 2, 4, 1>>),
           !.weight = Activities(<<0, 50, 300, 300, 0>>), !.fixed = {1, 4}]
Unlinked == [TwoPaths EXCEPT !.links = <<Link(0, 1, "FS", 0), Link(1, 2, "FS", 0)>>, !.weight = Activities(<<0, 300, 300, 0, 0>>)]
\* The path over 2 is shorter than four fifths of the longest one, until that and the one over 3 are shortened.
ThreePaths == [TwoPaths EXCEPT !.days = Activities(<<0, 40, 30, 36, 0>>), !.staff = Activities(<<1, 1, 1, 1, 1>>),
               !.done = Activities(<<100, 0, 0, 0, 0>>), !.weight = Activities(<<0, 50, 50, 300, 0>>), !.fixed = {2, 4},
               !.links = <<Link(0, 1, "FS", 0), Link(0, 2, "FS", 0), Link(0, 3, "FS", 0),
                           Link(1, 4, "FS", 0), Link(2, 4, "FS", 0), Link(3, 4, "FS", 0)>>]
MCPlans == {TwoPaths, ThreePaths, OtherLinks, InDays, Unlinked}

Searched == [days |-> Activities(<<0, 24, 16, 36, 0>>), unit |-> 1, staff |-> Activities(<<1, 1, 2, 1, 1>>),
             done |-> Activities(<<100, 0, 50, 0, 0>>), weight |-> Activities(<<0, 50, 300, 50, 0>>), fixed |-> {3, 4},
             links |-> <<Link(0, 1, "FS", 0), Link(1, 2, "FS", 0), Link(2, 4, "FS", 0), Link(0, 3, "FS", 0), Link(3, 4, "FS", 0)>>,
             milestones |-> {[task |-> 4, hard |-> FALSE]},
             required |-> {[task |-> 2, kind |-> "finish", date |-> 80, hard |-> TRUE]},
             risk |-> Activities(<<0, 8, 0, 0, 0>>)]
Finished == [Searched EXCEPT !.done = Activities(<<100, 100, 0, 0, 0>>), !.fixed = {4}, !.risk = Activities(<<0, 0, 9, 0, 0>>)]
MCSearchPlans == {Searched, Finished}

Uncertain == [days |-> Activities(<<0, 20, 40, 20, 0>>), unit |-> 1, staff |-> Activities(<<1, 2, 1, 1, 1>>), done |-> Activities(<<100, 100, 0, 0, 0>>),
              risk |-> Activities(<<0, 0, 5, 0, 0>>), overrun |-> Activities(<<0, 0, 0, 0, 0>>), outliers |-> {}, constrained |-> {2},
              critical |-> {<<0, 1, 2, 4>>}, nearCritical |-> {<<0, 3, 4>>}, variation |-> {1},
              links |-> <<Link(0, 1, "FS", 0), Link(1, 2, "FF", 4), Link(2, 4, "FS", 0), Link(0, 3, "FS", 0), Link(3, 4, "SS", 8)>>]
Risky == [Uncertain EXCEPT !.done = Activities(<<100, 50, 95, 100, 0>>), !.risk = Activities(<<0, 9, 0, 0, 0>>), !.constrained = {3},
                           !.nearCritical = {}, !.outliers = {1}, !.variation = {}]
MCSimulatedPlans == {Uncertain, Risky}

VARIABLE scenarioMachine
vars == <<searchVars, simulatorState, scenarioMachine>>
NoSimulator == SimulatorInit /\ simulated = Risky
NoSearch ==
    /\ search = "none" /\ population = {} /\ generation = 0 /\ evaluations = {} /\ best = <<>>
    /\ constraints = [time |-> {}, resource |-> {}, quality |-> {}]
    /\ saving = 0 /\ before = <<>> /\ currentSolution = [shared |-> FALSE, given |-> <<>>] /\ found = NoAnswer
    /\ scenarios = <<>> /\ searches = 0
MCInit ==
    \/ scenarioMachine = "dates" /\ DatesInit /\ NoSearch /\ NoSimulator
    \/ scenarioMachine = "search" /\ SearchInit /\ NoSimulator
    \/ scenarioMachine = "simulator" /\ DatesInit /\ plan = TwoPaths /\ NoSearch /\ SimulatorInit
MCNext ==
    /\ scenarioMachine' = scenarioMachine
    /\ \/ scenarioMachine = "dates" /\ DatesNext /\ UNCHANGED <<searchState, simulatorState>>
       \/ scenarioMachine = "search" /\ SearchNext /\ UNCHANGED simulatorState
       \/ scenarioMachine = "simulator" /\ SimulatorNext /\ UNCHANGED searchVars
MCSpec == MCInit /\ [][MCNext]_vars
=============================================================================
