# Verification of Pyth-Sched-Analytics

Pyth-Sched-Analytics analyses construction schedules. The analyses live in six
JavaScript files of a browser page (`Reference/`), which keep the page's activities
and links, calculate on them, ask services and fall back when those do not answer;
and in a stateless HTTP service (Flask behind gunicorn) into which parts of them have been
ported. This directory holds TLA+ models of both, the TLC configurations that check
them on small instances, and theorems about them that TLAPS proves for every
instance. Paths such as `solver/dag.py:202` or `EVM.js:333` are relative to the
repository's root and to its `Reference/`; the repository is at `src/` of this
project's parent directory.

How to run, in this directory:

    tlc -workers 2 -config MCPages.cfg MCPages            # one run
    tlapm PageProofs.tla                                  # one proof module

`PROJECT.json` lists the runs with their properties, for each property a mutant of
the model (a slip a programmer could make) that the run tells from the original,
the lines of source that each definition stands for, the hazards, the
findings and the theorems.

## 1. Inventory

### The page

    schedule import ──> page nodes and links, edited in place by everyone
                          │
       PathScripts.js     │  dates, slack, distances, critical and driving paths,
          │ isCritical,   │  the search for paths and the selection shown
          │ maps, order   v
       cybereumState <──────────────── EVM.js      predictions (written on nodes),
          │                                        curves; backend first, local after
          ├──> Completionprediction.js   expected and risky schedules, simulation,
          │                              recovery options, AI enrichment
          ├──> ExtRisks.js               registers from a service, mapped to activities,
          │                              scores (written on nodes), risk graph
          ├──> CommunityGroups.js        groups, their health, network, insights, costs
          └──> Scenario_Optimization.js  Monte Carlo, allocation of resources, searches

A page is one thread. What makes it concurrent are the handlers that run between two
`await`s: answers that arrive late, in another order or never, timers, animation
frames, and the user, who goes on clicking. All six files share the node
objects and `cybereumState` and write to both.

| Component | State | Operations | What is hard |
|---|---|---|---|
| `EVM.js` | request in flight with its fingerprint, fingerprint cache, predicted dates on nodes, both views | measures, prediction, forecast and actual curves, asynchronous refreshes | data that change while a request is out; dates that swap roles at the status date; order of the cascade |
| `Completionprediction.js` | one analysis after another step, dashboards, selections, caches | expected schedule, risk schedules, simulation, recovery options, enrichment, scenarios, curves, `init`, `destroy` | answers to clicks in any order, two timers among many requests, indices after a filter, four relations |
| `PathScripts.js` | slack results, shared maps, dates and `isCritical` on nodes, queues and caches of a search | slack engine, CPM engine, distances, cascade, driving graph, exact and longest-first search, selections | two engines for one field, stale orders, cycles, memoised suffixes, five limits |
| `ExtRisks.js` | `riskCache`, registers, scores on nodes, user's register, mitigations | register synthesis and validation, mapping, caps, scores, graph, edits, acceptance | renumbering, caps per activity that must not orphan a risk, runs over the results of runs |
| `CommunityGroups.js` | insights, trackers, deferred cards, containers, cost tables, metrics cache | insight fetches, systems analysis, synthesis, metrics and health, group network, cost jobs | fetches of tabs and projects already left, retries, a button that whoever comes last must add |
| `Scenario_Optimization.js` | resources given, impact cache, populations, simulation results | projection, allocation for days or for a date, apply, reset, two genetic searches, simulation in batches | cached lists of paths, constraints kept three ways, a run that others may start in the middle |

### The service

    request ──> HTTP routes (app.py, */routes.py)
                  │   lookup / store              ┌──────────────────────────┐
                  ├──────────────────────────────>│ lru_cache (per worker)   │
                  │                               │ Redis (all workers)      │
                  │ miss                          └──────────────────────────┘
                  v
             build_dag (solver/dag.py) ──> run_cpm ──> DAGState
                  │                           ^            │
                  │                           │ in place   │ read only
                  v                           │            v
       optimizer, adjoints, stochastic, pareto     critical path, path
       (solver/)                                   enumeration, driving
                                                   graph, distances, slack
       completion/ (forecast, recovery)            (paths/)
       evm/ (indices, distributions, forecast)
       completion/outcomes.py ──> Redis, or a store of the worker's own

A worker is one process with two threads (`Dockerfile:55`); there are two or more
workers. Workers share nothing but Redis. Threads of one worker share its
`lru_cache` and its in-process outcome store; everything else is made anew for each
request and belongs to one thread.

| Component | State | Operations | What is hard |
|---|---|---|---|
| DAG construction, `solver/dag.py` 55-179 | adjacency, in-degrees, FIFO queue, order | `build_dag` | cycles, parallel links, self-links, unknown ids |
| CPM engine, `solver/dag.py` 182-251 | ES, EF, LS, LF, TF, mask, makespan | `run_cpm`, re-run in place | four relations, negative lags, arrays that keep the values of the last run |
| Critical path, `solver/dag.py` 254-294, `app.py` 262-295 | the path so far | `get_critical_path_indices`, `calculate_critical_path` | critical neighbours whose link is not tight |
| Result caches, `app.py` 112-200 and 1488-1548 and the `_cache()` bridges of the packages | `lru_cache` per worker, Redis, client per worker | lookup, compute, store, reply, `/health` | threads that overlap, outages, expiry, restarts, rolling deploys |
| Outcome registry, `completion/outcomes.py` | Redis records, in-process store per worker | `register_outcome`, `list_outcomes`, `calibration_report` | reports that race with registrations, lost answers, SCAN repetitions, outages between the two phases of a report |
| Solver run, `solver/optimizer.py`, `adjoints.py`, `stochastic.py`, `core.py` | the arrays behind `dag_state.durations` and `params.durations`, the dates, the best point | `optimize`, `compute_gradients`, `run_ensemble` | arrays that are aliased at one time and not at another, perturbations that must be undone, a deadline anywhere |
| Pareto sweep, `solver/pareto.py` | solutions, dominated ones | `run_pareto`, `filter_pareto_front` | the deadline, ties, solutions that are skipped because they are marked |
| Path enumeration, `paths/enumerate.py` | DFS stack and memo; heap, tracker, budgets | `find_all_paths`, both searches | five different cuts, one flag; parallel links |
| Driving graph, `paths/driving_graph.py` | frames of a search, chains, selection | `extract_driving_graph` | saved places in frames, three limits, chains through links that are not tight |
| Graph sanitising, `app.py` 491-598 | a networkx graph, the links removed from it, a flag | `ensure_dag` | repeated cycle removal under a cap, loose ends tied to milestones that may have been loose themselves |
| Risk propagation, `app.py` 949-1136 | risk per node | `_risk_propagation`, `_propagate_with_residual_cycles` | the order of components, an iteration that may not converge, half-finished values |
| Graph metrics, clustering, `app.py`, `multi_resolution_pipeline.py` | none across requests | centralities, communities, templates | numerical library calls |
| Distances, calendar slack, `paths/distances.py`, `paths/calendar_slack.py` | arrays of one request | one sweep each | negative lags, calendars |
| Diverse selections, `paths/diversity.py` | branches, quotas, chosen paths | two greedy selections | quotas rounded up, fallback fills |
| Sub-path patterns, `paths/subpath_patterns.py` | counts per window | anchors, windows, scores | floating point statistics |
| Completion, `completion/monte_carlo.py`, `calendar.py`, `recovery.py` | calendar, samples | forecast, recovery options | holidays, working days, packaging |
| EVM, `evm/` | none across requests | indices, frontier, distribution sweeps | missing status dates, progress that contradicts the logic |
| Interface analytics, reference classes, routes, citation checker | none, a static table | group-by counts, validation | - |

### What makes each part correct

The page:

* **EVM.** Predicted dates respect the links whatever slipped; the earned value never
  falls; every refresh is drawn, with the answer to its own data or calculated locally.
* **Completion.** Both schedules respect the links and risk never makes one earlier;
  recovery never makes one later; an assessment lands on the option it was asked for;
  the curves meet at the status date; the banner counts the selection; analyses end.
* **Paths.** All engines agree on dates, on what is critical, and on the driving chain;
  the exact search finds every path; the other loses none but by trimming; the selection
  keeps the longest and repeats nothing; the heap is a heap.
* **External risks.** Validation removes only what was borderline; the selection uses its
  room; a risk stays on some activity; nothing is counted twice over several runs.
* **Groups.** A card shows the newest insight; fetches end; links are conserved between
  activities and groups; betweenness counts shortest paths; slipping does not
  improve the health; estimates reach their own groups and totals agree.
* **Scenarios.** Searches give resources only to activities that may have them; results
  are those of one simulation; the controlling path is the network's, while that is listed.

The service:

* **DAG construction.** Whatever the request holds, the engine gets every activity
  once and every kept link forward; only links that a cycle can have spoiled are lost.
* **CPM engine.** ES is the least and LS the greatest solution of the precedence
  inequalities, hence TF is exactly the room the links leave; critical activities
  form chains that fill the project; none of it depends on what an earlier run
  left in the arrays.
* **Critical path.** The walk goes from time zero to the makespan, forward.
* **Caches.** They are invisible: an answer is the analysis of the request's own
  payload, by the release that the key names.
* **Registry.** Nothing that is stored when a report begins is missing from it,
  unless a failure, an expiry or the limit explains it.
* **Solver run.** Objectives are always read off dates, durations and counts of one
  point; what is reported is the optimum; the deadline keeps the best point.
* **Pareto sweep.** The frontier is exactly the non-dominated solutions.
* **Path searches.** Lists hold real paths, none twice; "not truncated" means all.
* **Driving graph.** The chains are exactly the driving chains, critical ones last
  as long as the project, the selection shown is maximal.
* **Graph sanitising.** The flag `cycles_remaining` tells the truth; only links of
  cycles go; between two milestones the loose ends are tied without new cycles.
* **Risk propagation.** A risk is made of the final risks of the predecessors, except
  where the answer says that an iteration did not converge.

## 2. Modules

Lower modules are extended by those to their right.

| Module | Models | Extends |
|---|---|---|
| `WorkCalendar` | the working calendar that the page's scripts share | - |
| `EvmPrediction` | `EVM.js`: measures, prediction cascade, forecast and actual curves | `WorkCalendar` |
| `EvmPage` | `EVM.js`: the asynchronous refreshes of the two views | - |
| `CompletionDates` | `Completionprediction.js`: clock, maps, expected schedule with overrides | `WorkCalendar` |
| `CompletionRecovery` | ... its analysis from the expected schedule to scenarios, and the curves | `CompletionDates` |
| `CompletionPage` | ... its requests, dashboards and clicks | - |
| `PageNet` | `PathScripts.js`: the network as it and the optimiser read it, the CPM engine, the selections of paths | - |
| `PageDates` | ... slack engine, distances, cascade, driving graph | `PageNet` |
| `FrontPaths` | ... its path searches and heaps, and what is shown of them | `PageNet` |
| `RiskScores` | `ExtRisks.js`: the scores | - |
| `RiskPipeline` | ... the register from the service through synthesis and validation | `RiskScores` |
| `RiskPage` | ... mapping, caps, graph, caches, assessments, edits, acceptance | `RiskScores` |
| `GroupInsights` | `CommunityGroups.js`: insights, systems analysis, synthesis | - |
| `GroupMetrics` | ... metrics and health over time, and the network of groups | - |
| `GroupCosts` | ... cost tables and estimating jobs | - |
| `ScenarioDates` | `Scenario_Optimization.js`: projections, targets, apply, reset | `PageNet` |
| `ScenarioSearch` | ... both genetic searches and the saved scenarios | `ScenarioDates` |
| `MonteCarlo` | ... the simulator | `PageNet` |
| `ScheduleGraph` | service: links, snapshots (`DAGState`), cycles | - |
| `DagBuild`, `Cpm` | `build_dag`; `run_cpm` and its re-runs | `ScheduleGraph` |
| `CriticalPath`, `DrivingGraph` | the walk; `extract_driving_graph` | `Cpm` |
| `PathSearch` | `find_all_paths` and its two searches | - |
| `AnalysisService` | requests and their answers; the abstract service without caches | - |
| `ResultCache` | payloads, releases, both cache levels; implements `AnalysisService` (`INSTANCE ... WITH`) | - |
| `OutcomeRegistry`, `SolverRun`, `ParetoSweep` | registrations and reports; a solver run; the sweep | - |
| `SanitisedGraph` | `ensure_dag`, then `_risk_propagation` on its graph | `ScheduleGraph` |
| `PageProofs` | theorems | `EvmPage`, `CompletionPage`, `GroupInsights`, `RiskPipeline`, `GroupCosts`, `RiskPage` |
| `CalculationProofs` | theorems | `EvmPrediction`, `CompletionRecovery`, `GroupMetrics`, `FrontPaths` |
| `ScenarioProofs` | theorems | `ScenarioSearch`, `MonteCarlo` |
| `CriticalPathProofs` | theorems about `Cpm`, `CriticalPath`, `DrivingGraph` | `CriticalPath`, `DrivingGraph` |
| `RequestProofs` | theorems about what is made of a request | `DagBuild`, `SanitisedGraph`, `OutcomeRegistry` |
| `OptimiserProofs` | theorems | `SolverRun`, `ParetoSweep` |
| `ServiceProofs` | theorems about the caches and the searches behind them | `ResultCache`, `PathSearch` |
| `MC*` | instances for TLC | |

The contract between `DagBuild` and everything downstream is `WellFormed`: the run
and the theorem about `SnapshotWellFormed` show that `build_dag` hands over a
well-formed snapshot, and `Cpm` assumes (`SnapshotAssumption`) exactly that of the
snapshots it is given. So the two need not be composed in one state space.

The composition of the page's parts is in the state they share: `PageDates` holds the
node objects' dates, `isCritical`, the shared maps and the leftover order that all its
functions read; `CompletionPage` the nodes and the configuration that overlapping analyses
write; `RiskPage` the pipeline's results (its register answers) with caches, scores on
nodes and the user's edits; `ScenarioSearch` the dates of `ScenarioDates` and the
sensitivities of a simulation.

### How state and actions correspond to the code: the page

Names are the source's where TLA+ allows. A synchronous function is one action, or an
operator with the source's name; a handler is one action up to its next `await`. Each
state that two awaits lie between is a phase of a record.

**EvmPrediction.** The first part is operators: planned, earned and actual value of an
activity, totals, indices, estimates. An action is a stage of `createActualEVMChart`
(`StartActual`, then `Assign`, `Decay`, `Propagate` of
`updatePredictedValues_Improved`, then `Draw`), or `getCumulativeDistribution` alone.
`Propagate` goes along the topological order left by the dates engine (or its own) and
reads the predecessors' predictions as they are by then. Durations are kept in parts of an
hour because the prediction is a percentage of a percentage.

**EvmPage.** A refresh joins the request in flight when its fingerprint is the same, else
starts one; `Headers`, `EndBody`, `GiveUp` are the response, its parsing and the
abort timer (which is cleared when the headers have come); `Settle` is the promise's `finally`
and the reactions of every refresh that awaits it. `Edit` replaces arrays, changes activities
in place (with or without raising `evmInvalidationKey`) or changes the calendar.
`ContentFingerprint` and its cache by array identity and key are as in
`EVM.js:2302`; `unannounced` is a history variable for edits no fingerprint can see.

**CompletionDates, CompletionRecovery.** `addWorkingHours`, `computeExpectedSchedule` and
the pushes of the four relations are operators with the overrides of a recovery scenario.
`Expect`, `Simulate`, `Offer`, `Enrich`, `Select` are the analysis's stages: expected
schedule and scope; samples and P50/P80 schedules; options for crashing, leads and risk;
the assessments that come in later, by index; the options that the user selects. What the
hash of seed, iteration and activity draws is any value the multiplier's bounds allow.

**CompletionPage.** An analysis is a record whose `step` says which stage it awaits;
`Responded`, `Refused`, `NetworkFails`, `TimesOut`, `BodyEnds` are what may become of
a call, `RenderDashboard` the frame in which it is drawn, `ClickRisk` a click on a
risk card with the request it makes, `AskService` the services without a local
equivalent (without a timer), `Destroy` the page's end. Overlapping analyses
are in one state: they write to the same node objects.

**PageNet, PageDates.** A net is the nodes and links the page has now. `CalculateSlack` is
`calculateSlackWithCalendar_Optimized`, whose order and dates stay behind in
`cybereumState`; `FindDistances` and `SimulateCascade` reuse them, whatever has been
edited since (`EditNet`, `syncWorkingCalendarFromImport`, `ShareMaps`). A cascade takes the
links it is given or, called without them, those of the shared maps (`CascadeNet`), which may be
of an earlier net: `SlipUsesFloatFirst` then bounds the slip by what the dates leave, and is an equation when
the links are the page's own; `StaleDistancesFallShort` says the same of distances.
`FindCriticalPath` is the second engine; `ExtractDriving` the third, in either display mode.

**FrontPaths.** `findAllPaths` chooses the exact enumeration, done in one step with its
memoised suffixes, or the search longest first, whose turns are `Expand` (with seen states,
branch penalties, rebalancing and trimming) and `StopSearch`; `Rank`, `Choose`,
`ChooseDiverse` are the ordering and the two selections. The heaps are modelled on their
own (`MinPush`, `MaxPop`, `QueueTrim`, ...), index by index; the search takes from an ordered
bag, which is what `BestFirst` justifies.

**RiskPipeline, RiskPage.** The pipeline's actions are the answers and failures of its
three services and the turns of the synthesis: `Cluster` opens a cluster and merges it,
`SortMerged` sorts the merged risks, `Look` is a turn of the selection's loop, `Select` its
filling and renumbering. The stable sorts are by rank (`Ranked`). A risk that the service
sends without an id is one with `NoId`. In `RiskPage` an assessment goes on
with what is cached until it must ask (`StartAssessment`, `RegisterAnswered`,
`MappingAnswered`, `MitigationAnswered`, `OwnMitigationAnswered`); `Accept`, `EditRow`,
`AddSeed` are the user, `Tick` and `WorkProgresses` the clock and the project. Scores
are integers from 0 to 1000, products are rounded down.

**GroupInsights.** Showing a tab starts a fetch (its batches one after another, each with
its attempts) and a systems analysis; `OpenGroup` draws a card, with the deferred
insight if there is one; `AskSynthesis`, `SynthesisEnds`, `InjectButton`, `RenderTimer` are
the synthesis, its button and the timers; `cleanupBeforeProjectLoad` and `LoadProject`
replace the project under all of it.

**GroupMetrics.** `_calculateGroupMetricsInternal` and `calculateGroupHealthScore` are
operators; `Slip`, `Send`, `GroupAgain` are a prediction that delays an activity in place, a
request that sends the metrics, and a regrouping that throws the cached ones away.
`CountLinks`, `RankGroups`, `StoreGroups` are `computeGroupNetworkMetrics`.

**GroupCosts.** `ShowCostTab` fills tables, `EditCost` is an input event with its blur; groups go by their place in the tab; a job
is `EstimateCosts`, then per batch `Answers`, `AttemptFails`, `AskAgain`, and the ways in
which an answer can be used or lack its list.

**ScenarioDates, ScenarioSearch.** `handleResourceChange` and its delayed `RefreshTimer`,
`runTargetOptimization` (exhaustive or greedy, for days or for a date),
`applyOptimization`, `resetOptimization`, and `Reopen`, which reads the lists of paths again. The
optimiser knows only the paths it is handed (`pathResults`): those over critical activities, and
what `findOutlierPaths2` leaves of all others, which is without the short ones, those like another and those
over the limit (`PathLists`; that the host page fills them with these functions is assumed, because it is not in
the repository). Applying has them made anew by two functions of the host page;
where one is missing the code's own replacement throws, and the action ends there (`Refreshed`). A search runs to its end within one click, a generation an action: `evaluatePopulation`,
`Breed`, then `AutoEnds` or `ConstrainedEnds`. A population is a set: where the code takes the
first of an unsorted list or draws a tournament, any member may be taken.

**MonteCarlo.** `runSimulationBatch` is a batch, with the page's events between two;
`RunEnds` the analyses; `RunButton`, `OptimizerRuns`, `destroy`, `RunFails` who may
interfere. A duration is drawn from the ends and the mode of its distribution (the run draws the
ends).

### How state and actions correspond to the code: the service

Names are the source's. Variables are its local variables and arrays, an action is one
turn of a loop, one call, or one step between two points where another
thread, another worker or the environment can act. In detail:

**DagBuild.** `ReadLinks` is the reading of the links with its filters
(`dag.py` 80-103), the in-degrees and the first queue. `Visit` is a turn of Kahn's
loop (110-119). `FinishAcyclic` and `BreakCycles` are what follows it (121-147): the
activities that were not reached are appended in index order, then
links that go backward are pruned. Python's order of successor lists
is the request's order of links, left open: `Visit` may enter the ready
successors in any order. Ids are taken as unique.

**Cpm.** `ForwardVisit`, `TakeMakespan`, `BackwardVisit`, `TakeSlack` are the loops of
`run_cpm` and what is between and after them; `Rerun` is the caller that
changes `state.durations` and calls again (optimizer, adjoints, ensemble). ES is
cleared by a run and the other arrays are not, as in the code. Dates are
integers: the tolerance of 1e-9 of the mask becomes equality. Durations are natural
numbers: the routes of the packages refuse negative ones, but `/graph-metrics` does
not, and what its critical path is then is not covered.

**CriticalPath.** `Start`, `AppendSuccessor`, `Stop` are the choice of the first activity and
the turns of the walk (`dag.py` 262-294). Which critical successor comes first
is the request's order, left open.

**DrivingGraph.** `SearchCritical`, `SearchNear` start `enumerate_chains_backwards`
for the two kinds of chain; `ReachStart`, `DeadEnd`, `Expand`, `TryNext` and
`Backtrack` are the turns of its loop, with the stack of frames; `Merge` joins the two
lists, `Select` and `Return` are `select_outliers_by_novelty`. The
duration of a path is computed as the code does it, with the index that keeps
the last of parallel links. Left out: tooltips, and the mode "raw", which shows
what `Merge` has joined. `ActiveAssumption` takes the schedule as already filtered
to what lies between start and end, which the code does before it builds the
DAG again.

**PathSearch.** `ExactNext` is `enumerate_all_paths_exact` frame by frame:
`ReachEnd`, `UseMemo`, `Descend`, `Finish`, `Collect`. `LongestNext` is
`enumerate_longest_paths_first` with its `_PathTracker`: `GiveUp`, `SkipState`,
`Expand`, `Complete` (add, evict, reject or known), `Stop`. The priority of a partial path
only orders the search; the model takes any state off the heap and
trims to any subset, so what holds here holds for the code's order and
also for a changed priority.

**ResultCache.** The points at which threads interleave are lookup (`Hit`, `Miss`),
the lock of `lru_cache` (`_cached`), the analysis that runs outside it and enters
its result under it again (`Analyse`), the write (`Store`) and the
answer (`Reply`). `Outage`, `Expire` and `Restart` are the environment; a restarted
worker may run another release, pings Redis once (`redis_client`) and never asks
again. A request of a "package" endpoint uses only Redis under a key
without a release. `lru_cache` and Redis are modelled from their use and their
documented behaviour.

**AnalysisService** is the abstract specification: requests are submitted, answered
with their analysis, taken, or dropped when their worker is replaced. Under the mapping
in `ResultCache` a request is `asked` until its result is ready to go, and its
answer is what the thread holds then. No cache appears in it.

**OutcomeRegistry.** `Register` is `register_outcome` with its three outcomes: the
record reaches Redis, or the worker's own store, or both (the call was carried out
and its answer lost). A report is `Begin`, `Scan`, a `Read` per key, `Finish`:
other workers act between any two. `began` and `undisturbed` are history
variables, read by the properties only.

**SolverRun.** The value of an array is known by the point it belongs to, the samples
it was multiplied by and the activity it is perturbed at; which array
`dag_state.durations` and `params.durations` *are* is part of the state, since `run_cpm`
makes the one an alias of its argument. `Evaluate`, `Record`, `Converge`, `Timeout`
are `optimize`; `BeginDurations` ... `EndCounts` the finite differences of
`adjoints.py`; `Save`, `Sample`, `Restore` the ensemble. Where L-BFGS-B goes is
scipy's business: any point it has not tried.

**ParetoSweep.** `EstimateUtopia`, `BeginSweep`, `Optimise`, `EndSweep` are the two
rounds, each with its deadline; `Compare` is a turn of the filter's outer loop.
The optimiser may answer with any vector of objectives.

**SanitisedGraph.** `RemoveEdge` is a turn of the loop of `ensure_dag` (`app.py`
528-550), `EndRemoval` its end with the check of the flag (552-561), `Connect` the
tying of loose ends (569-594). Which cycle `find_cycle` meets first depends on the order of the
request's links, left open: any link may go that is the least of some cycle.
The node order matters once: activities that links name come before the
others, so they are the first milestones if there are any. `Propagate` and `FallBack`
are the turns over the components (971-1042), the second for a component whose
iteration does not converge in its 50 turns, `Return` the end. Risks are numbers in
the code and averages over predecessors; here a risk is the set of activities that it
comes from, and whether an iteration converges is left open. Self-loops do
not count as predecessors, as in the code. In a graph without cycles every
component is one activity, and the same steps are the loop of
`_risk_propagation`. Left out: `risk_transmission`, `coupling_density`, the
number of self-loops reported, and the check by NetworKit, whose answer is not used.

## 3. Runs

A run puts the machines of one family side by side: which of them a behaviour is about is
chosen first, and the others stay as they are. So a run has the states of the sum of its
machines and not of their product, and each property is checked on the machine it is about.

| Run | Question | Instance | Why it is enough |
|---|---|---|---|
| `forecast` | Do predictions follow links, are risk and recovery monotone, do curves meet? | `EvmPrediction`: three activities in every state of progress, any relation and lag, an order left behind that is topological, reversed or none; completion: a long and a short activity between two milestones, in every state of progress, several networks | a predecessor, a successor and one behind it show a push that is read too early; long and short activities tell the unfiltered index from the filtered one |
| `pages` | Is every refresh and every analysis answered, rightly? | three refreshes, one edit; two analyses, three calls, two risk cards, three kinds of backend | one refresh that asks, one that joins, one after; two analyses overlap, a click outlives another |
| `paths` | Do the page's engines agree, is any path lost? | diamonds with every relation, nets with float, a cycle, a tail; grids and a network with two groups of paths; heaps of up to six pushes of keys 1 to 3 | the two ways round a diamond are the least that compete; on the nets with float an engine may call too much critical, and a slip is used up or not, by the links taken; the two groups make the durations have two peaks; a heap of three levels needs the right child at least once |
| `risks` | Are risks lost or counted twice? | up to four candidate risks in the pipeline with a register of two to three; two activities, two risks, cap 1, two assessments, a time to live of 0 with one tick, a cache of one | the cap and the cache are hit; each of two activities could rely on the other; a second assessment starts from the results of the first |
| `groups` | Are insights, links, health and costs right? | insights: two tabs of two groups and one, two shows, two projects, batches of one, one retry; network: up to four links of four activities, among them a repeated one, an unknown end and a group 0; health: one to three activities, three delays; costs: tabs of four groups and of three, batches of two, one retry, two jobs, one edit | a fetch of a tab or a project left meets the fetch after it; the batches of a tab overlap an edit and another job; two groups share an estimate id |
| `scenario` | Do searches keep to what may be given, are results of one run, does the path shown control? | schedules of two paths, three of which one is not listed, other relations, an unlinked end; two days or an hour target; populations of two over two generations; simulations of one or two iterations in batches of one, two runs | the shorter path comes to control after one change, the one not listed after two; one generation breeds from one that was bred; a second run may start between two batches |
| `critical_path` | Are dates extreme, critical chains whole, the walk forward? | three activities, at most three links of all relations, lags -1 and 1, durations 0 and 2, two runs in place | a bound has two ends, and three activities give a chain, a fork and a join; the second run meets stale arrays; the rest is proved |
| `request_graphs` | What becomes of a request's graph, and are reports complete? | all 4,096 digraphs over four activities and 512 sets of odd links; graphs with up to four links, looped and complete ones, with five sets of milestones; diamonds with parallel links for chains; two workers, two registrations, a limit of two | four activities hold a cycle, activities before and behind it, and one beside it; the complete graph reaches the cap of cycle removal |
| `service` | Is what is computed under limits right, are caches invisible? | a worker with two threads, two releases, two payloads and a bad one, one cache entry; up to four solutions on a 3 x 3 grid; two activities, two samples, four points; four nodes with caps 3, 9 and 4 | two threads race for one entry and for different ones; ties and duplicates occur; every cap, eviction, rejection and budget is reached and also not reached |
| `target_date`, `risk_graph`, `synthesis_button` | Does the code do what its comments say? It does not: see section 6 | as in `scenario`, `risks`, `groups` (two tabs of one group each) | - |

What each property says is written above its definition. Where a property is a
conjunction (`DatesAgree`, `NothingCountedTwice`, `CyclesBroken`, `MetricsSound`, `ChainsSound`,
`ReportsSound`, `SearchSound`, `StateIsOfOnePoint`, ...) its conjuncts have comments of
their own; the type invariants are conjuncts of `ReportsSound` and `SearchSound`, or part of
the proved invariants.

In `service`, one worker that is replaced by workers of other releases stands for
several workers: they share only Redis, and what another worker writes there is
what this one wrote before its replacement. A worker's requests in flight are
dropped when it is replaced, which is the only thing a second worker would not do;
the writes of an overlapping old worker are under its own release's
prefix at the graph endpoint, and at a package's endpoint are of a release that the
property allows anyway.

Constants whose name begins with `Max`, and `HeapPushes`, bound how often users, pages and
environments act. They are bounds of the models; where theorems mention them, they hold
for each value. The limits of the code (`MAX_PATHS_PER_NODE`, `MAX_EXPANSIONS`,
`maxCriticalChains`, `MAX_RISKS_PER_ACTIVITY`, `maxRisks`, `BATCH_SIZE`, `cacheLimit`,
`CACHE_SIZE`, ...) keep their names and get small values, so that they bite.

`CHECK_DEADLOCK FALSE` is set everywhere: algorithms end, and pages and
services may come to rest when bounds are used up. That nothing stops half way is
what the liveness properties are for.

### Fairness

Liveness is checked for the parts of the page that wait for somebody:

* `EvmPage` (`RefreshEnds`): the abort timer fires while headers are out (`GiveUp`), settled
  promises run their reactions (`Settle`), and a body that has begun ends, well or not
  (`EndBody`). A response need never begin. The last assumption is needed because the
  timer is cleared when the headers come (`EVM.js:2423`): a body that never ends would
  leave the refresh waiting, and nothing in the code prevents it.
* `CompletionPage` (`AnalysisEnds`): timers of the two staged requests (`TimesOut`), frames
  (`RenderDashboard`), and again bodies that have begun (`BodyEnds`).
* `GroupInsights` (`FetchEnds`): a batch fails at the latest by its timer (`BatchFails`),
  the page's timers fire (`RenderTimer`, `InjectButton`). Nothing is assumed of a
  systems analysis or a synthesis, whose requests have no timer.
* `ButtonAppears` is refuted under the fairness of `FetchEnds`.

Nothing is assumed of answers, of users, or of their order. The service's machines state weak
fairness of their own steps in their specifications (loops of one thread, which the
operating system goes on to run); the runs that put them side by side check their
safety and the refinement `Transparent`, which is a safety property.

## 4. Proofs

All theorems hold for every value of the constants that meets the named assumptions.

**PageProofs** (`BackendsAssumption`, `GroupsAssumption`, `PipelineAssumption`, `CostsAssumption`,
`MappingAssumption`, `RiskPageAssumption`). Seven parts.

*EvmPage.* `AnsweredRight` is not inductive: a refresh joins by fingerprint, and the
fingerprint may be a cached one. `PageInv` adds the reasons: identities and keys only
grow, so a cached fingerprint with those of now is that of the content of now
(`CacheInv`); a request has the fingerprint of what it sends (`RequestInv`); the
slot has that of its request, which has not settled (`SlotInv`); and a refresh was given
what its request sends (`RefreshInv`). All but the shape holds only while
no edit went unannounced. `RefreshesAnsweredRight` then covers any number of refreshes
and edits.

*CompletionPage.* `CountFollowsSelection` speaks of quiet states only. `CorrectionIsDue`
says what holds between them: a banner with a wrong count always has an answer out for
the dashboard it is on. A click that changes the selection sends a request before it ends, and
an answer sets the count from the selection of that moment, so whichever answer comes last is
right (`CountIsOfTheSelection`).

*GroupInsights.* An opened card shows the newest insight because a card that is not open has
the newest one deferred (`KeptIsNewest`), and opening takes it; an open card
has nothing deferred. `NewestIsShown` holds for any number of groups, batches and attempts.

*RiskPipeline.* `ConfidentRisksSurvive` hangs on two facts: the ids after
renumbering are the positions (`NumberedRisks`), so what is discarded was asked about under
that id; and sorting what is kept loses nothing. The second is `RankedLists`: ranking by any
integer keys lists each member of a finite set, once, because ranks are distinct and no larger
than the set. `LookedAt` is what the selection's loop leaves behind it: each merged risk is
selected, or else it is deferred if its score is above 0.1 and its type is covered if it is
required. When the loop ends below the target it has seen every risk and takes everything
deferred (`ChosenFacts`), hence `RoomIsUsed`. Both hold for any candidates and metrics.

*GroupCosts.* `CostsInv` counts the lists a job has received against its batches: one list fewer
than batches asked means that none was missing, and then the job has the estimates of exactly
the groups in the batches before (`JobOK`). Each group is in one of the batches (`BatchOfGroup`), so with the
last list a job has them all; an estimate goes to the first group with its id (`FirstWithId`), which is the group
asked about when no other shares the id. That `Finish` alone changes tables is
`JobStep`. `EstimatesAlwaysKeepTheirGroup` is an action property: it holds for any tabs, batch
size, retries, edits and jobs. Assumed is that the groups of a tab are finitely many with
different names, as the code keeps them as properties of one object.

*RiskPage, the links.* `RisksStayWhereLinked` is about what a register and a mapping come to
through folds over lists, one inside another. A fold is a function of sets of places
(`IsFold`, `FoldExists`), so what one element takes from one property to the next, the
fold takes from the first to the last (`FoldKeeps`; a lemma for each fold, since none
takes an operator). `Entries` is what may be written for a register: a "coverage" entry only
for a risk that no mapping anchors (`AnchoredIds`). `Mapping` is the set of links that have
such entries and miss none of the ids asked for. Explicit and matched activities,
coverage, the cut and coverage again each go from one such set to another (`ExplicitMaps`,
`CoverageMaps`, `CapMaps`; together `IntelligentMaps`). The cut is the hard one. It counts down
while it goes, activity after activity, and the count of a risk is never more than the
places it still has (`CutDownKeeps`, `CutKeeps`), so the last of them stays. `RisksInv` carries
this to the page: whatever the order of answers of overlapping assessments, and whatever
the caches had, the activities are as the run that was scored last explains them
(`Explained`), and a run that still waits for an answer is never that one. Assumed is that risks have
numbers and mappings are lists, as the parsed answers are, and that importance is a number.

*RiskPage, the rest.* `ScoresOK`: what is saved of an activity is what it came with, since its score
and overrun are untouched until both are saved, in one step; then the overrun is a product of that and
of five at most, whatever scores the assessments come to. `NetworkOK`: the links that an accepted
mitigation brings are told from those of the network and, by their first positions, from each other
(`LinksAdded`, by way of `RankedLists`). That their ends exist needs `RowsShown`: a row was cut
to the nodes of its moment, and the network only grows. `NothingIsCountedTwice` holds for any number of
assessments, whichever ends last. Assumed is that activities have different ids and come with scores
and overruns that are not negative, and that a recommendation's rows have the fields the code makes for them.

**CalculationProofs**, about `EvmPrediction` (`CalendarAssumption`: some day of the week is worked, and holidays are
finitely many; `EvmAssumption`: activities are finitely many, numbered, and have the fields that
the page gives them, links and the order left behind are lists of anything). Cyclic links, links
to ends that do not exist, orders that repeat or forget activities and schedules that
`validateNodes` refuses are not excluded. The invariant `EvmInv` is `EvmTypeOK`, `Valid` (what
is being predicted was validated) and the two properties themselves.

A recursive function has no value that the prover could compute, so most of the module shows what
the definitions give. `SetRecursion` and `NatRecursion` say that a recursion over the
subsets of a finite set or over the naturals has a solution; sums (`SumUnfolds`), the decay's weights
(`WeightType`), Kahn's sort (`SortingExists`) and the propagation (`PropagationUnfolds`) follow
from them. Counting working days descends in the hours left and then in the days to the next working day, which
exists because a holiday is the last (`AnotherWorkday`, `GapExists`, `CountExists`); so dates stay
dates (`CountedInt`), which is `EvmTypeCorrect`.

`PredictionsRespectLinks`: Kahn's sort lists every activity of a network that has a
topological order, each after the sources of its links (`SortingSorts`). An activity that is pushed for the last
time starts where its links ask (`PushedMeets`); by then all sources have had their last push,
and nothing later moves it (`PassedKeeps`, `PropagationMeets`). So it also holds along an order
that visits activities twice. `EarnedValueNeverFalls`: the share of an activity earned by a day is
one of five cases of progress (`Share`), which join at the status date because the
forecast begins no earlier than it (`SharesGrow`); a sum keeps the order of its terms
(`SumsCompare`); and completing the start milestone in a later calculation changes nothing that the
drawn curve was measured by (`CurveStays`).

**CalculationProofs**, about `CompletionRecovery` (`CompletionAssumption`: a schedule's activities are
finitely many, numbered, and have the fields that the page has parsed; the cap on what is sent is a
number). Links, the reachable scope and the caps on options are anything; of the calendar only
`CalendarAssumption` is used.
`RecoveryInv`: between Offer and the next analysis the plan is what `buildCrashOptions` offers, or
what one answer makes of it. The theorem then is about functions. Candidates are ranked
by a recursion over the sets not yet ranked (`RankingExists`), which lists each once (`CandidatesListed`).
Dropping those with too few days left keeps that (`FlattenJoins`), so a number
names one activity though its place among all candidates is another (`AnswersUnderstood`). What
the greedy loop takes is a sequence of options whatever the hours (`GreedyPlans`), and
applying the assessments loses none with hours left (`AssessedOptions`). `SelectSeq`
is given no meaning by the provers, so the filters are written as joined sequences of one or none. An option may be
offered with no hours, since `Math.round` makes 0 of less than half an hour of need; any answer that is understood
drops it (`.filter(opt => opt.crashHours > 0)`), which is why `EnrichesItsCandidate` speaks of options
with hours.

**CalculationProofs**, about `GroupMetrics` (`NetworkAssumption`: activities and links are finitely many). The
ends of links may be anything, also outside of the schedule. `NetworkInv` says that from
CountLinks on `groupGraph` is what `computeInterGroupMetrics` returns, so `NoLinkIsLost` too is about a function. If
every member of a finite set has a mark, the counts of the marks add up to the size of the set
(`CountsAddUp`): this takes the unfolding of sums (`SumUnfolds`) and a smallest set of
marks for which it fails. The metrics are three such counts: of the links that leave a
group, marked by where they go (`LinksOfGroups`), of all that cross, marked by
the group at either end, and of those that stay (`AllLinksCounted`). In a group of up to three activities
the three largest hand-offs are all, so the rows are marks of the entering links (`HandoffsCounted`).
A group numbered 0 is excluded, as in the property: `sourceNode[groupType] || 'Unassigned'` looks its links up elsewhere.

**CalculationProofs**, about `FrontPaths` (`FrontPathsAssumption`; `SearchRequestsAssumption`: activities are
finitely many, the start among them, links are a list with numbers). Cycles, parallel links, links to ends
that there are not and negative lags are not excluded. `SearchInv` strengthens `NothingLost` by one fact: what a path in the
queue or in `stateCache` goes on from is in `stateCache`. Without it the property is not inductive, for
a path put into the queue might have been seen already and be skipped; with it, a path is first put there when the one
before it is first taken, since its own beginning was not in the cache until then. The queue is seen as a set of places with their
paths: a push adds a place (`PushedToAdds`), rebalancing moves none (`RebalancedKeeps`), a pop
takes one out and moves those behind it up (`PoppedLoses`, `ForemostIs`), so what is held is counted by the places (`HeldCounts`).
`PrefixGoesOn` is the step along a simple path, and `SimplePathsAreTrails` takes simple paths out of their recursive
definition. The bounds on expansions and on what is returned end the search, and trimming ends the promise.

**CalculationProofs**, about the heaps of `FrontPaths` (`HeapAssumption`: keys are integers). `BestFirst` is an action
property, and needs of the array before the step that it is a heap, that no item is in it twice
and that the newest item has the highest number (`HeapInv`). The loops that sift are recursions of as many turns as
there are items. `UpOK` and `DownOK` say what holds between two turns: only the item the loop has come to may
be out of place, against one neighbour, and its other neighbours fit each other without it. A turn keeps that and gets further
(`UpTurnKeeps`, `DownTurnKeeps`), so a loop of so many turns has stopped (`Turning`), with the same items in
order. `FirstOfTwo` is where the right child is compared with the better of parent and left child. A trim sorts by places
(`OrderFound`: each place is taken, by a count of those before), a sorted array is a heap, and sifting down a heap changes nothing
(`SiftsLeaveIt`), so the pass over the middle that the code adds after the sort is not needed.

**CriticalPathProofs**, about `Cpm` (`SizeAssumption`, `DurationAssumption`, `SnapshotAssumption`,
`RunsAssumption`, `StartDateAssumption`). `TypeOK` is not enough to show that dates
meet their links, since the arrays hold old values while a loop runs. The
inductive invariant `IInv` says what is settled: up to `pos` in the forward loop
each ES is the maximum of its bounds (`EarlyInv`) and no feasible schedule
starts earlier (`LeastInv`); from `pos` on in the backward loop each LF is the
minimum of its bounds (`LateInv`), no schedule of the same length starts later
(`GreatestInv`), and no LS is before its ES (`FloatInv`). That a visit disturbs no
settled date is the lemmas `ForwardKeepsBounds` and `BackwardKeepsBounds`, and here
the topological order is used: the far ends of links into a settled activity are
settled. `EarlyFeasible`, `EarlyLeast`, `LateFeasible`, `LateGreatest` and
`CriticalChain` follow at the end of the loops. `EarlyLeast` and `LateGreatest`
compare with every schedule with start dates in `StartDates`, so with that
constant equal to `Nat` they compare with all. `EarlyExact` and `LateExact` join each pair
and `DatesAreExact` both into the property that the run checks. The least schedule is proved against
schedules that start at or after time zero, which is what the floor of the code is for.

**CriticalPathProofs**, about `CriticalPath` (the same assumptions). The invariant of the engine
is carried over, since the walk writes no array: its step lemma is cited for the engine's
steps. `WalkInv` adds that the path is made of critical activities in the order of the
snapshot, that it begins at time zero, and that its last activity is critical. `Start` finds
a first activity because the critical one that comes first in the order has no tight
link into it (`ChainsFollow` would give a critical predecessor), so its start is
zero: the branch for "no critical start" is dead code. `Stop` is possible only
at an activity without critical successors, which ends with the project by the
same lemma (`PathSpans`); successors come later in the order (`PathOrdered`).

**CriticalPathProofs**, about `DrivingGraph` (`ActiveAssumption` and `ConfigAssumption` too). The
chains that a search should find are defined by a recursion along the order
(`AllChains`); `AllChainsAre` shows that the sets of chains, each given by its links, solve that recursion and
that nothing else does, by induction over the places of the order. `StackInv` says that
the stack is the end of a chain and that a frame keeps only predecessors it has not
followed; `FoundInv` that what is found are chains, each once, that none of them is
`Pending` (still to come from some frame of the stack), and that where nothing
is too deep each chain is found or pending: at the end of a search without a limit nothing is pending, so
everything is found (`ChainsFoundExactly`). `WitnessInv` is why a critical chain is found at
all under a limit: where links are plain the first descent never meets a dead end, so `N`
expansions bring it to the start. `ChainsSpan` needs that the recursion of
`path_duration` along a chain exists and never exceeds the early dates, and meets them on a critical chain.
`Chosen` says of the selection that it leads with a longest chain, that its members differ
pairwise, and that each chain passed over resembles a selected one that lasts as long
(`SelectionIsMaximal`). `ChainsAreSound` joins the three.

**RequestProofs**, about `DagBuild` (`SizeAssumption`, `RequestAssumption`). `KahnInv` says what holds
at the head of the loop: the in-degree of an activity is the number of its links
whose source is not visited; the queue and the visited activities are exactly those
with count zero, none twice; a visited activity comes after all its predecessors;
nothing visited is trapped. When the queue is empty and activities remain, each has
a pending link from another that remains, so all of them are trapped
(`LossIsConfined`, `ReachesTheRest`), and the pruning by position makes
the result well formed (`SnapshotIsOrdered`); `BreakingIsSound` joins the three. `NeverRequeued` shows that the
loop's check for visited activities is dead code; no run checks it.

**RequestProofs**, about `SanitisedGraph` (`MetricsRequestAssumption`). `RemovalInv`: whatever was
removed closed a cycle of the request, and the warning about cycles says what is so of the
edges. `BetweenMilestones` is inductive because tying loose ends to a start
that nothing leads to and an end that leads nowhere makes no path that was not there
(`TyingLinks`); that every activity then lies between the two is a counting argument, as going back
for ever without meeting the start would need more activities than there are (`BackForever`, `OnForever`).
`RiskInv`: activities whose risk is settled are closed under predecessors, and on an acyclic graph
the risk of each is made of exactly the activities that reach it. Reachability is
handled through the sets that links do not leave (`ReachesBySets`), which avoids induction on paths.

**RequestProofs**, about `OutcomeRegistry` (`RegistryAssumption`). `ReportInv` speaks of each report on its
own: while nothing has disturbed it, what was stored when it began is stored still and where it reads
is where it scanned (`Awaited`); and the keys left to read with those read cover what was
stored when it began, unless the limit was met (`Kept`). An outage, a restart or an
expiry under a report disturbs it, and then only the limit and the truth of each record
are promised.

**ScenarioProofs**, about `ScenarioSearch` (`ScenarioSearchAssumption`). `SearchInv` speaks of every allocation a
search may still report: population, best and evaluations. Sampling, seeds, crossings and
mutations each keep that it gives at least one resource to whatever it names and names only
what may be given more or what the simulation called sensitive (`AllocationsAreSound`).

**ScenarioProofs**, about `MonteCarlo` (`MonteCarloAssumption`). While the dialog is open there is at
most one run and what it has done and has to do add up to what was asked (`AloneInv`,
`OneRunAtATime`); each result stands beside the finishes of its own iteration (`Beside`).
Together with the summary's count they give `ResultsAreOfOneRun`.

**ServiceProofs**, about `ResultCache` (`PayloadAssumption`, `CacheAssumption`). `CacheOK` says
that an entry, of Redis or of `lru_cache`, is the analysis that its key names;
`ThreadOK` what a thread holds between two of its steps: a key that belongs to its
payload and its worker's release, and, once computed, that key's analysis. The
second is what makes the first hold when a thread writes after others have.
`Coherence` also says that `lru_cache` keeps to its size without repetitions.
`CachesAreInvisible` is the refinement: under the mapping in `ResultCache` the initial state is
initial in `AnalysisService` and each step is a step of it or changes nothing
there.

**ServiceProofs**, about `PathSearch` (`PathRequestAssumption`). The paths that an answer is measured by are
again a recursion (`AllPaths`) that is shown to have exactly one solution, the sets of
walks from a node to the end (`AllPathsAre`). `ExactInv` says of the exact search that
each frame holds paths from its node, and, as long as no list has reached the per-node cap, all those
through the children it has tried (`FrameOK`); of the memo the same for whole nodes (`MemoOK`); that
each frame is for the child its parent tried last (`Linked`). The steps keep it by one lemma
about taking in a child's suffixes (`SuffixesAdded`) and one about putting the
result in place of the top frame (`GoesOn`); the last step needs that the fold that drops
repetitions keeps every element once (`DistinctIs`). `LongestInv` says of the search longest first
that while nothing was given up, every continuation of an expanded state is expanded or on
the heap (`Closed`), so an empty heap means that every prefix of every path was
expanded (`EveryPathMet`); and of the tracker that what it lacks is no longer than what
it has, that it has no path twice, and that it has everything until it
drops something (`TrackerOK`), where it matters that a path evicted may come again with a
larger estimate. The estimates of the heap's states are not used: the theorem
holds in whatever order they are taken. `SearchIsSound` joins types, `KeepsLongest` and
`UntruncatedIsExhaustive`.

**OptimiserProofs**, about `SolverRun` (`RunAssumption`). `SharingInv` says which arrays are shared when: the
scratch copy of the finite differences is never `params.durations`, is
`dag_state.durations` only while durations are perturbed, and outside those loops both
are one vector whose dates are computed. `PhaseInv` says whose vector that is: of the
point under evaluation, the baseline, the outcome, or one sample of the values to
restore. `BestInv` says what `best` is the best of, with the point under
evaluation set aside. `AtOnePoint`, `Independent` and `Optimum` follow from the first
two, `BestKept` from the third by way of `TimeoutLands`, which names the
point at which a run that is cut short is left.

**OptimiserProofs**, about `ParetoSweep` (`SweepAssumption`). `Witnessed`: each marked solution is
dominated by one that is not marked. `Compared`: each solution that the loop has passed is
marked, or everything it dominates is. Together they give `FrontierIsExact` though
marked solutions are never compared: what one of them dominates, its own
unmarked dominator dominates too. `FrontierCoversAll` is the first conjunct at the
end; no run checks it. Nothing is assumed of the objectives but that they are integers.

**Only model-checked.** Liveness (no ENABLED and no fairness in this prover). Of the page, its
calculations: `PageDates`, whose `RECURSIVE` operators leave the prover no
SMT backend; of `FrontPaths`, `ExactFindsAll` (a recursion that hands its memo from one neighbour to the next;
its condition counts routes by link and not paths, because parallel links put a path into the memo once
for each: with room for three, three links into one neighbour already crowd out the path over another),
`SelectionSound` (sorted sequences, filtered and merged); of `GroupMetrics`, betweenness (whose reference counts all paths) and the score, whose many
bands would be one case each; of `CompletionRecovery`, `ScheduleSound`, `RecoveryNeverHurts` and `CurvesMeet`, and the
projection of `ScenarioDates` (`ControllingIsTheNetworks`), which compute with sorted sequences and recursive functions
over whole schedules in one step. For `ScheduleSound` and `RecoveryNeverHurts` there is a second reason: `addWorkingHours` is not monotone in a
date on a weekend, because going on to Monday keeps the time of day (Saturday 23:00 and two hours
are Tuesday 1:00, Sunday 0:00 and two hours Monday 2:00), so they would need dates on working days,
which the code does not ask for; the runs' dates do not meet such a pair. What such a computation returns for every input
would be an induction over data, and the induction theorems take operators as parameters. Where
the recursion follows the order of a schedule (`AllChains`, `path_duration`, `AllPaths`), the
length of a sequence (`Pushed`, `Distinct`), the places of a sequence (`FoldExists`), the
subsets of a set or the calendar (`CalculationProofs`), the proofs go round this: they guess the
solution, show by well-founded induction on a set of numbers that it is one, and that there is
no other.

## 5. What is abstracted, and what is not modelled

* Floating point: dates, durations, lags and objectives are integers; shares are whole
  percents or per mille, rounded down. Rounding, and the tolerances that absorb it,
  are not seen.
* Time: timers and deadlines may go off at any moment that the code leaves them armed; how long
  anything takes is not seen.
* Chance: samples, hashes, crossings and mutations are choices among the values that the code
  can draw. Nothing is said of distributions.
* What a service answers is any of a few answers, well-formed or not, or a failure.
* Redis failures are "unreachable for a while" and "carried out, but the answer is
  lost"; data is not corrupted.
* Networks: an order takes the least ready activity next where the code takes the first in line, and
  ids are distinct (`DagBuild`, `Cpm` also have no negative durations). In `EvmPrediction` the maps
  are those of the links there are. `PathLists` has the exact enumeration, as for small networks.
* Answers of services: a validation names risks it was asked about and changes their confidence only
  (`ExtRisks.js:1194` looks among all and assigns any field); a batch of insights
  answers for its own groups (`CommunityGroups.js:1145` does not check); a mapping is by
  id, without the match on part of a category (`ExtRisks.js:2664`).
* A refresh of the EVM view that fails falls back on the page as it is then (`EvmPage.Settle`), the code
  on the arrays it started with; the scan for outcomes is one step, Redis's is incremental, and
  `ReportsSound` speaks only of keys there from the start; the constraint search always projects
  and dates as it does under a hard constraint of time, the code otherwise compares rounded lengths
  (`Scenario_Optimization.js:11102`), and has one limit for every activity.
* Order of answers: the lists of `PathSearch` are compared as sets, and the order by
  duration in which `find_all_paths` returns them is left out.

Not modelled of the page:

* `EVM.js`: drawing of charts, export, tooltips.
* `Completionprediction.js`: prompts, layout, explanations.
* `PathScripts.js`: mining of path patterns, statistics of clusters beyond their number and
  members, the lists on the page.
* `ExtRisks.js`: sentiment divergence and weather confidence (284-382), prompts, the table's
  drawing. The loader of scripts is external.
* `CommunityGroups.js`: `calculateAdaptiveLayoutConfig`, `ensureAnalyticsState`,
  `buildPortfolioSummary`, `processProjectGroups`, the registry of groups (225-465), the
  drawing of the cost dialog (8533-8840), sampling of betweenness above 100 groups; and code
  that nothing calls: `inferControlAccounts`, `findControlAccount`, `classifyCostType`,
  `applyEstimatesToCBS`, `calculateCBSTotals`.
* `Scenario_Optimization.js`: the AI parameter services (13299-14313), managers and caches
  at the top (28-330), recommendations, drawing. `calculateLateDates` and `calculateSlack`
  are never called.

Not modelled of the service: distances, selections, forecast, recovery and EVM are ports
of page functions that are modelled; statistics, centralities, communities, scores and
curve fits are numerical library calls or closed formulas; request validation and layout of
responses; the citation checker. `components` in `PROJECT.json` gives the reason for each.

## 6. Where code and documentation disagree

Three disagreements are shown by runs that end in a counterexample:

* `target_date`: "Find optimal resource allocation to meet a target reduction or date"
  (`Scenario_Optimization.js:4464`). The reduction achieved is measured on the longest of the
  optimised critical paths (`:4867`). In the run one resource cuts the critical path from 5 to 4
  rounded days; a near-critical path of the same rounded length ends last, and success is
  reported with an end after the date.
* `risk_graph`: "Build risk nodes and Risk→Activity links [...] Supports 1 risk → many
  activities" (`ExtRisks.js:4865`). `materializeRiskGraph` is called with its arguments
  swapped (`:4174`), and the graph has no links.
* `synthesis_button`: "ensures button appears even with timing races"
  (`CommunityGroups.js:1915`). A tab shown again makes its container anew, without the button;
  its new fetch makes the synthesis unavailable for the moment and uses up the attempts (`:1917`);
  the event that would help was sent before.

What follows was met in reading and is recorded without a run. The models do what the code
does; where a property had to leave a case out, it says so above its definition.

`EVM.js`:

* A completed activity without `ActualStart` can be pushed past the status date.
* The forecast's cumulative curve counts both ends of a span but divides by the days between.
* The calendar is not in the fingerprint, and in-place edits are unseen unless
  `evmInvalidationKey` is raised. Responses out of order overwrite newer ones.
* The topological order and maps in `cybereumState` may be stale. A negative slip makes
  the earned value fall, which `EarnedNeverFalls` leaves out.

`Completionprediction.js`:

* `addWorkingHours` ignores leads, and is not monotone for times on weekends.
* A crash is ignored for activities that have not started but have a planned finish; FF and SF
  pushes pull the start back by the uncrashed duration; an FS push can pull an inconsistent
  planned finish earlier; of parallel links the last wins.
* P50 and P80 of started activities ignore predecessors, and FF/SF into started ones are not in
  the risk schedule. Enrichment comes after the summary and the card payload were made, so
  both show the savings of before; its three-day filter does nothing at 8 hours a day.
* Answers about mitigations in another order show an older selection's risk beside the newest
  count; a deselection is overwritten by a late answer; answers for a replaced dashboard
  overwrite the new one. Mitigated simulations use another seed.
* Overlapping analyses write to the same nodes and to `CONFIG.workingHoursPerDay`;
  `_lastAnalysis` is of whichever ends last. A fallback is counted twice when the local
  calculation throws. The outcome and calibration services and `fetchReferenceClasses` have
  no timer.

`PathScripts.js`:

* Distances reuse the order and maps of the last slack calculation. `convertDurationToHours`
  reads `CONFIG.workingHoursPerDay`, which is never set there.
* `simulateCascade` without links follows shared maps of an earlier net.
* `findPathsUsingMap` searches the predecessor map in the wrong direction;
  `findAlternateNearCriticalPaths` calls `findAllPaths` without its node map and throws;
  `getDrivingPathAndAlternates` passes `maxCriticalPaths` where `succMap` is expected; the
  previous selection mode is restored as `undefined`.
* On cyclic graphs remembered suffixes miss paths. The search stops when its tracker is full, so
  the eviction is dead code. `_calculatePriority` ignores criticality unless the estimate is
  0. The fallback fill of the selection returns dependent paths; with several peaks the
  longest path may not be shown; parallel links make duplicates;
  `extractStructurallyDiversePaths` can starve branches.
* Late finishes are capped in one engine and not in the other. On cycles the driving graph
  counts a late start that was never set as 0.

`ExtRisks.js`:

* `riskScore` compounds over assessments while the overrun ratio starts from the saved value
  (`NothingCountedTwice` is about the ratio and the links).
* The cache key has counts and progress only, so different projects collide; after the time to
  live a new register can meet a fresh mapping of the old one; a failure's basic mapping is
  cached, and a malformed one is cached and throws on each assessment until it expires; a set
  evicts although its key is there. The amplification is one assessment late.
* `externalRiskConfidence` is not copied to page nodes. Editing the table removes every
  risk with the same id; merging keeps the first id and probability; types that a
  sector requires are not guaranteed at the target. Mitigations from the cache do not set
  `cybereumState.mitigationResult`; accepted lists are posted in its place and overwritten by
  the next save; saves are not ordered. A chosen predecessor or successor may close a cycle.

`CommunityGroups.js`:

* Fetches of an old project write into the new one's state, and `_pendingGroupInsights`
  survives the cleanup. An answered batch that lacks ids leaves those groups without an insight for good;
  `isGroupInsightsComplete` is true after one type; the "8 retries" of
  `updateSystemsInsightsUI` never happen.
* A group with the number 0 is looked up as 'Unassigned' when links are counted. With an actual
  cost of 0 the CPI is infinite; the health falls from up to 100 to 95 when progress passes 95 %.
  Cached metrics are kept by array identity, so nodes that change in place leave them stale.
* An inferred material amount is 100 times what any edit or blur then computes; two groups
  whose first activities share a `WBS_ID` share an estimate id; the project's total adds the
  tables of all tabs shown and is overwritten by the service's summary; a job goes on when its
  tab is left; showing a tab again loses edits and estimates; the timer bounds only headers;
  the export finds no data on work groups; a refused input is entered as 0 or
  the limit by the blur.

`Scenario_Optimization.js`:

* Early dates use raw durations beside lags in hours. `_impactCache` is not cleared by apply. A
  failed exhaustive search leaves its largest allocation on the sliders. Apply counts hours of the
  clock and shrinks the finished share too. `applyOptimization` returns nothing, so
  `applySolution` always reports a failure. Without the host's `calculateCriticalPath` it calls
  `findCriticalPath` without the maps that reads (`:5412`), without `calculateOutlierPaths` `findAllPaths`
  without its node map (`:5431`); both throw after the plan, the baseline and the end have changed and before the
  projection, the lists and the drawing have.
* A path outside the critical and the outlier list is never looked at: when the listed paths are
  shortened by more than a fifth it may be the longest, and the projected end is too early.
  `ControllingIsTheNetworks` is an equation only short of that, and a bound beyond.
* The automatic search without daily savings never succeeds, and its early returns lose the
  user's allocation although `:5663` says it is restored. Violations are never
  reported (`:11262` reads `deadline`, `extractTimeConstraints` stores `date`). A
  tournament among fewer than four throws. Seeds from a simulation give resources to
  constrained or finished activities (`GivesOnlyWhatMayBeGiven` lets those and no others).
* A path counts as critical whenever its last activity ends with the project (`:7131`).
  Activities off the critical path are passed a difference where a number is expected and lengthened
  to 1.75 times (`:7760`). Resource "durations" are differences between finishes of
  different iterations (`:7465`). Sensitivities of the last run stay while the next is
  under way, and the constraint search's insights come after its population was made. Destroying in
  the middle of a run makes its next iteration throw.
* A generated risk that comes without an id goes by its new number when the borderline risks are
  looked up (`ExtRisks.js:1164`), and so may be sent for validation, and discarded, in the place of a
  borderline one; `ConfidentRisksSurvive` speaks of the risks that came with an id.

The service:

* `critical_path_length` is documented as the total duration of the critical path
  (`docs/api/graph-metrics.md:83`), and is the makespan (`app.py:288`).
* The calibration report names "redis" as its storage while it reads the in-process store
  during an outage (`completion/outcomes.py:428`, against the docstring at 149).
* One milestone that is first start and first end closes a cycle that no warning reports
  (`app.py:575`, against the comment at 1406).
* The docstring of `build_dag` says "back-edges silently dropped" (`solver/dag.py:69`);
  links that close no cycle, between activities downstream of one, are dropped as well.
  `LossOnlyAmongTrapped` says how far the loss goes.
* A self-loop on a member of a larger cyclic component is dropped without being
  counted (`app.py:1013`), where `docs/api/graph-metrics.md:316` has `self_loop_dropped`
  for "one or more self-edges". The count is not modelled.
* `cache_hit` is `False` for a result that `lru_cache` served (`app.py:1529`), where
  `docs/api/graph-metrics.md:90` says "`true` if result was served from cache".
* `redis_configured` is `false` when the ping at import failed (`app.py:1554`), where
  `docs/api/health.md:41` says "`true` if `REDIS_URL` env var is set".
* SCAN may return a key twice, and `completion/outcomes.py:325` does not remove
  repetitions, so `n` at line 358 ("total outcome records") may count a record twice.
  `ReportComplete` therefore speaks of the keys a report has, not of their number.
* `n_explored` is the number of weight vectors planned (`solver/pareto.py:186`,
  `solver/core.py:251`), where `docs/api/solver.md:356` says "Total weight vectors
  evaluated"; with a deadline they differ.
* `corpus_truncated` of the exact search is set when a per-node cap is reached exactly
  (`paths/enumerate.py:220`), though nothing was dropped; lines 572-573 say
  "only when enumeration actually dropped paths". `UntruncatedIsExhaustive` says of
  this flag only what holds where that cap does not fire.
* The index of `paths/enumerate.py:79` keeps the last of parallel links, and the scan at
  117-123 finds the first; the docstring calls them equivalent. `ChainsSpanProject`
  therefore promises a duration equal to the project's only without parallel links.
* `paths/distances.py:58` says that the longest distance matches ES for FS-only
  networks; the sweep has no floor at zero, so with negative lags it does not.

## 7. Plan

Done: all six files of the page and the concurrent or limited parts of the service, with
proofs where a property does not hang on recursion over data.

Next, in this order:

1. To prove: `ScheduleSound` and `RecoveryNeverHurts` of `CompletionRecovery` for dates on
   working days, on `CalculationProofs`' lemmas about the calendar and about passes along an order.
2. `ExtRisks.js`: sentiment divergence and weather confidence behind `RiskPipeline`.
3. `CommunityGroups.js`: the registry of groups and `processProjectGroups`, in front of
   `GroupMetrics`.
4. `Scenario_Optimization.js`: the AI parameter services and their cache, in front of
   `ScenarioSearch`.
5. The ports in the service (`paths/distances.py`, `completion/`, `evm/`) against the page's
   modules: the same inputs must give the same dates.
