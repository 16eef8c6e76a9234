CONSTANTS
    MAX_OUTLIERS_SCAN = 1000
    SelectedMaxPaths = 20
    maxPathsPerBranch = 30
    minPathsPerBranch = 3
    minPathsForAnalysis = 10
    Plans <- MCPlans
    HoursPerDay = 8
    StartHour = 8
    Levels = {1}
    DaysWanted = {2, 9}
    HoursEarlier = {24}
    MaxTaskResources = 2
    ExhaustiveLimit = 2
    MaxApplies = 1
    SearchPlans <- MCSearchPlans
    PopulationSize = 2
    MaxGenerations = 2
    MaxMutations = 1
    maxResourcesPerTask = 2
    SeedSpread = 1
    DailySavings = {0, 500}
    Sensitive = {3}
    MaxSearches = 1
    MaxScenarios = 1
    SimulatedPlans <- MCSimulatedPlans
    Drawn = {"low", "high"}
    Iterations = {1, 2}
    OptimizerIterations = 1
    RunBatch = 1
    WorkingHours = 8
    MaxRuns = 2
SPECIFICATION MCSpec
INVARIANT TargetDateIsMet
CHECK_DEADLOCK FALSE
