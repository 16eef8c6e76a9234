SPECIFICATION MCSpec
CONSTANTS
    PageNets <- MCPageNets
    DayHours = {1, 2}
    Slips = {1, 3}
    MaxChanges = 1
    nearCriticalFloatTolHours = 2
    nearDrivingTolHours = 1
    maxCriticalChains = 4
    maxNearCriticalChains = 4
    maxExpansions = 30
    maxDepthGuard = 8
    maxDisplayChains = 3
    minJaccardNovelty = 25
    drivingModes = {"raw", "outliers"}
    MAX_OUTLIERS_SCAN = 1000
    SelectedMaxPaths = 4
    maxPathsPerBranch = 30
    minPathsPerBranch = 3
    minPathsForAnalysis = 10
    SearchRequests <- MCSearchRequests
    MAX_PATHS_PER_NODE = 8
    MAX_EXPANSIONS = 80
    branchLimit = 2
    rebalanceInterval = 3
    HeapKeys = {1, 2, 3}
    HeapPushes = 6
INVARIANTS
    DatesAgree
    CriticalAgrees
    DrivingAgrees
    ExactFindsAll
    NothingLost
    SelectionSound
PROPERTY BestFirst
CHECK_DEADLOCK FALSE
