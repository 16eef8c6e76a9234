SPECIFICATION MCSpec
CONSTANTS
    N = 4
    MaxRuns = 1
    Durations <- MCDurations
    Snapshots <- MCSnapshots
    StartDates = {0}
    start_idx = 1
    end_idx = 4
    near_critical_float_tol = 2
    near_driving_tol = 1
    max_critical_chains = 3
    max_near_critical_chains = 2
    max_expansions = 16
    max_depth_guard = 4
    max_display_chains = 3
    min_jaccard_novelty = 30
    Requests <- MCRequests
    MetricsRequests <- MCMetricsRequests
    w1 = w1  w2 = w2  s1 = s1  c1 = c1  c2 = c2  q1 = q1
    Workers = {w1, w2}
    Handlers <- MCHandlers
    Classes = {c1, c2}
    Projects = {q1}
    LIMIT = 2
    MaxRegistrations = 2
INVARIANTS
    CyclesBroken
    MetricsSound
    ChainsSound
    ReportsSound
CHECK_DEADLOCK FALSE
