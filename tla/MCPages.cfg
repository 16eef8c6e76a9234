SPECIFICATION MCSpec
CONSTANTS
    MaxRefreshes = 3
    MaxEdits = 1
    MaxAnalyses = 2
    MaxCalls = 3
    RiskCards = {c1, c2}
    Backends <- MCBackends
INVARIANTS
    AnsweredRight
    CountFollowsSelection
PROPERTIES
    RefreshEnds
    AnalysisEnds
CHECK_DEADLOCK FALSE
