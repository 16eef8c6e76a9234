SPECIFICATION MCSpec
CONSTANTS
    WorkingDays = {1, 2, 3, 4, 5}
    Holidays = {9, 18}
    HoursPerDay = 10
    EvmSchedules <- MCSchedules
    relaxationMaxIterations = 10
    CompletionSchedules <- MCCompletionSchedules
    scopeMaxNodes = 3
    monteCarloMaxActivities = 10
    monteCarloIterations = 2
    maxRecoveryOptions = 2
    maxLagOptions = 1
    maxRiskCandidates = 2
    aiEnrichmentMaxCandidates = 2
    chartEndBufferDays = 3
    maxCurveSamplePoints = 20
INVARIANTS
    PredictionsFollowLinks
    EarnedNeverFalls
    ScheduleSound
    RecoveryNeverHurts
    EnrichesItsCandidate
    CurvesMeet
CHECK_DEADLOCK FALSE
