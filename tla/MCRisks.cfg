SPECIFICATION Spec
CONSTANTS
    PipeCases <- MCPipeCases
    baseRisks = 2
    maxRisks = 3
    maxMergedMitigations = 8
    maxMergedIndicators = 6
    maxValidationBatch = 1
    Stopwords = {"the"}
    Activities <- MCActivities
    Traits <- MCTraits
    TypeMapping <- MCTypeMapping
    WordMatch <- MCWordMatch
    SupplyTypes = {"Supply Chain"}
    MAX_RISKS_PER_ACTIVITY = 1
    maxFallbackActivities = 1
    Own <- MCOwn
    RegisterAnswers <- MCRegisterAnswers
    MappingAnswers <- MCMappingAnswers
    MitigationAnswers <- MCMitigationAnswers
    SeedRisks <- MCSeeds
    MaxAssessments = 2
    MaxTime = 1
    MaxSeeds = 1
    ttl = 0
    cacheLimit = 1
INVARIANTS ConfidentRisksSurvive SelectionUsesItsRoom RisksStayWhereLinked NothingCountedTwice
CHECK_DEADLOCK FALSE
