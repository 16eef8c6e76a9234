SPECIFICATION MCSpec
CONSTANTS
    dataDate = 5
    NetworkCases <- MCNetworkCases
    HealthCases <- MCHealthCases
    MaxDelays = 3
    CostTabs = {"WBS_ID", "CommunityGroup"}
    TabGroups <- MCTabGroups
    EstimateOf <- MCEstimateOf
    COST_BATCH = 2
    MAX_COST_RETRIES = 1
    EditedValues <- MCEditedValues
    HighestValue = 10
    MaxTabShows = 2
    MaxCostEdits = 1
    MaxJobs = 2
    Groups <- TabGroupKeys
    FirstTab = "WBS_ID"
    BATCH_SIZE = 1
    MAX_RETRIES = 1
    InjectionTries = 1
    RenderTries = 1
    MaxShows = 2
    MaxProjects = 2
    MaxSyntheses = 1
INVARIANTS
    ShownIsNewest
    LinksConserved
    BetweennessCountsPaths
PROPERTIES
    FetchEnds
    DelayNeverHelps
    EstimatesKeepTheirGroup
CHECK_DEADLOCK FALSE
