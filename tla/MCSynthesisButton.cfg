SPECIFICATION ButtonSpec
CONSTANTS
    dataDate = 5
    NetworkCases <- MCNetworkCases
    HealthCases <- MCHealthCases
    MaxDelays = 0
    CostTabs = {"WBS_ID", "CommunityGroup"}
    TabGroups <- MCTabGroups
    EstimateOf <- MCEstimateOf
    COST_BATCH = 2
    MAX_COST_RETRIES = 0
    EditedValues <- MCEditedValues
    HighestValue = 10
    MaxTabShows = 0
    MaxCostEdits = 0
    MaxJobs = 0
    Groups <- MCSingles
    FirstTab = "WBS_ID"
    BATCH_SIZE = 1
    MAX_RETRIES = 0
    InjectionTries = 2
    RenderTries = 1
    MaxShows = 3
    MaxProjects = 1
    MaxSyntheses = 0
PROPERTY ButtonAppears
CHECK_DEADLOCK FALSE
