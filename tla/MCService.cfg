SPECIFICATION MCSpec
CONSTANTS
    w1 = w1  s1 = s1  s2 = s2  p1 = p1  p2 = p2  bad = bad
    Workers = {w1}
    Slots = {s1, s2}
    Payloads = {p1, p2, bad}
    BadPayloads = {bad}
    Releases = {"v2", "v3"}
    Requests <- MCRequests
    CACHE_SIZE = 1
    disciplines <- MCDisciplines
    Objectives <- MCObjectives
    weight_vectors = 4
    n = 2
    M = 2
    Points <- MCPoints
    x0 = "x0"
    w_obj <- MCObjective
    MaxEvaluations = 4
    N = 4
    PathRequests <- MCPathRequests
    MAX_PATHS_PER_NODE = 3
    max_expansions = 9
    no_improvement_cap = 4
INVARIANTS
    FrontierExact
    StateIsOfOnePoint
    SearchSound
PROPERTY Transparent
CHECK_DEADLOCK FALSE
