\* Two runs in place over every snapshot of three activities and at most three
\* links, any relation, lags -1 and 1, durations 0 and 2, and the walk.
CONSTANTS
    N = 3
    MaxRuns = 2
    Durations <- MCDurations
    Snapshots <- MCSnapshots
    StartDates <- MCStartDates
SPECIFICATION WalkSpec
INVARIANTS DatesExact CriticalPathSound
CHECK_DEADLOCK FALSE
