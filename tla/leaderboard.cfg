SPECIFICATION FairSpec
CONSTANTS
    Players = {1, 2}
    MaxDay = 3
    Adds = {a1}
    MaxPoints = 2
    TopN = 1
    Passes = {p1, p2}
    Overruns = TRUE
    MaxFailures = 1
    None = None
INVARIANTS TypeOK RowsAreTheBoard
PROPERTIES PointsKept EndedDayPersisted
CHECK_DEADLOCK FALSE
