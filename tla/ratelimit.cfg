SPECIFICATION FairSpec
CONSTANTS
    Requests = {r1, r2, r3}
    MaxRequests = 2
    MaxFailures = 2
    MaxCount = 6
INVARIANT LimitKept
PROPERTY LockoutEnds
CHECK_DEADLOCK FALSE
