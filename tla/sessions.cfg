SPECIFICATION Spec
CONSTANTS
    Wallets = {w1, w2}
    Calls = {c1, c2}
    MaxSessionsPerUser = 1
    MaxChallenges = 3
    MaxLogins = 4
    MaxFaults = 1
    None = None
SYMMETRY Symmetric
INVARIANTS TypeOK NonceOnceUnlessRaced CapUnlessCrossed OldestGoFirst OwnSessionKept
CHECK_DEADLOCK FALSE
