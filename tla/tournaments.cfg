SPECIFICATION Spec
CONSTANTS
    Tournaments = {t1}
    Users = {u1, u2}
    Passes = {p1, p2, p3}
    Calls = {c1, c2}
    ActorRoles = {"ADMIN"}
    MaxPlayers = 2
    BatchLimit = 1
    MaxScore = 1
    MaxEdits = 1
    MaxCrashes = 1
    MaxFaults = 0
    MaxLapses = 1
    None = None
SYMMETRY Symmetric
INVARIANTS TypeOK MutexUnlessLapsed PrizesOnceUnlessLapsed ResultsAgree OverlapsCounted
PROPERTY ImplementsLedger
CHECK_DEADLOCK FALSE
