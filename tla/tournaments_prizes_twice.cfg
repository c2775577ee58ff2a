SPECIFICATION Spec
CONSTANTS
    Tournaments = {t1}
    Users = {u1}
    Passes = {p1, p2}
    Calls = {c1}
    ActorRoles = {}
    MaxPlayers = 32
    BatchLimit = 50
    MaxScore = 1
    MaxEdits = 0
    MaxCrashes = 0
    MaxFaults = 0
    MaxLapses = 1
    None = None
INVARIANT PrizesOnce
CHECK_DEADLOCK FALSE
