SPECIFICATION FairSpec
CONSTANTS
    Tournaments = {t1, t2}
    Users = {}
    Passes = {p1, p2}
    Calls = {c1}
    ActorRoles = {"ADMIN"}
    MaxPlayers = 1
    BatchLimit = 2
    MaxScore = 0
    MaxEdits = 1
    MaxCrashes = 1
    MaxFaults = 1
    MaxLapses = 0
    None = None
PROPERTIES DueEventuallyStarted DueEventuallyCompleted
CHECK_DEADLOCK FALSE
