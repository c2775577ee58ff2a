SPECIFICATION Spec
CONSTANTS
    Users = {u1, u2}
    LateLeavers = {u1, u2}
    Calls = {c1, c2}
    BootStatuses = {"IN_PROGRESS"}
    MaxJoins = 2
    MaxFaults = 1
    None = None
SYMMETRY Symmetric
INVARIANTS TypeOK NoSelfMatch NoPairLeftWaiting StandingsAgree
CHECK_DEADLOCK FALSE
