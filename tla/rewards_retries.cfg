SPECIFICATION Spec
CONSTANTS
    r1 = r1   r2 = r2   s1 = s1   s2 = s2
    c1 = c1   c2 = c2   i1 = i1   i2 = i2
    None = None
    Rewards = {r1, r2}
    Prizes = {}
    Nfts = {r1}
    Instances = {i1}
    Slots = {s1, s2}
    HostOf <- OneHost
    Calls = {c1, c2}
    ActorRoles = {"ADMIN"}
    BootStatuses = {"NONE", "FAILED"}
    MaxAttempts = 2
    DispatchLimit = 2
    RetryLimit = 1
    KeepFinished = 1
    MaxRetries = 2
    MaxCrashes = 0
    MaxFaults = 1
    LocksLapse = TRUE
SYMMETRY SlotSymmetry
INVARIANTS TypeOK PaidOnceUnlessRetried CreditPerRelease SucceededWasPaid NoticeIsTrue
PROPERTY ImplementsLedger
CHECK_DEADLOCK FALSE
