SPECIFICATION FairSpec
CONSTANTS
    r1 = r1   r2 = r2   s1 = s1   s2 = s2
    c1 = c1   c2 = c2   i1 = i1   i2 = i2
    None = None
    Rewards = {r1, r2}
    Prizes = {r2}
    Nfts = {}
    Instances = {i1, i2}
    Slots = {s1, s2}
    HostOf <- TwoHosts
    Calls = {c1}
    ActorRoles = {}
    BootStatuses = {"NONE"}
    MaxAttempts = 2
    DispatchLimit = 2
    RetryLimit = 1
    KeepFinished = 2
    MaxRetries = 0
    MaxCrashes = 1
    MaxFaults = 0
    LocksLapse = TRUE
PROPERTIES ImplementsLedger BonusEventuallyClaimed BonusEventuallySettled
CHECK_DEADLOCK FALSE
