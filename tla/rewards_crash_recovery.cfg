SPECIFICATION FairSpec
CONSTANTS
    r1 = r1   r2 = r2   s1 = s1   s2 = s2
    c1 = c1   c2 = c2   i1 = i1   i2 = i2
    None = None
    Rewards = {r1}
    Prizes = {}
    Nfts = {}
    Instances = {i1}
    Slots = {s1, s2}
    HostOf <- OneHost
    Calls = {c1}
    ActorRoles = {}
    BootStatuses = {"NONE"}
    MaxAttempts = 5
    DispatchLimit = 500
    RetryLimit = 100
    KeepFinished = 1000
    MaxRetries = 0
    MaxCrashes = 1
    MaxFaults = 0
    LocksLapse = FALSE
PROPERTY CrashedRewardRecovered
CHECK_DEADLOCK FALSE
