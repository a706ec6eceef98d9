SPECIFICATION FairSpec
CONSTANTS
    c1 = c1  c2 = c2  q1 = q1  q2 = q2  w1 = w1  w2 = w2
    Claims = {c1}
    Pods = {q1, q2}
    Workers = {w1, w2}
    Cleaner = Cleaner
    None = None
    NameOf <- OwnNames
    LateOps = {"prepare"}
    Upgrade = TRUE
    MaxFaults = 2
    MaxCrashes = 1
    MaxReboots = 0
INVARIANTS TypeOK RunningClaimUsable OwnedDirIsTracked
PROPERTIES StaleStartedRemoved ReleaseCompletes
