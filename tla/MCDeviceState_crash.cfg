SPECIFICATION Spec
CONSTANTS
    c1 = c1  c2 = c2  q1 = q1  q2 = q2  w1 = w1  w2 = w2
    Claims = {c1}
    Pods = {q1}
    Workers = {w1}
    Cleaner = Cleaner
    None = None
    NameOf <- OwnNames
    LateOps = {}
    Upgrade = FALSE
    MaxFaults = 0
    MaxCrashes = 1
    MaxReboots = 0
INVARIANT NothingLeftBehind
