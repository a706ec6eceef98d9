SPECIFICATION Spec
CONSTANTS
    c1 = c1  c2 = c2  q1 = q1  q2 = q2  w1 = w1  w2 = w2
    Claims = {c1, c2}
    Pods = {q1}
    Workers = {w1, w2}
    Cleaner = Cleaner
    None = None
    NameOf <- SameName
    LateOps = {"prepare"}
    Upgrade = FALSE
    MaxFaults = 1
    MaxCrashes = 0
    MaxReboots = 1
SYMMETRY Symmetry
INVARIANTS IndInv CleanupOnlyStale
PROPERTIES EntryChangesUnderLock ImplementsClaimService
