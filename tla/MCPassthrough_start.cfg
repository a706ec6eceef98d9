SPECIFICATION Spec
CHECK_DEADLOCK FALSE
CONSTANTS
    Claims = {c1}
    Gpus = {g1, g2}
    None = None
    Allocations <- OneDevice
    UnbindLock = {FALSE}
    MaxFaults = 0
    MaxCrashes = 0
INVARIANT FreeGpuOffersBoth
