SPECIFICATION FairSpec
\* With every GPU left without a driver there is nothing to allocate any more.
CHECK_DEADLOCK FALSE
CONSTANTS
    Claims = {c1, c2}
    Gpus = {g1}
    None = None
    Allocations <- OneDevice
    UnbindLock = {TRUE, FALSE}
    MaxFaults = 2
    MaxCrashes = 2
INVARIANTS NoGpuTwice PassthroughInv
PROPERTIES RunningKeepsDriver ReleaseRestoresGpu PassthroughReleased VfioClaimServed
           ImplementsClaimService
