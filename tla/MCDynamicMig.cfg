SPECIFICATION Spec
CONSTANTS
    c1 = c1  c2 = c2  c3 = c3
    Profiles = {"1g", "2g", "4g", "1c2g"}
    Dims = {"sm", "mem", "dec"}
    ProfileInfo <- Table
    FullGpu = FullGpu
    Claims = {c1, c2, c3}
    Ids = {i1, i2, i3, i4}
    None = None
    DevsOf <- Allocation
    Admin <- AdminAccess
    ReuseIds = FALSE
    MaxFaults = 1
    MaxCrashes = 1
INVARIANTS MigTypeOK PreparedDevicesExist MigDeviceTracked NoDeviceTwice
           LiveClaimsFit AnnouncedCanBeHad MigInv
PROPERTY ImplementsClaimService
SYMMETRY IdSymmetry
