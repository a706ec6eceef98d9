SPECIFICATION Spec
CONSTANTS
    c1 = c1  c2 = c2  c3 = c3
    Profiles = {"1g", "2g", "4g", "1c2g"}
    Dims = {"sm", "mem", "dec"}
    ProfileInfo <- Table
    FullGpu = FullGpu
    Claims = {c1, c2}
    Ids = {i1, i2}
    None = None
    DevsOf <- Disjoint
    Admin <- NoAdmin
    ReuseIds = TRUE
    MaxFaults = 1
    MaxCrashes = 0
INVARIANT PreparedDevicesExist
