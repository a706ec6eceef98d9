SPECIFICATION Spec
CONSTANTS
    c1 = c1  c2 = c2
    g1 = g1  g2 = g2  m1 = m1
    Claims = {c1, c2}
    Devs = {g1, g2, m1}
    DevType <- Types
    DriverName = "hami-core-gpu.project-hami.io"
    None = None
    Inputs <- SameMig
    Admin = {}
    TimeSlicingSettings = TRUE
    NVMLDeviceHealthCheck = TRUE
    PromptReuse = FALSE
    MaxFaults = 1
INVARIANT StaticMigsStay
