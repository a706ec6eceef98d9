SPECIFICATION Spec
CHECK_DEADLOCK FALSE
CONSTANTS
    g1 = g1  g2 = g2  m1 = m1
    Devs = {g1, m1}
    Gpus = {g1, g2}
    GpuOf <- WholeGpus
    Gi <- PartGi
    Ci <- WholeCi
    None = None
    MaxEvents = 1
    MaxFaults = 0
INVARIANT NoCriticalErrorLost
