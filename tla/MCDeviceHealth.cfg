SPECIFICATION FairSpec
\* The driver may shut down, and then nothing more happens.
CHECK_DEADLOCK FALSE
CONSTANTS
    g1 = g1  g2 = g2  m1 = m1
    Devs = {g1, m1}
    Gpus = {g1, g2}
    GpuOf <- WholeGpus
    Gi <- WholeGi
    Ci <- WholeCi
    None = None
    MaxEvents = 3
    MaxFaults = 1
INVARIANTS HealthTypeOK NoCriticalErrorLost ClosedOnlyAfterMonitor UnhealthyWithdrawn HealthInv
PROPERTIES CriticalErrorHandled LostMarksAll ShutdownEndsUnlessFull
