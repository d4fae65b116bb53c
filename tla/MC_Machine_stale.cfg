SPECIFICATION FairSpec
CONSTANTS
    None = None
    h1 = h1
    h2 = h2
    Hosts = {h1, h2}
    ControlPlane = TRUE
    StaleReads = TRUE
    MaxFaults = 1
    MaxUpsets = 1
INVARIANTS TypeOK FinalizerBeforeInstance DrainedBeforePowerOff
PROPERTIES MachineRemoved ReadyReachable
CHECK_DEADLOCK FALSE
