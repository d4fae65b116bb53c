SPECIFICATION Spec
CONSTANTS
    None = None
    h1 = h1
    Hosts = {h1}
    ControlPlane = FALSE
    StaleReads = FALSE
    MaxFaults = 1
    MaxUpsets = 0
INVARIANTS NoInstanceLeft
CHECK_DEADLOCK FALSE
