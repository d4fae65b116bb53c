SPECIFICATION Spec
CONSTANTS
    None = None
    h1 = h1
    h2 = h2
    h3 = h3
    Hosts = {h1, h2, h3}
    ControlPlane = TRUE
    StaleReads = FALSE
    MaxFaults = 2
    MaxUpsets = 2
SYMMETRY HostSymmetry
INVARIANTS RecordedUndone OwnerOutlivesInstance FailedNotReady
PROPERTIES InstanceOwned
CHECK_DEADLOCK FALSE
