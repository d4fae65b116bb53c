SPECIFICATION Spec
CONSTANTS
    m1 = m1
    m2 = m2
    m3 = m3
    cf = cf
    Machines = {m1, m2, m3}
    DottedNames = {}
    ClusterFinalizer = cf
    Workers = 1
    MachinesAfterReady = TRUE
    DeletedLast = FALSE
    InformerLag = FALSE
    MaxFaults = 0
INVARIANTS TeardownWaits
CHECK_DEADLOCK FALSE
