SPECIFICATION FairSpec
CONSTANTS
    m1 = m1
    cf = cf
    Machines = {m1}
    DottedNames = {}
    ClusterFinalizer = cf
    Workers = 1
    MachinesAfterReady = FALSE
    DeletedLast = TRUE
    InformerLag = TRUE
    MaxFaults = 1
INVARIANTS TypeOK
PROPERTIES RegistrationsSettle
CHECK_DEADLOCK FALSE
