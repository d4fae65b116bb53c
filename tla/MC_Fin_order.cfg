SPECIFICATION FairSpec
CONSTANTS
    m1 = m1
    m2 = m2
    cf = cf
    Machines = {m1, m2}
    DottedNames = {}
    ClusterFinalizer = cf
    Workers = 2
    MachinesAfterReady = TRUE
    DeletedLast = TRUE
    InformerLag = FALSE
    MaxFaults = 1
INVARIANTS RemovedClean
PROPERTIES ClusterRemoved RegistrationsSettle RegistrationKept
CHECK_DEADLOCK FALSE
