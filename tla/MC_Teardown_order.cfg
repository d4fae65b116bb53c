SPECIFICATION SpecAll
CONSTANTS
    m1 = m1
    m2 = m2
    m3 = m3
    cf = cf
    Machines = {m1,m2,m3}
    ControlPlanes = {m1, m2, m3}
    DottedNames = {}
    ClusterFinalizer = cf
    Workers = 1
    MachinesAfterReady = TRUE
    DeletedLast = TRUE
    InformerLag = FALSE
    MaxFaults = 1
SYMMETRY MachineSymmetry
INVARIANTS TeardownTypeOK NothingLeft
PROPERTIES FollowsProtocol
CHECK_DEADLOCK FALSE
