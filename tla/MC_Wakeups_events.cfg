SPECIFICATION FairSpec
CONSTANTS
    Cluster = Cluster
    m1 = m1
    Machines = {m1}
    MaxPauses = 2
    MaxFaults = 1
INVARIANTS TypeOK
PROPERTIES ClusterProvisioned WokenByEvents ResyncRepairs
CHECK_DEADLOCK FALSE
