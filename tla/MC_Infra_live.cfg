SPECIFICATION FairSpec
CONSTANTS
    Quota = 24
    Given = {"vpc", "nat"}
    GivenInGroup = TRUE
    Named = {}
    Bastion = TRUE
    MissingFails = FALSE
    FaultSteps = {"register", "group", "vpc", "subnet", "nat", "natEIP",
        "natGW", "ulb", "ulbEIP", "ulbBind", "ulbVServer", "zones",
        "bastion", "capu", "delBastion", "delULB", "delNat", "clean",
        "delSubnet", "delVPC", "delGroup", "delCAPU", "close"}
    MaxFaults = 2
INVARIANTS GivenKept
PROPERTIES EventuallyReady ClusterRemoved
CHECK_DEADLOCK FALSE
