SPECIFICATION Spec
CONSTANTS
    Quota = 14
    Given = {}
    GivenInGroup = FALSE
    Named = {"ulb"}
    Bastion = TRUE
    MissingFails = TRUE
    FaultSteps = {"register", "group", "vpc", "subnet", "nat", "natEIP",
        "natGW", "ulb", "ulbEIP", "ulbBind", "ulbVServer", "zones",
        "bastion", "capu", "delBastion", "delULB", "delNat", "clean",
        "delSubnet", "delVPC", "delGroup", "delCAPU", "close"}
    MaxFaults = 3
INVARIANTS TypeOK OneNetwork StatusNamesExisting RecordedGone
PROPERTIES NetworkOwned
CHECK_DEADLOCK FALSE
