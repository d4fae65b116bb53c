SPECIFICATION FairSpec
CONSTANTS
    machine = machine
    cleaner = cleaner
    late = late
    Callers <- ThreeCallers
    Lookups <- MachineCallers
    Services <- AllAnswers
    MaxFaults = 2
    MaxUpsets = 1
INVARIANTS TypeOK SuccessMeansGone
PROPERTIES TeardownReturns MachineReturns
CHECK_DEADLOCK FALSE
