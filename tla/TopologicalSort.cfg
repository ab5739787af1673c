SPECIFICATION FairSpec
CONSTANTS
    Lib = {l1, l2, l3}
    MaxDeps = 2
    Graphs <- MCGraphs
CHECK_DEADLOCK FALSE
INVARIANTS TypeOK DependentsFirst CycleDetected
PROPERTIES ImplementsLibOrder Terminates
