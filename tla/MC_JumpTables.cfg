CONSTANTS
    Keys = {0, 1, 3, 4, 9}
    Blocks = {0, 5}
    K = 2
    Probes <- AllProbes
SPECIFICATION Spec
INVARIANT JumpTablesAgree
CHECK_DEADLOCK FALSE
