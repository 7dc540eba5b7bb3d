CONSTANTS
    Bytecode <- ListImage
    Entry <- ListEntry
    Inputs <- ListInputs
    Root <- NoRoot
    SCANNER = FALSE
    ForkResults <- NoFork
SPECIFICATION Spec
INVARIANT AccumulatorCountsNodes
CHECK_DEADLOCK FALSE
