CONSTANTS
    Bytecode <- ListImage
    Entry <- ListEntry
    Inputs <- ListInputs
    Root <- NoRoot
    SCANNER = FALSE
    ForkResults <- NoFork
SPECIFICATION DebugSpec
PROPERTY ImplementsStart
CHECK_DEADLOCK FALSE
