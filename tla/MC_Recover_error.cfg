CONSTANTS
    Bytecode <- RecoverImage
    Entry <- RecoverEntry
    Inputs <- RecoverInputs
    Root <- NoRoot
    SCANNER = FALSE
    ForkResults <- NoFork
SPECIFICATION Spec
INVARIANT ErrorDescribesFailure
CHECK_DEADLOCK FALSE
