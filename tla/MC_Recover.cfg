CONSTANTS
    Bytecode <- RecoverImage
    Entry <- RecoverEntry
    Inputs <- RecoverInputs
    Root <- NoRoot
    SCANNER = FALSE
    ForkResults <- NoFork
SPECIFICATION Spec
INVARIANT AcceptIffRecovers
PROPERTY ImplementsParseEvents Termination
CHECK_DEADLOCK FALSE
