CONSTANTS
    Bytecode <- PeekImage
    Entry <- PeekEntry
    Inputs <- PeekInputs
    Root <- NoRoot
    SCANNER = FALSE
    ForkResults <- NoFork
SPECIFICATION Spec
INVARIANT AcceptIffInLanguage
CHECK_DEADLOCK FALSE
