CONSTANTS
    Bytecode <- ListImage
    Entry <- ListEntry
    Inputs <- ListInputs
    Root <- NoRoot
    SCANNER = FALSE
    ForkResults <- NoFork
SPECIFICATION Spec
INVARIANT AcceptIffInLanguage
PROPERTY ImplementsParseEvents
PROPERTY Termination
CHECK_DEADLOCK FALSE
