CONSTANTS
    Bytecode <- ForkImage
    Entry <- ForkEntry
    Inputs <- ForkInputs
    Root <- Goal
    SCANNER = FALSE
    ForkResults <- DelegateAnswers
SPECIFICATION Spec
INVARIANT ForkHandsOver
CHECK_DEADLOCK FALSE
