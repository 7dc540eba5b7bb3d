CONSTANTS
    Bytecode <- ScanImage
    Entry <- ScanEntry
    Inputs <- ScanInputs
    Root <- NoRoot
    SCANNER = TRUE
    ForkResults <- NoFork
    SkipType <- TkSkip
    Starts <- ScanStarts
SPECIFICATION ScanSpec
INVARIANT TypeOK ScannedToken ScanToFindsTarget
PROPERTY ScannerReturns
CHECK_DEADLOCK FALSE
