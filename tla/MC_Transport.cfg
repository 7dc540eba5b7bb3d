CONSTANTS
    Batches <- SingleSteps
    Outcomes <- AllOutcomes
    MaxQueue = 2
    MaxRestarts = 2
SPECIFICATION Spec
INVARIANT TypeOK
