CONSTANTS
    Batches <- TwoStepBatches
    Outcomes <- AllOutcomes
    MaxDB = 2
    MaxWalked = 5
SPECIFICATION Spec
INVARIANT StepsWalkedInOrder
CHECK_DEADLOCK FALSE
