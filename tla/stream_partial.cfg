SPECIFICATION Spec
CONSTANTS
    CardDigits = {2}
    HoldBack = 4
    SecretLimit = 1
    MaxPending = 3
    Configurations <- PartialConfigurations
INVARIANT
    ReleasesWhatBatchDoes
CHECK_DEADLOCK FALSE
