SPECIFICATION Spec
CONSTANTS
    CardDigits = {2}
    HoldBack = 4
    SecretLimit = 1
    MaxPending = 3
    Configurations <- MCConfigurations
INVARIANTS
    TypeOK
    ReleasesWhatBatchDoes
    FindsWhatBatchDoes
    RetainsBoundedText
    EndedStreamsHoldNoText
CHECK_DEADLOCK FALSE
