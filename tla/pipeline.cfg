SPECIFICATION GateSpec
CONSTANTS
    MaxRuns = 1
    MinLiteral = 2
    MaxLiteral = 5
    MaxLiterals = 1
    MaxTracked = 2
    SecretLimit = 1
    Configurations <- MCConfigurations
    MaxSchemaDepth = 3
    MaxSchemaNodes = 5
    MaxEnum = 2
    Requests <- MCRequests
    JSONValues <- MCJSONValues
INVARIANTS
    TypeOK
    KeepsUncoveredText
    EnforcesWhatWasScanned
    NoHiddenCharacterSurvives
    PassedOutputIsValid
    RaisesOnlyForEmptySpan
    StagingDefersBlocksAndRemovals
    CapLosesNoLiteral
    NothingIsHidden
    PassesExactlyTheAdmissible
CHECK_DEADLOCK FALSE
