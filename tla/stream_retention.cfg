\* An unbounded token begins inside a card.
SPECIFICATION Spec
CONSTANTS
    CardDigits = {2}
    HoldBack = 4
    SecretLimit = 1
    MaxPending = 3
    Configurations <- PinnedConfigurations
INVARIANTS
    FallsBackOrRetainsLittle
CHECK_DEADLOCK FALSE
