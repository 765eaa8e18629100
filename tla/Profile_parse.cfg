CONSTANTS
    Schemas <- MCSchemas
    Tags <- MCTags
    UnTitle <- MCUnTitle
    Fold <- MCFold
SPECIFICATION Spec
INVARIANTS TypeOK Precedence OwnOverridesOnly
PROPERTIES OwnPanicsBeforeReading
CHECK_DEADLOCK FALSE
