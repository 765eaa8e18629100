CONSTANTS
    Schemas <- MCSchemas
    Tags <- MCTags
    UnTitle <- MCUnTitle
    Fold <- MCFold
SPECIFICATION Spec
INVARIANT EnvironmentFirst
CHECK_DEADLOCK FALSE
