SPECIFICATION Spec
CONSTANTS
    Dbs = {d1}
    Cols <- MCCols
    Schemas <- MCSchemas
    Definitions <- MCDefinitions
    Given <- MCGiven
    Bindings <- MCBindings
    BlendedName <- MCBlendedName
    NoSchema = NoSchema
    TornSchema = TornSchema
    None = None
    MaxUids = 2
    MaxStarts = 2
INVARIANT BoundCollectionFound
CHECK_DEADLOCK FALSE
