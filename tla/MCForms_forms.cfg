CONSTANTS
    Columns = {"c1", "c2"}
    Roles = {"r1", "r2"}
    MaxChanges = 3
    Objects = {"table", "view", "function"}
    Looked = {"SELECT", "INSERT", "EXECUTE"}
    Grantees = {"PUBLIC", "r1"}
    MaxPrivSteps = 3
    MaxPieces = 4
    MaxMeddling = 2
    MaxSaid = 1
SPECIFICATION Spec
INVARIANTS TypeOK EditorInStep  ListIsAsAsked SplitAsServer CreatedAsSaid SqlRebuilds
PROPERTIES UntouchedKept CellsLeftAlone
CHECK_DEADLOCK FALSE
