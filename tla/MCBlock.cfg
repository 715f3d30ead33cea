CONSTANTS
    None = None
    Plants <- MCPlants
    Trains = {"T1", "T2"}
    Levers = {"830", "836"}
SPECIFICATION FairSpec
INVARIANTS
    TypeOK
    TrainsApart
    FarEndLockedOut
    OneEndCleared
    BlockInv
PROPERTIES
    BlockComesToRest
    LoneTrainLeaves
CHECK_DEADLOCK FALSE
