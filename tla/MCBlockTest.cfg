CONSTANTS
    None = None
    Plants <- MCTestPlants
    Trains = {"T1", "T2"}
    Levers = {"830", "836"}
SPECIFICATION Spec
INVARIANT FarEndLockedOut
CHECK_DEADLOCK FALSE
