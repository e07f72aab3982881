SPECIFICATION Spec
CONSTANTS
    Liberties = {"create"}
    Kinds = {"commit"}
    MaxRetries = 2
    MaxSaves = 1
    MaxEdits = 1
    MaxForeign = 0
    MaxFlying = 1
    MaxFaults = 0
INVARIANTS SavedIsShared
