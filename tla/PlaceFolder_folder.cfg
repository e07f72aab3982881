SPECIFICATION Spec
CONSTANTS
    Liberties = {}
    Kinds = {"commit", "capture", "ingest"}
    MaxRetries = 2
    MaxSaves = 1
    MaxEdits = 2
    MaxForeign = 1
    MaxFlying = 1
    MaxFaults = 1
INVARIANTS NoTextLost OnlyInboxIsSent SavedIsShared NoHalfSave
