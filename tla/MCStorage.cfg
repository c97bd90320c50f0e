SPECIFICATION StorageSpec
CONSTANTS
    Jobs = {j1, j2}
    Keys = {k1}
    Digests = {d1}
    Writers = {w1}
    Plans = {p1}
    NoPlan = NoPlan
    Quiesced = TRUE
    MaxEvents = 2
    MaxCrashes = 1

    
    
PROPERTIES
    RestorePoint
    DeletedAsReviewed
SYMMETRY StorageSymmetry
CHECK_DEADLOCK FALSE
