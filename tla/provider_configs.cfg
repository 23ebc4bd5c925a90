SPECIFICATION FairSpec
CONSTANTS
    Clusters = {c1, c2}
    Names = {n1}
    NameOf <- SameName
    Infos = {i1, i2}
    NoInfo = NoInfo
    Absent = Absent
    MaxCreates = 2
    MaxDeletes = 1
    MaxEdits = 2
    MaxFaults = 1
INVARIANTS TypeOK ConfigHeld HoldInv
PROPERTIES ConfigsConverge
