SPECIFICATION FairSpec
CONSTANTS
    Absent = Absent
    Gates <- OneGate
    McLBType = "Internal"
    MaxChanges = 1
    MaxPauses = 0
    MaxFaults = 0
PROPERTIES PausedOnlyUntilMet
