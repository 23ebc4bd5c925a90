SPECIFICATION FairSpec
CONSTANTS
    Absent = Absent
    Gates <- ChartGates
    McLBType = "Internal"
    MaxChanges = 3
    MaxPauses = 2
    MaxFaults = 1
INVARIANTS TypeOK GateInv
PROPERTIES GateHolds GateSettles
