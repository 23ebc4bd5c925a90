SPECIFICATION BringUpSpec
CONSTANTS
    w1 = w1
    w2 = w2
    WorkloadClusters = {w1}
    New = w1
    Links <- OneLink
    IPs = {ip1}
    NoIP = NoIP
    Absent = Absent
    RGPrefix <- Distinct
    LBType <- AllInternal
    McLBType = "Internal"
    MaxCreates = 1
    MaxDeletes = 0
    MaxEdits = 0
    MaxFaults = 1
INVARIANTS ReadyAfterPublished BringUpInv
PROPERTIES ConnectedBeforeRelease BroughtUp
