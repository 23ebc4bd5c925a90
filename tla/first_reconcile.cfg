SPECIFICATION Spec
CONSTANTS
    w1 = w1
    w2 = w2
    WorkloadClusters = {w1}
    Links <- OneLink
    IPs = {ip1}
    NoIP = NoIP
    Absent = Absent
    RGPrefix <- Distinct
    LBType <- AllInternal
    McLBType = "Public"
    MaxCreates = 1
    MaxDeletes = 1
    MaxEdits = 0
    MaxFaults = 0
INVARIANTS NoOrphanedEndpoints
