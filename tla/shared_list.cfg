SPECIFICATION QueueSpec
CONSTANTS
    w1 = w1
    w2 = w2
    WorkloadClusters = {w1, w2, w3}
    Links <- OneLink
    IPs = {ip1}
    NoIP = NoIP
    Absent = Absent
    RGPrefix <- Distinct
    LBType <- OnePublic
    McLBType = "Public"
    MaxCreates = 2
    MaxDeletes = 1
    MaxEdits = 0
    MaxFaults = 0
    Resync = FALSE
SYMMETRY Symmetry
INVARIANTS TypeOK ForeignInv LifecycleInv
PROPERTIES OnlyOwnEndpoints
