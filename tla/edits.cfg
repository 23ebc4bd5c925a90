SPECIFICATION QueueSpec
CONSTANTS
    w1 = w1
    w2 = w2
    WorkloadClusters = {w1}
    Links <- TwoLinks
    IPs = {ip1}
    NoIP = NoIP
    Absent = Absent
    RGPrefix <- Distinct
    LBType <- AllInternal
    McLBType = "Public"
    MaxCreates = 1
    MaxDeletes = 1
    MaxEdits = 1
    MaxFaults = 0
    Resync = TRUE
INVARIANTS CleanInv
PROPERTIES CleanOrReported UnusedEndpointsRemoved
