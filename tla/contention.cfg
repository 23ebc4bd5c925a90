SPECIFICATION InstalledSpec
CONSTANTS
    w1 = w1
    w2 = w2
    WorkloadClusters = {w1, w2}
    Links <- OneLink
    IPs = {ip1, ip2}
    NoIP = NoIP
    Absent = Absent
    RGPrefix <- Distinct
    LBType <- AllInternal
    McLBType = "Public"
    MaxCreates = 0
    MaxDeletes = 0
    MaxEdits = 0
    MaxFaults = 0
    Resync = TRUE
INVARIANTS QueueTypeOK
PROPERTIES FollowsLifecycle EveryClusterServed Converges
