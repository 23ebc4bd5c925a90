SPECIFICATION QueueSpec
CONSTANTS
    w1 = w1
    w2 = w2
    WorkloadClusters = {w1}
    Links <- OneLink
    IPs = {ip1}
    NoIP = NoIP
    Absent = Absent
    RGPrefix <- Distinct
    LBType <- AllInternal
    McLBType = "Internal"
    MaxCreates = 2
    MaxDeletes = 2
    MaxEdits = 0
    MaxFaults = 2
    Resync = FALSE
INVARIANTS ReleaseInv HistoryInv ReadyInv PublishInv DoneMeansPublished WakeInv NothingForgotten
PROPERTIES CleanOrReported FollowsLifecycle ReleasedOnlyWhenDeleting Converges
