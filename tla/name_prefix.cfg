SPECIFICATION Spec
CONSTANTS
    w1 = w1
    w2 = w2
    WorkloadClusters = {w1, w2}
    Links <- OneLink
    IPs = {ip1}
    NoIP = NoIP
    Absent = Absent
    RGPrefix <- W1PrefixOfW2
    LBType <- AllInternal
    McLBType = "Public"
    MaxCreates = 2
    MaxDeletes = 0
    MaxEdits = 0
    MaxFaults = 0
PROPERTIES OthersLeftAlone
