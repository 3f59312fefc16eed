CONSTANTS
    N = 1
    QuicProviders = {}
    ConnKind = "IoUring"
    MaxJobs = 1
    MaxFaults = 1
    Failures = {"fin"}
    NetStates = {"up"}
    Paced = FALSE
    Oversize = {}
    TriggerRing = 2
    ResultRing = 1
    ReqCap = 2
    Period = 2
SPECIFICATION FairSpec
PROPERTIES ActiveRecovers
