CONSTANTS
    N = 2
    QuicProviders = {}
    ConnKind = "RawLibc"
    MaxJobs = 0
    MaxFaults = 3
    Failures = {"fin"}
    NetStates = {"up", "refuse"}
    Oversize = {}
    TriggerRing = 1
    ResultRing = 1
    ReqCap = 1
    Period = 1
SPECIFICATION FairSpec
PROPERTIES ActiveRecovers ShutdownCompletes
