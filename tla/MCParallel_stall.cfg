CONSTANTS
    N = 2
    QuicProviders = {0, 1}
    ConnKind = "RawLibc"
    MaxJobs = 2
    MaxFaults = 0
    Failures = {"rst"}
    NetStates = {"up"}
    Oversize = {}
    TriggerRing = 1
    ResultRing = 1
    ReqCap = 1
    Period = 1
SPECIFICATION StallSpec
PROPERTIES TriggerReturns StallContained
