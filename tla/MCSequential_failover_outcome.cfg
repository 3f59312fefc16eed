CONSTANTS
    N = 1
    QuicProviders = {}
    ConnKind = "RawLibc"
    MaxJobs = 1
    MaxFaults = 1
    Failures = {"fin", "rst"}
    NetStates = {"up"}
    Paced = FALSE
    Oversize = {}
    TriggerRing = 2
    ResultRing = 1
    ReqCap = 2
    Period = 2
SPECIFICATION Spec
PROPERTIES FailoverEmitsOutcome
