CONSTANTS
    N = 1
    QuicProviders = {}
    ConnKind = "IoUring"
    MaxJobs = 2
    MaxFaults = 0
    Failures = {"fin", "rst", "tmo"}
    NetStates = {"up", "refuse"}
    Paced = TRUE
    Oversize = {}
    TriggerRing = 2
    ResultRing = 1
    ReqCap = 2
    Period = 2
SPECIFICATION Spec
INVARIANTS OutcomeMatchesJob
