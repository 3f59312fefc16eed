CONSTANTS
    N = 1
    QuicProviders = {}
    ConnKind = "RawLibc"
    MaxJobs = 3
    MaxFaults = 2
    Failures = {"fin", "rst", "tmo"}
    NetStates = {"up", "refuse"}
    Paced = TRUE
    Oversize = {2}
    TriggerRing = 2
    ResultRing = 1
    ReqCap = 1
    Period = 2
SPECIFICATION FairSpec
INVARIANTS OutcomeMatchesJob
PROPERTIES SentSettles ActiveRecovers NoSpuriousFailover ShutdownCompletes
