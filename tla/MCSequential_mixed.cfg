CONSTANTS
    N = 2
    QuicProviders = {1}
    ConnKind = "RawLibc"
    MaxJobs = 2
    MaxFaults = 1
    Failures = {"fin", "rst", "tmo"}
    NetStates = {"up", "refuse"}
    Paced = FALSE
    Oversize = {}
    TriggerRing = 2
    ResultRing = 1
    ReqCap = 2
    Period = 1
SPECIFICATION Spec
INVARIANTS TypeOK OutcomesInOrder SentCoversOutcomes ResponsesReportedOnce HealthLags
PROPERTIES NoSpuriousFailover ImplementsDelivery
