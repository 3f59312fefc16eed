CONSTANTS
    a1 = a1
    a2 = a2
    b = b
    pa = pa
    pb = pb
    Nobody = Nobody
    Sender = {a1, a2, b}
    Process = {pa, pb}
    Owner <- MCOwner
    ConfigOf <- MCConfigOf
SPECIFICATION FairSpec
INVARIANTS TypeOK ShutdownLeavesNothing FailedBuildLeavesLane LockMatchesUse InitOnce HealthTruthful
PROPERTIES BuildReturns ShutdownReturns
