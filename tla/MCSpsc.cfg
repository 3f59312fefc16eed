CONSTANTS
    Capacity = 2
    MaxPush = 5
    SpinLimit = 2
    Backends <- AllBackends
SPECIFICATION WakeSpec
INVARIANTS TypeOK NoLostWakeup
PROPERTIES PushedIsPopped StopExits
