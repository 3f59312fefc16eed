CONSTANTS
    Payload <- ByteStrings
    Configs <- AllConfigs
    RingEntries = 1
    Garbage = Garbage
    MaxSubmits = 2
    MaxChunks = 2
    MaxErrors = 2
    BodySentinel <- MCBodySentinel
    ClSentinel <- MCClSentinel
    MaxTxLen = 7
    Specs <- MCSpecs
    TxLens = {0, 7}
SPECIFICATION FairSpec
INVARIANTS TypeOK BuffersAlive ReadsExact RequestsOnWire EveryLengthFits
PROPERTIES SendsLeave
