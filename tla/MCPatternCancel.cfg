SPECIFICATION PatternAloneSpec
CONSTANTS
    a = a
    n0 = n0
    n1 = n1
    Component <- MCComponent
    RenamePrefix <- MCRenamePrefix
    PutOutcomes <- MCPutOutcomes
    Packets <- MCPackets
    FetchPrefixes <- MCOnePrefix
    CounterEnd <- MCCounterEnd
    CounterText <- MCCounterText
    OptionalKinds = {}
    StreamNames = {}
    MaxCalls = 2
    FetchIds = {f1, f2}
    ProcessIds = {}
    Address = {o1}
PROPERTIES
    CancelStopsFetching
CHECK_DEADLOCK FALSE
