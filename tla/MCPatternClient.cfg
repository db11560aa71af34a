SPECIFICATION ClientSpec
CONSTANTS
    a = a
    n0 = n0
    n1 = n1
    Component <- MCComponent
    RenamePrefix <- MCRenamePrefix
    PutOutcomes <- MCPutOutcomes
    Packets <- MCPackets
    FetchPrefixes <- MCFetchPrefixes
    CounterEnd <- MCCounterEnd
    CounterText <- MCCounterText
    OptionalKinds = {"ndnrtc"}
    StreamNames <- MCFetchPrefixes
    MaxCalls = 2
    FetchIds = {f1, f2}
    ProcessIds = {}
    Address = {o1}
    Clients = {k1, k2, k3}
INVARIANTS
    ClientTypeOK
    TableOwnsObjects
    OneFetchLoop
    CountedIsStored
    AcceptedBalance
    ClientsKnow
PROPERTIES
    RunningEnds
    ClientsEnd
CHECK_DEADLOCK FALSE
