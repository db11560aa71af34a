SPECIFICATION StatusSpec
CONSTANTS
    a = a
    b = b
    r = r
    Component <- MCComponent
    RenamePrefix <- MCRenamePrefix
    PutOutcomes <- MCPutSucceeds
    Packets <- MCPackets
    InsertNames <- MCInsertNames
    FetchPrefixes <- MCFetchPrefixes
    CounterEnd = 1
    CounterText <- MCCounterText
    OptionalKinds = {}
    StreamNames = {}
    MaxCalls = 1
    FetchIds = {f1}
    ProcessIds = {p1}
    Address = {o1}
    RepoPrefixes = {1, 2}
    ConfigPrefixes <- MCNoPrefixes
    Modes <- MCModes
INVARIANTS
    PollReports
