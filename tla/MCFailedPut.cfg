SPECIFICATION FastRepoSpec
CONSTANTS
    a = a
    b = b
    c = c
    r = r
    n0 = n0
    Component <- MCComponent
    RenamePrefix <- MCRenamePrefix
    PutOutcomes <- MCPutOutcomes
    Packets <- MCPackets
    InsertNames <- MCInsertNames
    FetchPrefixes <- MCFetchPrefixes
    CounterEnd = 1
    CounterText <- MCCounterText
    OptionalKinds = {}
    StreamNames = {}
    MaxCalls = 1
    FetchIds = {f1}
    ProcessIds = {p1}
    Address = {o1}
    RepoPrefixes = {1}
    ConfigPrefixes <- MCConfigPrefixes
    Modes <- MCModes
INVARIANTS
    AnnouncedIsKey
