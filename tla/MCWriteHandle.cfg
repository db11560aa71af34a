SPECIFICATION WriteAloneSpec
CONSTANTS
    a = a
    b = b
    r = r
    Component <- MCComponent
    RenamePrefix <- MCRenamePrefix
    PutOutcomes <- MCPutOutcomes
    Packets <- MCPackets
    InsertNames <- MCInsertNames
    FetchIds = {f1, f2, f3}
    ProcessIds = {p1, p2}
    Address = {}
INVARIANTS
    WriteAloneTypeOK
    ProcessHasFetch
    FetchHasProcess
PROPERTIES
    ProcessEnds
