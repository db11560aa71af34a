SPECIFICATION ReadSpec
CONSTANTS
    a = a
    am = am
    ab = ab
    b = b
    Component <- MCComponent
    Text <- MCText
    Slash = 1
    RenamePrefix <- MCRenamePrefix
    PutOutcomes <- MCPutOutcomes
    Packets <- MCNames
    Interests <- MCUnlimited
INVARIANTS
    SentContinuesName
