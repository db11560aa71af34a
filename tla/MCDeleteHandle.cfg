SPECIFICATION DeleteSpec
CONSTANTS
    a = a
    b = b
    Names = {a, b}
    MaxSegment = 1
    Commands <- MCCommands
    Produced <- MCProduced
    Chains = {c1, c2}
    MaxStarts = 2
    MaxCount = 2
    Ranges <- MCRanges
INVARIANTS
    WatchTypeOK
    WatchingHasInterest
    AcceptedWatchRuns
    LimitKept
    AsksForNews
    DeletedStaysDeleted
PROPERTIES
    WatchEnds
CHECK_DEADLOCK FALSE
