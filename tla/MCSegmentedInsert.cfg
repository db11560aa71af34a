SPECIFICATION SegmentedSpec
CONSTANTS
    MaxSegment = 7
    MaxCredit = 2
    RetryTime = 1
    Commands <- MCCommands
    Produced <- MCProduced
    FinalBlocks <- MCFinalBlocks
INVARIANTS
    SegmentedTypeOK
    CreditConserved
    AssertionsHold
    NoSegmentSkipped
    CheckedIsStored
PROPERTIES
    SegmentedEnds
