CONSTANTS
    ElemNum = 3
    FeedEveryN = 3
    MaxAhead = 2
SPECIFICATION Spec
INVARIANTS OnePlace TokenPerReadyFrame GiveNeverRefused
PROPERTIES ReadyFrameIsRun FreeComesBack OwnershipCycle
