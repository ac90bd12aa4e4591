CONSTANTS
    ElemNum = 2
    FeedEveryN = 3
    MaxAhead = 3
SPECIFICATION Spec
INVARIANT AtMostOneFrameAhead
