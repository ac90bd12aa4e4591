CONSTANTS
    Size = 10
    Word = 2
    Lens = {1, 4, 5, 9}
    Ids = 3
SPECIFICATION Spec
INVARIANTS InBlockUntilSkewed HoldsQueued EmptyTakesHalf
PROPERTIES InOrderOnce HeadGoesOut
