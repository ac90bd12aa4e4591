CONSTANTS
    Interval = 4
    MaxGap = 9
    Horizon = 30
SPECIFICATION GridSpec
INVARIANTS NoBurst NoGap NoDrift
