CONSTANTS
    BufNum = 3
    OutBufNum = 1
    Faults = {}
SPECIFICATION Spec
INVARIANT NoSilentDropWhileWaiting
