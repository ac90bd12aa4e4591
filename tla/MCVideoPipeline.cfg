CONSTANTS
    BufNum = 4
    OutBufNum = 1
    Faults <- FaultKinds
SPECIFICATION Spec
INVARIANTS TypeOK BuffersConserved NoSharedBuffer DropsOnlyDuringSend
    EncoderReadyForFrame EncoderReadsHeldFrame
PROPERTY FramesComeBack
