CONSTANTS
    AudioLen = 2
    VideoLen = 2
SPECIFICATION Spec
INVARIANTS TypeOK AudioWaitsOnePass OnlyAStraggler RequestKept
