CONSTANTS
    WIFI_MAX_RETRY = 2
    JitterBytes = 5
    Chunk = 2
    PayloadLens = {1, 2, 3}
    MaxDropped = 2
SPECIFICATION Spec
INVARIANTS TypeOK KeepsTrying OnlyTailsMissing
PROPERTY ChunkIsPlayed
CHECK_DEADLOCK FALSE
