\* Logs of up to four entries changed up to twice; every input of the functions.
SPECIFICATION Spec
CONSTANTS
    What = {w1, w2}
    MaxLength = 4
    MaxEdits = 2
    MaxSize = 12
INVARIANTS
    RootCommitsToLog
    ChangesAreNoticed
    HandshakeAgrees
    PathsAreOrdered
    ChunksTileMedia
CHECK_DEADLOCK FALSE
