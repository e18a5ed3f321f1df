\* Three requests that overlap in any way, two deaths, one write that fails.
SPECIFICATION Spec
CONSTANTS
    r1 = r1
    r2 = r2
    r3 = r3
    Request = {r1, r2, r3}
    Boot = boot
    Length <- Lengths
    ChunkSize = 4
    MaxCrashes = 2
    MaxFailures = 1
SYMMETRY Symmetry
INVARIANTS
    TypeOK
    CausallyClosed
    
    AnsweredIsOnFile
CHECK_DEADLOCK FALSE
