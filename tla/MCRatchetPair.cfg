\* Both sides may start and messages arrive in any order, again or never,
\* with gaps below, at and above MaxSkip.
SPECIFICATION Spec
CONSTANTS
    Alice = Alice
    Bob = Bob
    Initiators = {Alice, Bob}
    Repliers = {Alice, Bob}
    MaxSent <- AliceWritesMore
    MaxSkip = 1
INVARIANTS
    RefusedForAReason
    OneKeyPerMessage
    NoReplay
    SkippedKeysAreOwed
PROPERTIES
    ChannelSpec
CHECK_DEADLOCK FALSE
