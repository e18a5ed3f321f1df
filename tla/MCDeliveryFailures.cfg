\* Alice runs two commands at once and sends two texts to two devices, one of
\* which may be revoked; a send dies, a save is torn or Bob restores a backup.
SPECIFICATION Spec
CONSTANTS
    Alice = Alice
    Bob = Bob
    a = a
    b1 = b1
    b2 = b2
    Account <- Accounts
    Devices <- TwoForBob
    Revocable = {b2}
    SyncCanEnqueue = TRUE
    Slots <- TwoForAlice
    Failing <- SendsSavesAndARestore
    MaxFailures = 1
    MaxTexts <- AliceWritesTwo
    PreKeyCount = 1
    MaxSkip = 0
INVARIANTS
    DeliveredWasRead
    AckedWasRead
    StuckOnlyIfEstranged
    SameKeyOnlyIfForgotten
