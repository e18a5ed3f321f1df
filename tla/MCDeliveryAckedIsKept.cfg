\* One sync dies.
SPECIFICATION Spec
CONSTANTS
    Alice = Alice
    Bob = Bob
    a = a
    b1 = b1
    b2 = b2
    Account <- Accounts
    Devices <- OneEach
    Revocable = {}
    SyncCanEnqueue = TRUE
    Slots <- OneSlot
    Failing <- BobsSyncs
    MaxFailures = 1
    MaxTexts <- AliceWritesOne
    PreKeyCount = 1
    MaxSkip = 2
INVARIANTS
    AckedIsKept
