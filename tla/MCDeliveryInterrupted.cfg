\* Alice sends three texts; two of her sends and Bob's syncs die, anywhere.
SPECIFICATION Spec
CONSTANTS
    Alice = Alice
    Bob = Bob
    a = a
    b1 = b1
    b2 = b2
    Account <- Accounts
    Devices <- OneEach
    Revocable = {a}
    SyncCanEnqueue = TRUE
    Slots <- OneSlot
    Failing <- SendsAndBobsSyncs
    MaxFailures = 2
    MaxTexts <- AliceWritesThree
    PreKeyCount = 1
    MaxSkip = 2
INVARIANTS
    StuckOnlyIfEstranged
PROPERTIES
    EventuallyDelivered
