\* The relay calls the sync command has: it cannot send a receipt.
SPECIFICATION Spec
CONSTANTS
    Alice = Alice
    Bob = Bob
    a = a
    b1 = b1
    b2 = b2
    Account <- Accounts
    Devices <- OneEach
    Revocable = {}
    SyncCanEnqueue = FALSE
    Slots <- OneSlot
    Failing <- Nothing
    MaxFailures = 0
    MaxTexts <- AliceWritesOne
    PreKeyCount = 1
    MaxSkip = 2
PROPERTIES
    EventuallyDelivered
