\* Two inboxes, envelopes that may be enqueued twice, two pulls at once, items
\* that expire before, at and after a pull.
SPECIFICATION Spec
CONSTANTS
    Inbox = {i1, i2}
    Envelope = {e1, e2}
    Puller = {u1, u2}
    Ttl = 1
    MaxClock = 2
    MaxItems = 3
SYMMETRY Symmetry
INVARIANTS
    TypeOK
    NothingLost
    AckedStaysGone
    PullIsExact
PROPERTIES
    MailboxSpec
CHECK_DEADLOCK FALSE
