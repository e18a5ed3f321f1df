\* Three accounts in a chain or a star, three phones, four invites that replace
\* one another, expire and reset passwords.  One device each, no prekeys.
SPECIFICATION Spec
CONSTANTS
    Account = {a1, a2, a3}
    Phone = {p1, p2, p3}
    Device = {d1}
    Request = {r1, r2, r3, r4}
    Password = {w1}
    NoAccount = NoAccount
    PreKeyCount = 0
    MaxLog = 4
SYMMETRY Symmetry
INVARIANTS
    PhoneOwnership
    OneLiveInvitePerPhone
    LiveInviteMatchesPhone
    ReferralTree
    OneInviteOpenedAccount
PROPERTIES
    IdentityIsPermanent
    SpentInviteIsFrozen
CHECK_DEADLOCK FALSE
