SPECIFICATION Spec
CONSTANTS
    Account = {a1, a2}
    Phone = {p1, p2}
    Device = {d1}
    Request = {r1, r2}
    Password = {w1, w2}
    NoAccount = NoAccount
    PreKeyCount = 1
    MaxLog = 4
INVARIANT UsedInvitesAreLogged
CHECK_DEADLOCK FALSE
