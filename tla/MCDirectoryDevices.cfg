\* Two accounts with two device ids, four log entries (enough to register,
\* revoke, register again and reset), two passwords, two prekeys a device.
SPECIFICATION Spec
CONSTANTS
    Account = {a1, a2}
    Phone = {p1, p2}
    Device = {d1, d2}
    Request = {r1, r2}
    Password = {w1, w2}
    NoAccount = NoAccount
    PreKeyCount = 2
    MaxLog = 4
SYMMETRY Symmetry
INVARIANTS
    TypeOK
    LogExplainsDevices
    HandedOutOncePerPublication
PROPERTIES
    PasswordChangeNeedsInviter
    RevocationIsPermanent
CHECK_DEADLOCK FALSE
