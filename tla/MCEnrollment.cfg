\* Two state directories, three devices and two account ids to draw, two phones,
\* two invites, three log entries; one command fails and one bundle is exported.
SPECIFICATION EnrollmentSpec
CONSTANTS
    Account = {a1, a2}
    Phone = {p1, p2}
    Device = {d1, d2, d3}
    Request = {r1, r2}
    Password = {w1}
    NoAccount = NoAccount
    PreKeyCount = 0
    MaxLog = 3
    Dir = {s1, s2}
    NoPhone = NoPhone
    MaxFailures = 1
    MaxBundles = 1
SYMMETRY Symmetry
INVARIANTS
    EnrollmentTypeOK
    LocalAgreesWithDirectory
    OneAccountUnlessReset
CHECK_DEADLOCK FALSE
