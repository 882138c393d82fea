CONSTANTS
    Users = {u1}
    Browsers = {w1}
    SessionIds = {s1, s2}
    Tokens = {t1, t2, t3, t4}
    Calls = {c1, c2}
    Absent = Absent
    SessionLifetime = 2
    AccessLifetime = 1
    MaxTime = 2
    Faults = {"fail", "lose", "disable"}
SPECIFICATION Spec
CHECK_DEADLOCK FALSE
SYMMETRY Symmetric
INVARIANTS IInv SpentIsDead NoSpentCookie WaitsForWriter
PROPERTY RevokedIsFinal
