CONSTANTS
    Browsers = {w1, w2}
    Calls = {c1, c2}
    States = {t1, t2}
    Subjects = {g1, g2}
    Emails = {e1, e2}
    Users = {u1, u2}
    Claims <- AnyClaim
    Absent = Absent
    StateLifetime = 1
    MaxTime = 1
    Faults = {"fail", "disable"}
SPECIFICATION Spec
SYMMETRY Symmetric
INVARIANTS IInv SignInIsLinked
PROPERTY SingleUse
