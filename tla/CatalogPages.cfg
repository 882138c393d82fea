CONSTANTS
    Tenants = {t1, t2}
    Services = {s1}
    Categories = {c1, c2}
    Staff = {p1, p2}
    Bookings = {k1}
    Users = {u1}
    Names = {n1, n2}
    Calls = {r1, r2}
    Absent = Absent
    Keep = Keep
    MaxRows = 2
SPECIFICATION Spec
SYMMETRY Symmetric
INVARIANTS IInv NothingVanishes GoneAreNotShown
PROPERTIES LinkedWasMember
