CONSTANTS
    Users = {owner, other}
    TenantIds = {home, t1, t2}
    Slugs = {s0, s1, s2}
    Currencies = {ngn, usd}
    Calls = {c1, c2, c3}
    Absent = Absent
    Pool = 2
    Home = home
    Owner = owner
    HomeSlug = s0
SPECIFICATION Spec
CHECK_DEADLOCK FALSE
SYMMETRY Symmetric
INVARIANTS IInv FoundedWhole RevokedIsRefused PublicIsReady StallNeedsFullPool
PROPERTIES SettledCurrencyStays OnlyTheFounderWrites
