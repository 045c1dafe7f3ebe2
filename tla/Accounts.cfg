\* Two operators with two links, one customer, one feature: three requests of any
\* of them, two in flight at each of the three desks.
SPECIFICATION AccountsSpec
CONSTANTS
    TimeBound = 1
    RequestBound = 3
    Users = {u1, u2}
    Links = {k1, k2}
    NoLink = NoLink
    Desk = {d1, d2}
    LinkLife = 1
    SessionLife = 2
    GuestLife = 1
    Assignable = {"TENANT_OWNER", "TENANT_EDITOR"}
    r1 = r1
    r2 = r2
    Rates = {r1, r2}
    NoRate = NoRate
    Keys = {"customerAccounts"}
    CreateDtos <- MCCreateDtos
    UpdateDtos <- MCUpdateDtos
    Keep = Keep
    Flats = {1}
    Office = {o1, o2}
    Lookups = {q1}
    FeatureLife = 1
    Emails = {e1}
    Addresses = {a1, a2}
    Counter = {c1, c2}
    VerifyLife = 1
    LockLife = 1
    MaxFailed = 2
SYMMETRY MCSymmetry
INVARIANTS
    OwnerRemains
    AccessEndsWithRole
    CommissionNeedsPlan
    PlanIsThePlatforms
    LockoutCounts
    SessionsAreConfirmed
    OneDefault
PROPERTIES
    RateChangesByConsent
    AccountsCloseInTime
CHECK_DEADLOCK FALSE
