\* One operator who presents one link in two requests at once.
SPECIFICATION AccountsSpec
CONSTANTS
    TimeBound = 0
    RequestBound = 3
    Users = {u1}
    Links = {k1}
    NoLink = NoLink
    Desk = {d1, d2}
    LinkLife = 1
    SessionLife = 2
    GuestLife = 1
    Assignable = {"TENANT_OWNER", "TENANT_EDITOR"}
    r1 = r1
    r2 = r2
    Rates = {r1, r2}
    NoRate = NoRate
    Keys = {"customerAccounts"}
    CreateDtos <- MCCreateDtos
    UpdateDtos <- MCUpdateDtos
    Keep = Keep
    Flats = {1}
    Office = {o1}
    Lookups = {q1}
    FeatureLife = 1
    Emails = {e1}
    Addresses = {a1}
    Counter = {c1}
    VerifyLife = 1
    LockLife = 1
    MaxFailed = 2
INVARIANT LinkOpensOnce
CHECK_DEADLOCK FALSE
