SPECIFICATION FairSpec
CONSTANTS
    Providers = {p1, p2}
    Addresses = {a1, a2}
    Leases = {l1, l2}
    NULL = NULL
    MaxConnects <- MCMaxConnects
    LEASE_TTL = 4
    Margin <- MCMargin
    MinSleep = 0
    Delay = 1
INVARIANTS
    LeaseHeld
PROPERTIES
    DeadKeysExpire
    RegisteredServes
    ConsumerListens
CHECK_DEADLOCK FALSE
