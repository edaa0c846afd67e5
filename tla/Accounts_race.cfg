SPECIFICATION FairSpec
CONSTANTS
    u1 = u1
    u2 = u2
    u3 = u3
    ann = ann
    bob = bob
    low = low
    high = high
    none = none
    other = other
    l1 = l1
    l2 = l2
    l3 = l3
    r1 = r1
    r2 = r2
    Ids = {u1, u2, u3}
    Names = {ann, bob}
    Emails = {low, high, other, none}
    NoEmail = none
    Lower <- MCLower
    Registered <- MCRegistered
    Links = {l1, l2, l3}
    Requests = {r1, r2}
    Lifetime = 2
    Period = 1
    Promised = 1
    MaxRequests = 4
    MaxFailures = 1
INVARIANTS
    UsedAtMostOnce
    ResetsOwnAccount
    LinksExpire
    FewOfAKind
PROPERTIES
    LinksEnd
CHECK_DEADLOCK FALSE
