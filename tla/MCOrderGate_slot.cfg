SPECIFICATION GateSpec
CONSTANTS
    r1 = r1
    r2 = r2
    c1 = c1
    c2 = c2
    None = None
    Requests = {r1, r2}
    Clients = {c1, c2}
    MaxUsage = 1
    Capacity = 1
    Quota = 1
    s1 = s1
    s2 = s2
    Spellings = {s1, s2}
    MaxCounter = 1
SYMMETRY Alike
CHECK_DEADLOCK FALSE
INVARIANTS SlotKept QuotaCounts OrdersAreOnce OfferKept
