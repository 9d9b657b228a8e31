SPECIFICATION FairLoyaltySpec
CONSTANTS
    r1 = r1
    r2 = r2
    i1 = i1
    w1 = w1
    w2 = w2
    l1 = l1
    l2 = l2
    l3 = l3
    None = None
    Requests = {r1, r2}
    Intents = {}
    Workers = {w1, w2}
    Leases = {l1, l2}
    Subtotal = 2
    Amounts = {1}
CHECK_DEADLOCK FALSE
INVARIANTS LedgerIsRight StateIsTrue
PROPERTIES DecidedForGood EventuallyDecided
