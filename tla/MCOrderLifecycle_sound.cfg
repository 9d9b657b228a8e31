SPECIFICATION FairOrderSpec
CONSTANTS
    r1 = r1
    r2 = r2
    r3 = r3
    r4 = r4
    i1 = i1
    i2 = i2
    None = None
    Requests = {r1, r2, r3}
    Intents = {i1, i2}
    Subtotal = 2
    Amounts = {1, 3}
CHECK_DEADLOCK FALSE
INVARIANTS OrderSound TracesAreTrue
PROPERTIES OnlyForward EventuallyConfirmed
