SPECIFICATION Spec
CONSTANTS
    A = A
    B = B
    None = None
    t1 = t1
    t2 = t2
    e1 = e1
    e2 = e2
    order1 = order1
    Tabs = {t1, t2}
    Scopes = {A, B}
    Entries = {e1, e2}
    Subject <- OneSale
    RequireEmpty = TRUE
SYMMETRY AllAlike
INVARIANTS NoSaleLost OrderPerSubject DocumentSound
PROPERTIES ImplementsOutbox RetiredForGood
