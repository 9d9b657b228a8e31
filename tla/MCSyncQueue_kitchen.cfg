SPECIFICATION FairSpec
CONSTANTS
    t1 = t1
    t2 = t2
    A = A
    B = B
    e1 = e1
    e2 = e2
    e3 = e3
    order1 = order1
    None = None
    Tabs = {t1}
    Scopes = {A, B}
    Entries = {e1, e2}
    Subject <- OneSale
    RequireEmpty = FALSE
PROPERTIES EventuallySettled
