SPECIFICATION PairingSpec
CONSTANTS
    t1 = t1
    t2 = t2
    A = A
    B = B
    C = C
    e1 = e1
    None = None
    Tabs = {t1, t2}
    Scopes = {A, B}
    Entries = {e1}
    Subject <- NoSubject
    RequireEmpty = TRUE
    WritesMayFail = TRUE
SYMMETRY Alike
PROPERTIES NoCrossTenantSend
