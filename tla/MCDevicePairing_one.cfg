SPECIFICATION FairPairingSpec
CONSTANTS
    t1 = t1
    t2 = t2
    A = A
    B = B
    C = C
    e1 = e1
    None = None
    Tabs = {t1}
    Scopes = {A, B, C}
    Entries = {e1}
    Subject <- NoSubject
    RequireEmpty = TRUE
    WritesMayFail = FALSE
INVARIANTS PiecesAgree  NoLeakAcrossPairings
PROPERTIES EventuallyRestored
