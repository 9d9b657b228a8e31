SPECIFICATION BillingSpec
CONSTANTS
    g1 = g1
    g2 = g2
    g3 = g3
    g4 = g4
    Gestures = {g1, g2, g3, g4}
    AtOnce = 3
SYMMETRY Alike
CHECK_DEADLOCK FALSE
INVARIANTS NumberingSound CreditsCorrectPayments PiecesAreTold
