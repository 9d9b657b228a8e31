SPECIFICATION BillingSpec
CONSTANTS
    g1 = g1
    g2 = g2
    g3 = g3
    g4 = g4
    Gestures = {g1, g2, g3, g4}
    AtOnce = 1
INVARIANTS BilledOnce
SYMMETRY Alike
CHECK_DEADLOCK FALSE
