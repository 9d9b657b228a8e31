SPECIFICATION FairBoardSpec
CONSTANTS
    o1 = o1
    p1 = p1
    p2 = p2
    None = None
    Orders = {o1}
    Polls = {p1}
    MaxTaps = 2
INVARIANTS BoardIsHonest
PROPERTIES NeverBack EventuallyAgrees
