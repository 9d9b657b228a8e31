SPECIFICATION FairEnrollmentSpec
CONSTANTS
    o1 = o1
    o2 = o2
    p1 = p1
    c1 = c1
    c2 = c2
    None = None
    Ops = {o1, o2}
    Phones = {p1}
    Calls = {c1, c2}
    MaxGen = 2
INVARIANTS ClosedIsClean GivenIsKept CardIsUnique
PROPERTIES ClosedForGood UnhandedExpires
