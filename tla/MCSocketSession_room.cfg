SPECIFICATION FairSocketSpec
CONSTANTS
    s1 = s1
    o1 = o1
    e1 = e1
    e2 = e2
    Tenant = Tenant
    Sockets = {s1}
    Others = {o1}
    Events = {e1, e2}
INVARIANTS RoomSound NothingLate
PROPERTIES NothingAfterHearing CutForCause RevokedIsClosed
