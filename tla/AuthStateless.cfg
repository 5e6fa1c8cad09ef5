CONSTANTS
    Users = {u1}
    Clients = {c1, c2}
    Requests = {r1, r2}
    AccessTTL = 1
    RefreshTTL = 2
    MaxTime = 2
    None = None
SPECIFICATION Spec
INVARIANT AccessNeedsSession
