CONSTANTS
    c1 = c1
    p1 = p1
    p2 = p2
    Users = {u1}
    Clients = {c1}
    AccessTTL = 1
    MaxTime = 1
    None = None
    Pages = {p1, p2}
    Home <- MCHome
    Nonces <- MCNonces
SPECIFICATION FairPipelineSpec
INVARIANTS
    PipelineTypeOK
    NoWriteAsAnotherUser
    NoWriteAfterLogout
PROPERTY PagesConverge
