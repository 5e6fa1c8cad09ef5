CONSTANTS
    r1 = r1
    r2 = r2
    t1 = t1
    t2 = t2
    t3 = t3
    row = row
    Requests <- MCRequests
    Tenants <- MCTenants
    Missing = Missing
    Erp <- MCErp
    Answers <- MCAnswers
    FirstBooks <- MCFirstBooks
    MaxPosts = 1
    NaN = NaN
    None = None
SPECIFICATION Spec
INVARIANTS
    TypeOK
    OwnBooks
    TotalsExact
SYMMETRY Symmetry
CHECK_DEADLOCK FALSE
