CONSTANTS
    Scans = {s1, s2}
    Lines = {l1}
    Users = {u1, u2}
    Readers = {q1}
    None = None
    Limits = {0, 2}
    MaxLimit = 1
    Instants = {1, 2}
SPECIFICATION FairPagesSpec
INVARIANTS
    PagesTypeOK
    NoDanglingKey
    ReaderSeesWholeReceipt
    ReportedErrorLeavesNothing
    WalkMissesOnlyTies
PROPERTIES
    ImplementsReceiptLedger
    EveryScanEnds
