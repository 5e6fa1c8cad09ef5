CONSTANTS
    Callers = {k1, k2, k3, k4}
    Flows = {f1, f2, f3, f4}
    None = None
SPECIFICATION Spec
INVARIANTS
    TypeOK
    SingleFlight
    CallersAgree
PROPERTIES
    FailureNotShared
    ImplementsTokenService
SYMMETRY Symmetry
CHECK_DEADLOCK FALSE
