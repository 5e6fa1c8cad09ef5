CONSTANTS
    Scans = {s1, s2}
    Lines = {l1}
    Users = {u1}
    Readers = {q1}
    None = None
SPECIFICATION Spec
INVARIANT FailureLeavesNoObject
