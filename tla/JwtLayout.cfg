CONSTANT Shapes <- MCShapes
SPECIFICATION Spec
INVARIANT TypeOK
INVARIANT IssueInstantUnseen
INVARIANT OwnerSeen
CHECK_DEADLOCK FALSE
