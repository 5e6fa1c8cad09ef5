CONSTANTS
    Containers = {c1, c2, c3}
    Uploads = {u1}
    MaxFaults = 3
SPECIFICATION FairSpec
INVARIANTS
    TypeOK
    SchemaAgreesWithLedger
    ServesOnlyEntitySchema
PROPERTIES
    SchemaStillUnderUpload
    FailsOnlyForCause
    EveryContainerServes
    ImplementsDeployment
CHECK_DEADLOCK FALSE
