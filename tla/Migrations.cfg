SPECIFICATION Spec
CHECK_DEADLOCK FALSE
INVARIANTS
    SchemaInv
    ServingReplicasFit
