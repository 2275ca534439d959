CONSTANTS
    Proc = {v1, v2}
    Req = {r1}
    Instants <- Around
    Ttls <- SomeTtls
    Offsets <- SomeOffsets
    Faults <- AllFaults
SPECIFICATION FairSpec
CHECK_DEADLOCK FALSE
INVARIANTS TypeOK WriteThrough
PROPERTIES ReplayExplained LapsedDropped
