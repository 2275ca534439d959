CONSTANTS
    Proc = {v1}
    Req = {r1}
    Instants <- Around
    Ttls <- SomeTtls
    Offsets <- SomeOffsets
    Faults <- NoFaults
SPECIFICATION FairSpec
CHECK_DEADLOCK FALSE
INVARIANTS OnlyAcceptedKept
