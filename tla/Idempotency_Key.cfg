SPECIFICATION FairSpec
CONSTANTS
    None = None
    q1 = q1
    q2 = q2
    q3 = q3
    q4 = q4
    Requests <- MCRequests
    PrintOf <- MCPrintOf
    Slow <- MCSlow
INVARIANTS
    TypeOK
    EffectOnce
PROPERTIES
    ReplayOfAnEffect
    WaiterServed
CHECK_DEADLOCK FALSE
