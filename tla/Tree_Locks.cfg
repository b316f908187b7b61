SPECIFICATION Spec
CONSTANTS
    None = None
    t1 = t1
    t2 = t2
    t3 = t3
    Tx <- MCTx
    Envelopes <- MCEnvelopes
    LastId = 4
    Amounts <- MCAmounts
    Starts <- MCStarts
SYMMETRY Sym
INVARIANTS
    TypeOK
    NoCycle
    SetSuffices
    NoDeadlockInOrder
PROPERTIES
    ImplementsSerial
    MovedWithRequest
CHECK_DEADLOCK FALSE
