SPECIFICATION Spec
CONSTANTS
    None = None
    p = p
    a = a
    b = b
    n1 = n1
    n2 = n2
    r1 = r1
    r2 = r2
    Envelopes <- MCEnvelopes
    Requests <- MCRequests
    Amounts <- MCFewerOrMore
    Starts <- MCStarts
    MaxCommands = 4
SYMMETRY Sym
PROPERTY EndedIsFinal
CHECK_DEADLOCK FALSE
