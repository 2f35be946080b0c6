CONSTANTS
    s1 = s1
    s2 = s2
    null = null
    Segs <- MCSegs
    NoEntry = null
SPECIFICATION Spec
INVARIANTS
    TypeOK
    ListComplete
