CONSTANTS
    s1 = s1
    s2 = s2
    junk = junk
    Segs <- MCSegs
    RecSize <- MCRecSize
    RecAlign = 2
    HeaderLen = 1
    JunkSizes = {1, 3}
    Junk = junk
SPECIFICATION Spec
INVARIANT
    ListComplete
