CONSTANTS
    Width = 10
    Alignments <- MCAlignments
SPECIFICATION Spec
INVARIANTS
    AlignIsNextMultiple
    Log2Exact
    RoundIsNextPow2
