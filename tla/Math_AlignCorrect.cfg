CONSTANTS
    Width = 10
    Alignments <- MCAlignments
SPECIFICATION Spec
INVARIANT
    AlignCorrect
