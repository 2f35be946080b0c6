CONSTANTS
    p1 = p1
    p2 = p2
    n1 = n1
    none = none
    Procs <- MCProcs
    Names <- MCNames
    NoProc = none
    ConfigSizes = {1, 2}
    CreationModes = {"CreateExclusive", "PurgeAndCreate", "OpenOrCreate"}
    EnforceChoices = {FALSE}
    MaxInodes = 3
SPECIFICATION Spec
SYMMETRY MCSymmetry
INVARIANTS
    TypeOK
    HandleSizeMatchesSegment
    OwnerIsCreator
    NoLeakedMapping
PROPERTIES
    CreatedValueRollsBack
