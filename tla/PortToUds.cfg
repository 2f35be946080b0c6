CONSTANTS
    p1 = p1
    p2 = p2
    Procs <- MCProcs
    NSlots = 2
    MaxLen = 2
    Letters = {"a", "b"}
    SetArgs <- MCSetArgs
    QueryArgs <- MCQueryArgs
    PortArgs = {0, 1, 2}
    Writers <- MCSingleWriters
    AttachAfterInit = TRUE
    MaxCounter = 3
SPECIFICATION Spec
INVARIANTS
    TypeOK
    NoHandleLeak
    ReadableIsLastSet
    GetSeesLastWritten
PROPERTY
    DirectorySpec
