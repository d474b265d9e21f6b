CONSTANTS
    p0 = p0
    p1 = p1
    p2 = p2
    c1 = c1
    c2 = c2
    k1 = k1
    Projects <- MCProjects
    InitialProject = p0
    Keys <- MCKeys
    NoKey = NoKey
    Clients <- MCClients
    NoView = NoView
    MaxRevision = 4
SPECIFICATION Spec
INVARIANTS
    HistoryChain
PROPERTIES
    RevisionsImmutable
    NoLostUpdate
    ImplementsUndoStack
SYMMETRY MCSymmetry
