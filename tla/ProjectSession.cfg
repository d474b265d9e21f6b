CONSTANTS
    p0 = p0
    p1 = p1
    k1 = k1
    g1 = g1
    d1 = d1
    Projects <- TwoProjects
    DefaultProject = p0
    Keys <- OneKey
    Gestures <- OneGesture
    NoKey = NoKey
    Paths <- OnePath
    None = None
    Blank = Blank
    Circumstances <- MCCircumstances
    MaxHistory = 2
    MaxLeft = 1
    MaxPoints = 1
SPECIFICATION Spec
INVARIANTS
    CommittedShown
    HistoryFits
PROPERTIES
    NoSilentLoss
    
    StaysInOrder

VIEW Nameless
