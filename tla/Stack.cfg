SPECIFICATION Spec
CONSTANTS
    A = A
    B = B
    C = C
    D = D
    m = m
    n = n
    Shapes <- MCShapes
    Nodes <- MCNodes
    Refs <- MCRefs
    MaxDepth = 5
    FocusSets <- MCFocusSets
INVARIANTS
    TypeOK
    SeenIsPairs
    NothingLeftBehind
    GuardIdle
    DepthByShapes
