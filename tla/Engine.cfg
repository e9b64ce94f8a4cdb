SPECIFICATION Spec
CONSTANTS
    Nodes <- MCNodes
    Defs <- MCDefs
    Predicates <- MCPredicates
    Inputs <- AllInputs
    MaxDepth = 3
    FocusSets <- MCFocusSets
    MaxVisits = 6
    MinFocus = 4
INVARIANTS
    ReportIsRecursive
    PiecesAddUp
    ComposedPermits
    ErrorsHaveAReason
    CapIsPrefix
PROPERTIES
    FollowsGuard
    Terminates
CHECK_DEADLOCK FALSE
