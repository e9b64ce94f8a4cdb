SPECIFICATION SpecExpr
CONSTANTS
    Vocab <- MCVocab
    MaxPathDepth = 3
    PathGraph <- MCPathGraph
    Roots <- MCRoots
    DataGraphs <- MCDataGraphs
    FocusLists <- MCFocusLists
    MaxExprDepth = 3
    Questions <- MCQuestions
    Functions <- MCFunctions
    Holds <- MCHolds
    Solve <- MCSolve
    Apply <- MCApply
INVARIANTS
    RowsAreImages
    RefusedForAReason
    ExpressionMeansItsBag
PROPERTIES
    Ends
CHECK_DEADLOCK FALSE
