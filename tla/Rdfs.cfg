SPECIFICATION ClosureSpec
CONSTANTS
    p = p
    q = q
    r = r
    a = a
    b = b
    c = c
    x = x
    y = y
    Type = Type
    SubClassOf = SubClassOf
    SubPropertyOf = SubPropertyOf
    RdfsDomain = RdfsDomain
    RdfsRange = RdfsRange
    Terms <- MCTerms
    Graphs <- MCGraphs
    MaxTriples = 18
INVARIANTS
    ClosedWhenDone
    AnswersTheTable
PROPERTIES
    Terminates
CHECK_DEADLOCK FALSE
