SPECIFICATION SpecAll
CONSTANTS
    Graphs <- MCGraphs
    Vocab <- MCVocab
INVARIANTS
    NumbersAgree
    FoundIsReachable
    ReferencesResolve
    FailsOnMalformed
    AnswerIsRight
PROPERTIES
    Ends
CHECK_DEADLOCK FALSE
