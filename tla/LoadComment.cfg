SPECIFICATION Spec
CONSTANTS
    Inputs <- MCCommented
    ThreadCounts = {1, 2, 3}
    MinText = 5
    Vocabulary <- MCVocabulary
INVARIANT ChunksParse
CHECK_DEADLOCK FALSE
