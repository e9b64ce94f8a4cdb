SPECIFICATION Spec
CONSTANTS
    Inputs <- MCInputs
    ThreadCounts = {1, 2, 3}
    MinText = 5
    Vocabulary <- MCVocabulary
INVARIANTS
    LoadedAsWritten
    FailsAsWritten
    LookupsAgree
    RestoredIsSame
CHECK_DEADLOCK FALSE
