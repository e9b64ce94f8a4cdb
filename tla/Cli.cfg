SPECIFICATION Spec
CONSTANTS
    Calls <- AllCalls
INVARIANTS
    ExitIsVerdict
    NothingSkipped
    AskedIsMaterialised
CHECK_DEADLOCK FALSE
