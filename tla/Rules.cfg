SPECIFICATION Spec
CONSTANTS
    Terms <- MCTerms
    Iris <- MCIris
    Inputs <- AllInputs
INVARIANTS
    PassIsByLevel
    BrokenIsHeard
    FixpointReached
PROPERTIES
    Ends
CHECK_DEADLOCK FALSE
