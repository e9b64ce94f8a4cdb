SPECIFICATION Spec
CONSTANTS
    Calls <- DefaultCapCalls
INVARIANT CapCountsWhatBlocks
CHECK_DEADLOCK FALSE
