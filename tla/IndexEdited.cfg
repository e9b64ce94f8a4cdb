SPECIFICATION Spec
CONSTANTS
    v1 = v1
    v2 = v2
    here = here
    there = there
    turtle = turtle
    ntriples = ntriples
    Runs <- TwoRuns
    Contents = {v1, v2}
    Places = {here}
    Formats = {turtle}
    Worlds <- EditedWorld
PROPERTY CacheAnswersForSource
CHECK_DEADLOCK FALSE
