SPECIFICATION Spec
CONSTANTS
    v1 = v1
    v2 = v2
    here = here
    there = there
    turtle = turtle
    ntriples = ntriples
    Runs <- MCRuns
    Contents = {v1, v2}
    Places = {here, there}
    Formats = {turtle, ntriples}
    Worlds <- MCWorlds
INVARIANTS
    SteadyIndexWhole
    OverlapSettles
PROPERTIES
    SteadyCacheAnswers
    BuildInstalls
CHECK_DEADLOCK FALSE
