SPECIFICATION Spec
CONSTANTS
    run = run
    runWithoutTimeout = runWithoutTimeout
    close1 = close1
    close2 = close2
    init = init
    Callers <- MCCallers
    Timed = {run}
    Closers <- MCClosers
    Builder = init
INVARIANTS
    NoTaskLeft
    AnswersAreTrue
CHECK_DEADLOCK FALSE
