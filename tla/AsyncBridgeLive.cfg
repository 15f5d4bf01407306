SPECIFICATION FairSpec
CONSTANTS
    run = run
    runWithoutTimeout = runWithoutTimeout
    close1 = close1
    close2 = close2
    init = init
    Callers <- MCCallers
    Timed = {run}
    Closers = {close1}
    Builder = init
PROPERTIES
    AbandonedStops
    DrainAnswers
    CloseEndsThread
CHECK_DEADLOCK FALSE
