SPECIFICATION Spec
CONSTANTS
    c1 = c1
    c2 = c2
    Channels <- MCChannels
    MinV = 0
    MaxV = 4
    Step = 2
    Reset <- MCReset
    Idle <- MCIdle
    MaxSets = 2
    Selections <- MCSelections
    Requests <- MCRequests
    Asked = {4, 5}
    Strange = {2, 7}
    MaxCalls = 3
    MaxForeign = 2
PROPERTIES OutputStaysSafe NoJump ShutdownEndsOff IdleOnExit
CHECK_DEADLOCK FALSE
