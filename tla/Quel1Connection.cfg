SPECIFICATION Spec
CONSTANTS
    b1 = b1
    b2 = b2
    o1 = o1
    o2 = o2
    o3 = o3
    Boxes = {b1, b2}
    Outputs = {o1, o2, o3}
    BoxOf <- MCBoxOf
    MaxCalls = 6
INVARIANTS
    WavesReachable
    ConnectionWhole
