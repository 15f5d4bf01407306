CONSTANTS
    b1 = b1
    b2 = b2
    p1 = p1
    p2 = p2
    t1 = t1
    t2 = t2
    v1 = v1
    v2 = v2
    f1 = f1
    f2 = f2
    NoVal = NoVal
    Boxes <- MCBoxes
    Ports <- MCPorts
    BoxOf <- MCBoxOf
    Targets <- MCTargets
    PathOf <- MCPathOf
    Configs <- MCConfigs
    Custom <- MCCustom
    Vals <- MCVals
    Freqs <- MCFreqs
    MaxCalls = 3
    MaxForeign = 1
    MaxOverrides = 2
SPECIFICATION Spec
INVARIANTS SyncedMeansAgreement CacheFollowsSettings FrequenciesAgree
PROPERTIES SyncRebuildsCache OverrideUndone ImplementsMirror
CHECK_DEADLOCK FALSE
