SPECIFICATION BatchSpec
CONSTANTS
    a = a
    b = b
    c = c
    p1 = p1
    q1 = q1
    u = u
    v = v
    Aliases = {a, b, c}
    Ports = {p1, q1}
    Units = {u, v}
    UnitOf <- MCUnitOf
    Placements <- MCPlacements
    Configurations <- MCConfigurations
    Plan <- MCPlan
    ConfigureWhileBusy = FALSE
    DeployAttempts = 2
    MaxCalls = 2
    MaxForeign = 2
INVARIANTS
    CacheTruth
    ResultsFromOneSnapshot
    ReplayKeepsPorts
    SecondMissIsNew
PROPERTIES
    OutOfScopeKept
    CacheTellsOutcome
    ModeChangesOnEmptyUnit
    RecoveryKeepsOtherUnits
