SPECIFICATION RunSpec
CONSTANTS
    a = a
    b = b
    m = m
    p = p
    um = um
    q = q
    u = u
    v = v
    Aliases = {a, b, m}
    Ports = {p, um, q}
    Units = {u, v}
    UnitOf <- MCUnitOf
    Placements <- MCPlacements
    Configurations <- MCConfigurations
    MonitorPort <- MCMonitorPort
    MonitorAliases = {m}
    DeployAttempts = 1
    MaxBefore = 1
    MaxCalls = 12
    MaxForeign = 1
INVARIANTS
    MonitorRestores
