CONSTANTS
    None = None
    NoFrom = NoFrom
    a = a
    b = b
    p = p
    q = q
    Sources <- McSources
    N = 1
    PdUplinks = {}
    NaUplinks = {0}
    Metric <- Metric1
    Leases = {}
    Adverts <- McAdverts
    PdPrefixes = {}
    NaAddrs = {b}
    Reach <- Ipv6Reach1
    Reasons = {"ROUTERADVERT", "BOUND6", "EXPIRE6", "RECONFIGURE"}
    AdminSignals = {"TERM", "HUP"}
    LoadOutcomes = {"ok", "exit", "raise"}
    RejectWrongPdSrc = TRUE
    ExclusivePreferredPd = FALSE
    FailureThreshold = 1
    RecoveryThreshold = 1
    CountCap = 1
SPECIFICATION Spec
INVARIANTS
    NoLostUpdate6
