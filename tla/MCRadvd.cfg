CONSTANTS
    None = None
    NoFrom = NoFrom
    a = a
    b = b
    p = p
    q = q
    Sources <- McSources
    N = 2
    PdUplinks = {0, 1}
    NaUplinks = {}
    Metric <- Metric2
    Leases = {}
    Adverts <- OneAdvert
    PdPrefixes = {}
    NaAddrs = {}
    Reach <- Ipv6Reach2
    Reasons = {"ROUTERADVERT"}
    AdminSignals = {"TERM"}
    LoadOutcomes = {"ok", "exit", "raise"}
    RejectWrongPdSrc = FALSE
    ExclusivePreferredPd = TRUE
    FailureThreshold = 1
    RecoveryThreshold = 1
    CountCap = 1
SPECIFICATION Spec
INVARIANTS
    CycleReachesRadvd
PROPERTIES
    NoGap
