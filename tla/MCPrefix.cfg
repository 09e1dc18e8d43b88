CONSTANTS
    None = None
    NoFrom = NoFrom
    a = a
    b = b
    p = p
    q = q
    Sources <- McSources
    N = 1
    PdUplinks = {0}
    NaUplinks = {}
    Metric <- Metric1
    Leases = {}
    Adverts = {}
    PdPrefixes = {p, q}
    NaAddrs = {}
    Reach <- Ipv6Reach1
    Reasons = {"BOUND6", "EXPIRE6"}
    AdminSignals = {"TERM", "HUP", "USR2"}
    LoadOutcomes = {"ok", "raise"}
    RejectWrongPdSrc = TRUE
    ExclusivePreferredPd = FALSE
    FailureThreshold = 1
    RecoveryThreshold = 1
    CountCap = 1
SPECIFICATION Spec
INVARIANTS
    ForwardingKept
PROPERTIES
    StopsAdvertising
