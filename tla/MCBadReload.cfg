CONSTANTS
    None = None
    NoFrom = NoFrom
    a = a
    b = b
    p = p
    q = q
    Sources <- McSources
    N = 1
    PdUplinks = {}
    NaUplinks = {}
    Metric <- Metric1
    Leases <- OneLease
    Adverts = {}
    PdPrefixes = {}
    NaAddrs = {}
    Reach <- AnyReach1
    Reasons = {"BOUND", "EXPIRE"}
    AdminSignals = {"HUP"}
    LoadOutcomes = {"ok", "exit", "raise"}
    RejectWrongPdSrc = FALSE
    ExclusivePreferredPd = FALSE
    FailureThreshold = 2
    RecoveryThreshold = 1
    CountCap = 2
SPECIFICATION Spec
PROPERTIES
    StopsOnlyWhenAsked
