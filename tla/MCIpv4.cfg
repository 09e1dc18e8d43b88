CONSTANTS
    None = None
    NoFrom = NoFrom
    a = a
    b = b
    p = p
    q = q
    Sources <- McSources
    N = 2
    PdUplinks = {}
    NaUplinks = {}
    Metric <- Metric2
    Leases <- OneLease
    Adverts = {}
    PdPrefixes = {}
    NaAddrs = {}
    Reach <- AnyReach2
    Reasons = {"BOUND", "EXPIRE"}
    AdminSignals = {"TERM", "HUP"}
    LoadOutcomes = {"ok", "exit", "raise"}
    RejectWrongPdSrc = FALSE
    ExclusivePreferredPd = FALSE
    FailureThreshold = 2
    RecoveryThreshold = 1
    CountCap = 2
SPECIFICATION Spec
INVARIANTS
    TypeOK
    KernelTracked
    CleanExit
    NoLostUpdate4
    HooksInformed
    PrimaryIsBest
PROPERTIES
    HealthByHysteresis
