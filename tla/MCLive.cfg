CONSTANTS
    None = None
    NoFrom = NoFrom
    a = a
    b = b
    p = p
    q = q
    Sources <- McSources
    N = 2
    PdUplinks = {}
    NaUplinks = {}
    Metric <- Metric2
    Leases <- OneLease
    Adverts = {}
    PdPrefixes = {}
    NaAddrs = {}
    Reach <- DeadFirst
    Reasons = {"BOUND", "EXPIRE"}
    AdminSignals = {"TERM"}
    LoadOutcomes = {"ok", "exit", "raise"}
    RejectWrongPdSrc = FALSE
    ExclusivePreferredPd = FALSE
    FailureThreshold = 2
    RecoveryThreshold = 1
    CountCap = 2
SPECIFICATION FairSpec
PROPERTIES
    StopsWhenAsked
    LostLeaseWithdrawn
    DeadLinkGoesDown
