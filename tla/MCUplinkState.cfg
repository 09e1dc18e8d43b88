CONSTANTS
    FailureThreshold = 3
    RecoveryThreshold = 2
    CountCap = 4
    Ipv6Enabled = TRUE
SPECIFICATION Spec
INVARIANTS CountersBelowThreshold
PROPERTIES Ipv4Hysteresis Ipv6Hysteresis
