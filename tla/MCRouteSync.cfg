CONSTANTS
    None = None
    NoFrom = NoFrom
    Malformed = Malformed
    a = a
    b = b
    p = p
    q = q
    Uplinks <- McUplinks
    RejectWrongPdSrc = TRUE
    MaxFaults = 2
SPECIFICATION Spec
INVARIANTS
    PassAsOneStep
    RememberedRulesPresent
    RestartRepairs4
    Route6Heals
    LeftoversBounded
