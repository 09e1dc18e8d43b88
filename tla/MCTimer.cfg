SPECIFICATION Spec
CONSTANTS
    None = None
    p = p
    q = q
    Prefixes <- McPrefixes
    RouterLifetimes <- McLifetimes
    MinInterval = 3
    MaxRtrAdvInterval = 2
    DefaultLifetimeMax = 4
    Fallback = 3
    Gap = 2
    MaxClock = 10
INVARIANTS
    ChangeReachesRadvd
    ExpiredRouterWithdrawn
CHECK_DEADLOCK FALSE
