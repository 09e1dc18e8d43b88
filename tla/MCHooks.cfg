CONSTANTS
    s10 = s10
    s20 = s20
    u25 = u25
    u15 = u15
    DaemonStop = DaemonStop
    Sentinel = Sentinel
    Stem <- McStem
    Rank <- McRank
    Events = {wanUp, wanDown}
    System = {s10, s20}
    User = {u25}
    Timeouts = {1, 2}
    Escaping = {s10}
SPECIFICATION FairSpec
INVARIANTS
    InNameOrder
    DisabledStaysOff
    DrainedInTime
PROPERTIES
    HandledInOrder
    EveryEventHandled
    ShutdownEnds
