CONSTANTS
    None = None
    Unset = Unset
    Nowhere = Nowhere
    x = x
    y = y
    eth0 = eth0
    eth1 = eth1
    lan = lan
    dmz = dmz
    dmz2 = dmz2
    usrLib = usrLib
    usrLibexec = usrLibexec
    CandidateDirs <- McCandidateDirs
    Files <- McFiles
    Short <- McShort
    Foreign = {}
    MaxTrouble = 2
SPECIFICATION Installation
INVARIANTS
    HookFindsUplink
    NothingStale
    FilesFit
    LinkInPlace
PROPERTIES
    HookNeverMisled
CHECK_DEADLOCK FALSE
