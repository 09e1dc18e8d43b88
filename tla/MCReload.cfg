CONSTANTS
    None = None
    NoFrom = NoFrom
    RejectWrongPdSrc = FALSE
    Unset = Unset
    x = x
    y = y
    z = z
    lan = lan
    dmz = dmz
    Names = {x, y, z}
    Files <- McFiles
    Short <- McShort
SPECIFICATION Spec
INVARIANTS
    ClientsUseTheirUplink
    OtherTrafficTakesItsWay
    SlotsDistinct
    TeardownRemovesAll
