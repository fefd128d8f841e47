SPECIFICATION FairSpec
CONSTANTS
    Conn = {c1, c2}
    Account = {}
    Room = {r1, r2}
    SPMaps = {}
    Blocks0 = {}
    MaxSwitches = 1
    DBMayFail = FALSE
    None = None
    a = a
    b = b
PROPERTIES HandlersEnd ArrivalsSeen DeparturesSeen
