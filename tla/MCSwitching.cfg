SPECIFICATION Spec
CONSTANTS
    Conn = {c1, c2}
    Account = {a, b}
    Room = {r1, r2}
    SPMaps = {r2}
    Blocks0 <- OneBlock
    MaxSwitches = 2
    DBMayFail = TRUE
    None = None
    a = a
    b = b
SYMMETRY ConnSymmetry
INVARIANTS TypeOK RegistryExact MembershipSound ScreensExact RoommatesShown BlockedNeverShown
PROPERTIES RefinesRegistry NothingSendsToClosedChannel
