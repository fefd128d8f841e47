SPECIFICATION BlockSpec
CONSTANTS
    Conn = {c1, c2}
    Account = {a, b}
    Room = {r1}
    SPMaps = {}
    Blocks0 <- OneBlock
    MaxSwitches = 0
    DBMayFail = TRUE
    Req = {q1}
    Verbs = {"add", "remove"}
    None = None
    a = a
    b = b
SYMMETRY Symmetries
INVARIANTS BlockTypeOK UnblockedShown
