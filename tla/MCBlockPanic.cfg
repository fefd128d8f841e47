SPECIFICATION BlockSpec
CONSTANTS
    Conn = {c1, c2}
    Account = {a, b}
    Room = {r1}
    SPMaps = {}
    Blocks0 = {}
    MaxSwitches = 0
    DBMayFail = FALSE
    Req = {q1}
    Verbs = {"add"}
    None = None
    a = a
    b = b
SYMMETRY Symmetries
INVARIANTS NoRequestPanics
