SPECIFICATION FairSpec
CONSTANTS
    Account = {a1, a2}
    Party = {p1}
    Req = {q1, q2, q3}
    Conn = {c1}
    DBMayFail = TRUE
    None = None
INVARIANTS NoOrphans NeverOutsiders
PROPERTIES RequestsEnd
