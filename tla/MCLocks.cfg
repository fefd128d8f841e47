SPECIFICATION LocksSpec
CONSTANTS
    Player = {p1, p2, p3}
    Update = {u1, u2}
    NoWriter = NoWriter
INVARIANTS ComparedListsStay OnlyRingsWait
CHECK_DEADLOCK FALSE
