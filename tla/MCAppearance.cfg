SPECIFICATION Spec
CONSTANTS
    Conn = {c1, c2}
    Actor = {c1}
    MaxUpdates = 4
INVARIANTS LooksAgree MovesNeverLost
