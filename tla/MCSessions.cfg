SPECIFICATION Spec
CONSTANTS
    Account = {a1, a2}
    Browser = {b1, b2}
    Token = {t1, t2, t3}
    Lifetime = 2
    MaxTime = 2
    None = None
PROPERTIES SignedOutForGood OnlyOwnSessionsEnd
