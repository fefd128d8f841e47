CONSTANTS
    User = {u1}
    SendDelay = 2
    SendMaxInterval = 3
    Lag = 1
    Seconds = 2
    SecondTicks = 4
    Cycle = 3
    Value = {0, 1}
    Starts = {3, 7}
    Message <- Packet
SPECIFICATION Spec
INVARIANTS TypeOK BatchBounded QuietEnds NewestShown HourFollows
PROPERTY RateLow
