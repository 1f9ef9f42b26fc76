SPECIFICATION MCSpec
CONSTANTS
    N = 2
    Odd = {1}
    Bad = Bad
    MaxHead = 2
    MaxWire = 2
    TickCap = 1
    Idle = 1
    QuietAfter = 2
    DownAfter = 2
    MaxFloor = 2
    None = None
CHECK_DEADLOCK FALSE
INVARIANT FeedIsTrue
PROPERTY FeedsRecover
