SPECIFICATION MCSpec
CONSTANTS
    Reqs <- TwoAmounts
    NoReq = NoReq
    MaxWishes = 4
    Trades = {t1, t2}
    A = A
    B = B
    Bots <- TwoBots
    NewBot = C
    Paper = P
    None = None
    UiQueue = 1
    MaxEvents = 6
    Pairs = {1, 2}
    Bars = {1, 2}
    BotStream <- FirstOfBoth
    HISTORY = 3
    Few = 2
    MaxBar = 5
    MaxMoves = 2
    Frames <- TwoSpans
    Cap = 3
    MaxNow = 7
    Delays = {0, 2}
    Passes = {1, 3}
CHECK_DEADLOCK FALSE
INVARIANTS OnlyWhatWasReviewed 
PROPERTIES SendingEnds LossIsAcknowledged
