SPECIFICATION FairSpec
CONSTANTS
    Budgets = {2, 5}
    MaxLots = 1
    InitSol = 5
    InitUsdc = 2
    Keep = 1
    StopLoss = 50
    Moves <- CheapOrDear
    SettledAfter = 2
    Life = 1
    PassTime = 1
    MaxSwaps = 5
    MaxWishes = 2
    MaxStops = 2
CHECK_DEADLOCK FALSE
  
PROPERTY OpenSwapSettles
