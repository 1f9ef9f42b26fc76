SPECIFICATION FairSpec
CONSTANTS
    o1 = o1
    o2 = o2
    MaxTip = 2
    Buffer = 1
    SolPrice = 2
    MaxOpenExecutions = 1
    MaxSimAge = 0
    QueueCap = 1
    SimulateUnprofitable = TRUE
    Opps = {o1}
    Modes = {"Paper", "Confirm", "Live"}
    Grosses = {2, 4}
    Tolerances = {1, 5}
    TipFloors = {0, 3}
    MinProfits <- MinProfitsWithLoss
    LossLimits = {0, 2}
    MaxFailures = 2
    MaxQuoteAge = 0
    MaxDay = 2
    MaxRestarts = 1
    MaxChanges = 1
INVARIANTS SendNeedsYes 
PROPERTY EveryJobEnds
