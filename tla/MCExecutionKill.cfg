SPECIFICATION Spec
CONSTANTS
    o1 = o1
    o2 = o2
    MaxTip = 2
    Buffer = 1
    SolPrice = 2
    MaxOpenExecutions = 1
    MaxSimAge = 0
    QueueCap = 1
    SimulateUnprofitable = TRUE
    Opps = {o1}
    Modes = {"Confirm"}
    Grosses = {3}
    Tolerances = {1, 4}
    TipFloors = {0, 2}
    MinProfits = {1}
    LossLimits = {2}
    MaxFailures = 3
    MaxQuoteAge = 1
    MaxDay = 1
    MaxRestarts = 0
    MaxChanges = 0
PROPERTIES KillStopsSubmissions
