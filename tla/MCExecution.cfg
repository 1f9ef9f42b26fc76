SPECIFICATION Spec
CONSTANTS
    o1 = o1
    o2 = o2
    MaxTip = 2
    Buffer = 1
    SolPrice = 2
    MaxOpenExecutions = 1
    MaxSimAge = 0
    QueueCap = 1
    SimulateUnprofitable = TRUE
    Opps = {o1, o2}
    Modes = {"Confirm", "Live"}
    Grosses = {4}
    Tolerances = {4}
    TipFloors = {0, 2}
    MinProfits = {1}
    LossLimits = {2}
    MaxFailures = 1
    MaxQuoteAge = 0
    MaxDay = 2
    MaxRestarts = 0
    MaxChanges = 0
SYMMETRY Symmetry
INVARIANTS TypeOK OpenMatchesInFlight FailuresWithinLimit ConfirmMapExact ReportsAreTrue
PROPERTIES NoStaysNo ImplementsOneShot
