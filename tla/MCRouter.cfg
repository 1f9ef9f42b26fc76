SPECIFICATION FairSpec
CONSTANTS
    Routes <- TwoRoutes
    Specs <- ThreeSpecs
    Pools = {"p", "q"}
    Oracles = {}
    LegsOf <- SharedFirst
    Obs <- Watched
    OraclesOf <- NoOracles
    AllPools = AllPools
    Unobservable = Unobservable
    None = None
    Amounts = {1}
    Base = 1
    Prices = {0, 1, 2}
    Opening = 0
    ChangeBp = 2
    MaxInFlight = 2
    Reserve = 1
    Capacity = 3
    MaxEvents = 2
CHECK_DEADLOCK FALSE
INVARIANTS NothingIsLost QuotesShowTheChange
PROPERTIES DecisionsAreNewer EveryJobEnds
