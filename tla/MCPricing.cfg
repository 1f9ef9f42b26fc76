SPECIFICATION MCSpec
CONSTANTS
    Strategies <- MCStrategies
    FastPairs = {}
    Amount = 100
    Ppm = 100
    Bps = 100
    Micro = 10
    CostParams <- MCCostParams
    BaseFee = 1
    MaxCu = 12
    Guards <- MCGuards
    TipPolicies <- MCTipPolicies
    MinTip = 1
    SolPrices = {15, No}
    UsdScale = 10
    Quotes <- MCQuotes
    CuUsed = {4, 9}
    Floors = {3, No}
    NoPrice = No
    NoFloor = No
    NoOpp = NoOpp
    NoQuestion = NoQuestion
    HalfBits = 6
    Half = 64
    HalfTickPowers <- MCHalfTickPowers
    MaxTick = 6
    FeeOne = 20
    MaxFeeRate = 4
    VolatilityUnit = 10
    VariableScale = 200
    ArrayTicks = 2
    ArraysEachSide = 1
    None = None
    MaxClock = 4
    MaxWait = 2
    MaxTransit = 1
    MaxDrifts = 1
    Skews <- MCSkews
    Swaps = {s1, s2}
    AmountIn = 2
    MinSwapOut = 4
    Prices = {1, 2}
    NodeTip = 1
    MaxBlocks = 5
    FullBlocks = 5
    Payer = "payer"
    Nobody = "nobody"
    TokenProgram = "token"
    AtaProgram = "ata"
    SystemProgram = "system"
    ComputeProgram = "compute"
    MaxTxAccounts = 12
    MaxTxBytes = 400
    BytesPerKey = 32
    BytesPerIndex = 1
    BytesPerIx = 9
    Bands <- MCBands
    SizeBands <- MCSizeBands
    AgeBands <- MCAgeBands
INVARIANTS PricesAreRight ReportsAreRight AnswersAreRight VenueOrdersAreSafe
