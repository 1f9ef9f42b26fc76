SPECIFICATION MCSpec
CONSTANTS
  LastBlock = 7
  Window = 2
  TipMargin = 1
  Horizon = 4
  Days = {2, 5}
  Logs <- MCLogs
  Histories <- MCHistories
  MaxReplays = 2
  Experiments = {1}
  Rules <- MCRules
  Capital = 24
  FixedCost = 0
  TotalLoss = 8
  DailyLoss = 4
  Closes = {2, 4}
  Quotes <- MCQuotes
  BarTicks = 2
  DayBars = 3
  Spans = {3}
  LastBar = 4
  MaxLabs = 2
  Dexes = {d1}
  Capacity = 3
  Trigger = 2
  Gaps = {0, 3}
  Exits = 1
  Markouts = 1
  MaxMeasures = 1
  Budgets <- MCBudgets
  PoolNames = {p1, p2}
  Prices = {0, 1, 2}
  ArraySize = 2
  Cost = 0
  MaxSlot = 3
  Runs = {r1, r2}
  Files = {f, g}
  NoRun = NoRun
  NoFile = NoFile
  Stakes = {1, 2}
  FileBudget = 2
  InitSol = 3
  InitUsdc = 0
  Keep = 0
  LeavesOpen = FALSE
  MaxPids = 2
  MaxAsks = 2
  MaxEdits = 1
SYMMETRY Names
CHECK_DEADLOCK FALSE
INVARIANTS ReplayIsRight LabIsRight MeasuresAreTrue 
