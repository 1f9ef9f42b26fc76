SPECIFICATION MCSpec
CONSTANTS
    Worlds = {"setup", "start", "view", "canary", "questions"}
    Slips = {}
    Losses <- MCLosses
    Repos <- MCRepos
    Users <- MCUsers
    Envs <- MCEnvs
    MaxSetups = 1
    MaxSaves = 1
    MaxEdits = 2
    Procs = {p1, p2}
    NoProc = NoProc
    Plans <- MCPlans
    Quiet = 3
    Refresh = 3
    AccountsEvery = 5
    Snapshots = 4
    Timeout = 1
    MaxMissed = 1
    MaxTime = 9
    MaxTrades = 2
    BpsOne = 10
    PpmOne = 100
    Headroom = 1
CHECK_DEADLOCK FALSE
INVARIANTS  OneSpendsTheBudget ViewIsFresh ChecksAreRight
