----------------------------- MODULE MCResearch -----------------------------
(***************************************************************************)
(* The four research programs and the lab's desk on small instances.  They *)
(* share nothing here, so each behaviour runs one of them.                 *)
(***************************************************************************)
EXTENDS Replay, Lab, Pools, Desk, TLC

Log(b, i) == [block |-> b, index |-> i]
MCLogs == {Log(3, 1), Log(5, 1), Log(5, 2), Log(6, 1)}

\* Liquidatable without a gap, and twice with one.
MCHistories == {3..4, 2..5, {4}, {}, {1, 3, 4}, {2, 5}}

MCRules ==
    {[rule |-> "sign-reversal"], [rule |-> "dip", window |-> 3, k |-> 1, exit_z |-> 0, stop |-> 25],
     [rule |-> "grid", step |-> 20, lots |-> 2], [rule |-> "breakout", entry |-> 2, exit |-> 1],
     [rule |-> "model", history |-> 2, unseen |-> 3, horizon |-> 1]}
MCQuotes == {[bid |-> 3, ask |-> 3], [bid |-> 2, ask |-> 4]}

\* A machine that sleeps while an episode is open; a window the other
\* measurements fill; a stop.
Bounds(s, n, t) == [sleeps |-> s, normal |-> n, episodes |-> 1, stops |-> t]
MCBudgets == {Bounds(1, 0, 0), Bounds(0, 2, 0), Bounds(0, 0, 1)}
OneBudget == {Bounds(0, 0, 0)}

\* Nothing tells two file names or two runs of the desk apart.
Names == Permutations(Files) \cup Permutations(Runs)

VARIABLE focus
all == <<replayVars, labVars, measureVars, poolsVars, deskVars, focus>>

Still == CHOOSE p \in [Experiments -> Rules] : TRUE

MCInit ==
    /\ ReplayInit /\ LabInit /\ MeasureInit /\ PoolsInit /\ DeskInit
    /\ focus \in {"replay", "lab", "measure", "pools", "desk"}
    /\ focus # "replay" => bad = {} /\ logs = {}
    /\ focus # "lab" => plan = Still /\ closes = <<Min(Closes)>>
    /\ focus # "measure" => budget = CHOOSE b \in Budgets : TRUE
    /\ focus # "pools" => chain = <<[p \in PoolNames |-> Min(Prices)]>>
    /\ IF focus = "desk" THEN Cardinality({file[f] : f \in Files}) = 2 ELSE file = [f \in Files |-> NoRun]

ReplayGoes == focus = "replay" /\ ReplayStep /\ UNCHANGED <<labVars, measureVars, poolsVars, deskVars, focus>>
LabGoes == focus = "lab" /\ LabStep /\ UNCHANGED <<replayVars, measureVars, poolsVars, deskVars, focus>>
MeasureGoes == focus = "measure" /\ MeasureStep /\ UNCHANGED <<replayVars, labVars, poolsVars, deskVars, focus>>
PoolsGo == focus = "pools" /\ PoolsStep /\ UNCHANGED <<replayVars, labVars, measureVars, deskVars, focus>>
DeskGoes == focus = "desk" /\ DeskStep /\ UNCHANGED <<replayVars, labVars, measureVars, poolsVars, focus>>
MCNext == ReplayGoes \/ LabGoes \/ MeasureGoes \/ PoolsGo \/ DeskGoes
MCSpec == MCInit /\ [][MCNext]_all
=============================================================================
