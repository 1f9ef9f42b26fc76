------------------------------- MODULE Session ------------------------------
(***************************************************************************)
(* A session from its start to its end: main.rs (main, run), budget.rs,    *)
(* engine.rs (start_with, the tasks it spawns, stop) and view.rs.          *)
(*                                                                         *)
(* Three parts that share nothing but the program: processes that start    *)
(* and stop over one data directory; the view that the tasks of a running  *)
(* engine keep of tips and wallet, in time; and the trades of a canary.    *)
(***************************************************************************)
EXTENDS Integers, Sequences, FiniteSets

CONSTANTS
    Procs, NoProc,
    Plans,     \* what a process is started for: [kind, mode, live, key, strategies, event]
    Quiet,     \* the tip stream counts as quiet after so long
    Refresh,   \* period of the tip floor's poll
    AccountsEvery, \* period of the tip accounts' poll
    Snapshots, \* period of the wallet's snapshot
    Timeout,   \* bound of a request
    MaxMissed, \* bound of the floor's requests that fail in a row
    MaxTime,   \* bound of the time explored
    MaxTrades  \* bound of a canary's trades

ASSUME SessionAssumption ==
    /\ {Quiet, Refresh, AccountsEvery, Snapshots, Timeout, MaxMissed, MaxTime, MaxTrades} \subseteq Nat 
    /\ Timeout < Refresh /\ Refresh <= AccountsEvery /\ NoProc \notin Procs

VARIABLES
    budget,  \* [owner, holder]: who has the lock, and the name in the file
    proc,    \* of each process [at, plan, signer]
    rows,    \* of each process its session in the database
    time,
    tip,     \* [floor, streamAt, stream, accounts, seen, poll, missed, due, adue]
    wal,     \* [ts, read, poll, due]: the view's wallet, when it was read
    trades,  \* a canary's trades, on the chain
    shown,   \* what the view model shows of them
    canary   \* [how, of]: "on" or how it ended, and the trade reconciled

startVars == <<budget, proc, rows>>
viewVars == <<time, tip, wal>>
canaryVars == <<trades, shown, canary>>
sessionVars == <<startVars, viewVars, canaryVars>>

----------------------------------------------------------------------------
(* Start and end *)

\* Mutant of Guard: the lock's guard is not bound to a name and dropped at once.
GuardDropped(who) == NoProc

\* The lock is held as long as run holds its guard.
Guard(who) == who

SendsTransactions(plan) == plan.mode # "paper"

StartInit ==
    /\ budget = [owner |-> NoProc, holder |-> NoProc]
    /\ proc = [who \in Procs |-> [at |-> "off", plan |-> [kind |-> "none"], signer |-> FALSE]]
    /\ rows = [who \in Procs |-> "none"]

Goes(who, at) == proc' = [proc EXCEPT ![who].at = at]
Ends(who, at) == /\ proc' = [proc EXCEPT ![who].at = at, ![who].signer = FALSE]
                 /\ budget' = [budget EXCEPT !.owner = IF @ = who THEN NoProc ELSE @]

\* main: a canary needs the keys and the gate, and runs in CONFIRM without a
\* simulation taker.
Prepared(plan) ==
    IF plan.kind = "canary" THEN [plan EXCEPT !.mode = "confirm", !.strategies = TRUE, !.event = FALSE] ELSE plan
Launched(who) ==
    /\ proc[who].at = "off" /\ rows[who] = "none"
    /\ \E plan \in Plans :
          /\ plan.kind = "canary" => plan.live /\ plan.key # "none"
          /\ SendsTransactions(plan) => plan.live /\ plan.key # "none" \* Config::validate
          /\ proc' = [proc EXCEPT ![who] = [at |-> "acquire", plan |-> Prepared(plan), signer |-> FALSE]]
    /\ UNCHANGED <<budget, rows>>

\* budget::acquire; who is refused is told the name the holder left.
Acquire(who) ==
    /\ proc[who].at = "acquire"
    /\ IF budget.owner = NoProc
       THEN /\ budget' = [owner |-> Guard(who), holder |-> who]
            /\ Goes(who, IF proc[who].plan.kind = "research" THEN "running" ELSE "wallet")
       ELSE Goes(who, "refused") /\ UNCHANGED budget
    /\ UNCHANGED rows

\* The signer is loaded in modes that send, and only with a permit.
LoadWallet(who) ==
    /\ proc[who].at = "wallet"
    /\ IF ~SendsTransactions(proc[who].plan) THEN Goes(who, "recorder") /\ UNCHANGED budget
       ELSE IF proc[who].plan.live /\ proc[who].plan.key = "good"
       THEN proc' = [proc EXCEPT ![who].at = "recorder", ![who].signer = TRUE] /\ UNCHANGED budget
       ELSE Ends(who, "failed")
    /\ UNCHANGED rows

\* The session's row, and the tasks: from here the reference price is asked of
\* Jupiter unless the scheduler is event driven.
SpawnRecorder(who) ==
    /\ proc[who].at = "recorder"
    /\ \/ rows' = [rows EXCEPT ![who] = "open"] /\ Goes(who, "rent") /\ UNCHANGED budget
       \/ Ends(who, "failed") /\ UNCHANGED rows

\* The rent is read or a default is used, the pipeline is built and its tasks are
\* started; without a strategy the start fails, and the process ends before its
\* recorder has, or after.  Its other tasks end with it, in the same step.
Schedule(who) ==
    /\ proc[who].at = "rent"
    /\ IF proc[who].plan.strategies THEN Goes(who, "running") /\ UNCHANGED <<budget, rows>>
       ELSE Ends(who, "failed") /\ (rows' = [rows EXCEPT ![who] = "ended"] \/ UNCHANGED rows)

\* Running::stop: the tasks, the bus, the recorder, then the reports; the lock
\* goes with the end of run.
StopTasks(who) == proc[who].at = "running" /\ Goes(who, "stopping") /\ UNCHANGED <<budget, rows>>
JoinRecorder(who) ==
    /\ proc[who].at = "stopping" /\ Ends(who, "done")
    /\ rows' = IF rows[who] = "open" THEN [rows EXCEPT ![who] = "ended"] ELSE rows
Dies(who) == proc[who].at \notin {"off", "refused", "failed", "done"} /\ Ends(who, "done") /\ UNCHANGED rows
Again(who) ==
    /\ proc[who].at \in {"refused", "failed", "done"} /\ rows[who] = "none"
    /\ proc' = [proc EXCEPT ![who] = [at |-> "off", plan |-> [kind |-> "none"], signer |-> FALSE]]
    /\ UNCHANGED <<budget, rows>>

StartStep ==
    \E who \in Procs : \/ Launched(who) \/ Acquire(who) \/ LoadWallet(who) \/ SpawnRecorder(who) \/ Schedule(who)
                       \/ StopTasks(who) \/ JoinRecorder(who) \/ Dies(who) \/ Again(who)

----------------------------------------------------------------------------
(* The view of a running engine, in time *)

NoPoll == [step |-> "idle"]
ViewInit ==
    /\ time = 0
    /\ tip = [floor |-> -1, streamAt |-> -Quiet, stream |-> "up", accounts |-> "none", seen |-> FALSE,
              poll |-> NoPoll, missed |-> 0, due |-> 0, adue |-> 0]
    /\ wal = [ts |-> -1, read |-> -1, poll |-> NoPoll, due |-> 0]

\* A request is answered within Timeout, and an idle task takes a due tick at once.
Waits(poll, due) == IF poll = NoPoll THEN time < due ELSE time - poll.asked < Timeout
Later == /\ time < MaxTime /\ Waits(wal.poll, wal.due)
         /\ Waits(tip.poll, tip.due) /\ Waits(tip.poll, tip.adue)
         /\ time' = time + 1 /\ UNCHANGED <<tip, wal>>

\* Mutant of Heard: any message of the stream counts.
HeardAnything(good) == time

\* A message of the tip stream that could be read sets the time it was heard.
Heard(good) == IF good THEN time ELSE tip.streamAt
StreamMessage ==
    /\ tip.stream = "up"
    /\ \E good \in BOOLEAN :
          tip' = [tip EXCEPT !.streamAt = Heard(good), !.floor = IF good THEN time ELSE @,
                            !.missed = IF good THEN 0 ELSE @]
    /\ UNCHANGED <<time, wal>>
StreamFails == /\ tip.stream = "up" /\ tip' = [tip EXCEPT !.stream = "down"] /\ UNCHANGED <<time, wal>>

\* The tick of the floor's poll: skipped while the stream is heard.  The value
\* is of the time it was asked for or later.
FloorTick ==
    /\ tip.poll = NoPoll /\ time >= tip.due
    /\ tip' = [tip EXCEPT !.due = @ + Refresh,
                          !.poll = IF time - tip.streamAt < Quiet THEN NoPoll ELSE [step |-> "floor", asked |-> time]]
    /\ UNCHANGED <<time, wal>>
FloorAnswer ==
    /\ tip.poll.step = "floor"
    /\ \/ tip' = [tip EXCEPT !.poll = NoPoll, !.floor = tip.poll.asked, !.missed = 0]
       \/ tip.missed < MaxMissed /\ tip' = [tip EXCEPT !.poll = NoPoll, !.missed = @ + 1]
    /\ UNCHANGED <<time, wal>>

\* Mutant of Kept: the verified list whenever the answer fails.
KeptNever(t) == FALSE

\* have_accounts: the last good list is kept.
Kept(t) == t.seen

\* The same task asks for the tip accounts; the floor waits for it.
AccountsTick ==
    /\ tip.poll = NoPoll /\ time >= tip.adue
    /\ tip' = [tip EXCEPT !.adue = @ + AccountsEvery, !.poll = [step |-> "accounts", asked |-> time]]
    /\ UNCHANGED <<time, wal>>
AccountsAnswer ==
    /\ tip.poll.step = "accounts"
    /\ \/ tip' = [tip EXCEPT !.poll = NoPoll, !.accounts = "good", !.seen = TRUE]
       \/ tip' = [tip EXCEPT !.poll = NoPoll, !.accounts = IF Kept(tip) THEN @ ELSE "known"]
    /\ UNCHANGED <<time, wal>>

\* Mutant of WalletStamp: the balance is as old as its answer.
WalletStampLate(poll) == time

\* Health and equity: the balance bears the time of the tick that asked.
WalletStamp(poll) == poll.asked
SnapshotTick ==
    /\ wal.poll = NoPoll /\ time >= wal.due
    /\ wal' = [wal EXCEPT !.due = @ + Snapshots, !.poll = [step |-> "asked", asked |-> time]]
    /\ UNCHANGED <<time, tip>>
NodeReads == /\ wal.poll.step = "asked" /\ UNCHANGED <<time, tip>>
             /\ wal' = [wal EXCEPT !.poll = [step |-> "read", asked |-> wal.poll.asked, read |-> time]]
SnapshotAnswer ==
    /\ wal.poll.step = "read"
    /\ \/ wal' = [wal EXCEPT !.poll = NoPoll, !.ts = WalletStamp(wal.poll), !.read = wal.poll.read]
       \/ wal' = [wal EXCEPT !.poll = NoPoll]
    /\ UNCHANGED <<time, tip>>

ViewStep == \/ Later \/ StreamMessage \/ StreamFails \/ FloorTick \/ FloorAnswer \/ AccountsTick \/ AccountsAnswer
            \/ SnapshotTick \/ NodeReads \/ SnapshotAnswer

----------------------------------------------------------------------------
(* The canary's trades *)

CanaryInit == trades = <<>> /\ shown = <<>> /\ canary = [how |-> "on", of |-> 0]

InFlight == \E i \in DOMAIN trades : trades[i].known = "sent"

\* The operator approved; the simulator sends one trade at a time and waits.
CanarySends ==
    /\ canary.how = "on" /\ ~InFlight /\ Len(trades) < MaxTrades
    /\ trades' = Append(trades, [chain |-> "flying", known |-> "sent"])
    /\ shown' = Append(shown, "sent") /\ UNCHANGED canary
CanarySettles ==
    \E i \in DOMAIN trades :
        /\ trades[i].chain = "flying"
        /\ \E to \in {"landed", "dropped"} : trades' = [trades EXCEPT ![i].chain = to]
        /\ UNCHANGED <<shown, canary>>

\* The pipeline learns it; the view model is told, if its queue has room.
CanaryLearns ==
    /\ canary.how = "on"
    /\ \E i \in DOMAIN trades :
          /\ trades[i].known = "sent" /\ trades[i].chain # "flying"
          /\ LET says == IF trades[i].chain = "landed" THEN "landed" ELSE "failed"
             IN  /\ trades' = [trades EXCEPT ![i].known = says]
                 /\ shown' \in {shown, [shown EXCEPT ![i] = says]}
    /\ UNCHANGED canary

\* The bundle was not seen to land in time; it still may.
CanaryExpires ==
    /\ canary.how = "on"
    /\ \E i \in DOMAIN trades :
          /\ trades[i].known = "sent"
          /\ trades' = [trades EXCEPT ![i].known = "expired"]
          /\ shown' \in {shown, [shown EXCEPT ![i] = "expired"]}
    /\ UNCHANGED canary

\* Mutant of CanaryLanded: the newest trade, whatever became of it.
CanaryNewest == IF shown = <<>> THEN {} ELSE {Len(shown)}

\* canary_landed.
CanaryLanded == {i \in DOMAIN shown : shown[i] = "landed"}

\* The tick that sees a trade landed or failed, or any other end of run.  One of
\* the landed trades is reconciled.
CanaryOver(how) ==
    /\ canary.how = "on"
    /\ how = "tick" => \E i \in DOMAIN shown : shown[i] \in {"landed", "failed"}
    /\ IF CanaryLanded = {} THEN canary' = [how |-> how, of |-> 0]
       ELSE \E i \in CanaryLanded : canary' = [how |-> how, of |-> i]
    /\ UNCHANGED <<trades, shown>>

CanaryStep == CanarySends \/ CanarySettles \/ CanaryLearns \/ CanaryExpires \/ CanaryOver("tick") \/ CanaryOver("left")

----------------------------------------------------------------------------
\* The three parts, each by itself.
StartSpec == StartInit /\ [][StartStep]_startVars
ViewSpec == ViewInit /\ [][ViewStep]_viewVars
CanarySpec == CanaryInit /\ [][CanaryStep]_canaryVars

----------------------------------------------------------------------------
(* Properties *)

\* "One process at a time spends the Jupiter budget": through starts that fail
\* late, deaths and restarts no two processes ask Jupiter (budget::acquire, the
\* guard of run and of --research).
Spends(who) == \/ proc[who].at = "running"
               \/ proc[who].at = "rent" /\ ~proc[who].plan.event
OneSpendsTheBudget == \A who, oth \in Procs : Spends(who) /\ Spends(oth) => who = oth

\* The floor is never older than the stream's silence, a period for each
\* request of the REST service that failed and one more, and the requests the
\* task waits for, whatever the stream sends and whichever answer comes
\* last; and a good list of tip accounts is never lost (the tasks of
\* start_with: "poll only when it is quiet", "keep the last good list").
TipsKeepUp ==
    /\ time - tip.floor <= Quiet + (1 + tip.missed) * Refresh + 3 * Timeout
    /\ tip.seen => tip.accounts = "good"

\* A balance is never taken for younger than it is: the risk engine's limit of
\* its age holds for the moment it was read (set_wallet_lamports).
WalletIsNoYounger == wal.ts <= wal.read

\* What the engine prices and limits with is no older than it takes it for:
\* the tip floor, the tip accounts and the wallet's balance.
ViewIsFresh == TipsKeepUp /\ WalletIsNoYounger

\* The trade a canary reconciles is one that landed, and a session that a
\* landed trade ended reconciles one (run, canary_landed).
CanaryReportIsTrue ==
    canary.how # "on" =>
        /\ canary.of # 0 => trades[canary.of].chain = "landed"
        /\ canary.how = "tick" /\ canary.of = 0 => \E i \in DOMAIN trades : trades[i].known = "failed"
=============================================================================
