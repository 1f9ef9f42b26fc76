---------------------------- MODULE SessionProofs ----------------------------
(***************************************************************************)
(* Proofs about Session, for any number of processes, any periods of its   *)
(* polls and any number of trades: one process at a time spends the        *)
(* budget, the tip floor keeps up, and a canary reports a trade that       *)
(* landed.                                                                 *)
(***************************************************************************)
EXTENDS Session, TLAPS

----------------------------------------------------------------------------
(* Who spends has the lock *)

Holding == {"wallet", "recorder", "rent", "running", "stopping"}
LockHeld ==
    /\ DOMAIN proc = Procs /\ {"owner", "holder"} \subseteq DOMAIN budget
    /\ \A who \in Procs : {"at", "plan", "signer"} \subseteq DOMAIN proc[who]
    /\ \A who \in Procs : proc[who].at \in Holding => budget.owner = who

\* Whoever goes on within the lock, or leaves it, is the one who has it.
LEMMA GoesKeeps ==
    ASSUME LockHeld, NEW who \in Procs, NEW at, Goes(who, at), UNCHANGED budget,
           at \in Holding => proc[who].at \in Holding
    PROVE  LockHeld'
  BY DEF LockHeld, Goes

LEMMA EndsKeeps ==
    ASSUME LockHeld, NEW who \in Procs, NEW at, Ends(who, at), at \notin Holding
    PROVE  LockHeld'
  <1>1. \A oth \in Procs \ {who} : proc'[oth] = proc[oth]
    BY DEF LockHeld, Ends
  <1>2. proc'[who].at = at /\ {"at", "plan", "signer"} \subseteq DOMAIN proc'[who] /\ DOMAIN proc' = Procs
    BY DEF LockHeld, Ends
  <1>3. /\ {"owner", "holder"} \subseteq DOMAIN budget'
        /\ budget'.owner = IF budget.owner = who THEN NoProc ELSE budget.owner
    BY DEF LockHeld, Ends
  <1> QED
    BY <1>1, <1>2, <1>3 DEF LockHeld

LEMMA AcquireKeeps == ASSUME LockHeld, NEW who \in Procs, Acquire(who) PROVE LockHeld'
  <1>1. CASE budget.owner = NoProc
    <2>1. \A oth \in Procs : proc[oth].at \notin Holding
      BY <1>1, SessionAssumption DEF LockHeld
    <2>2. budget' = [owner |-> who, holder |-> who] /\ \E at : Goes(who, at)
      BY <1>1 DEF Acquire, Guard
    <2>3. /\ \A oth \in Procs \ {who} : proc'[oth] = proc[oth]
          /\ {"at", "plan", "signer"} \subseteq DOMAIN proc'[who] /\ DOMAIN proc' = Procs
      BY <2>2 DEF LockHeld, Goes
    <2> QED
      BY <2>1, <2>2, <2>3 DEF LockHeld
  <1>2. CASE budget.owner # NoProc
    BY <1>2, GoesKeeps DEF Acquire, Holding
  <1> QED
    BY <1>1, <1>2

LEMMA StartKeeps ==
    ASSUME LockHeld, NEW who \in Procs,
           \/ Launched(who) \/ Acquire(who) \/ LoadWallet(who) \/ SpawnRecorder(who) \/ Schedule(who)
           \/ StopTasks(who) \/ JoinRecorder(who) \/ Dies(who) \/ Again(who)
    PROVE  LockHeld'
  <1>1. CASE Launched(who)
    BY <1>1 DEF Launched, LockHeld, Holding
  <1>2. CASE Acquire(who)
    BY <1>2, AcquireKeeps
  <1>3. CASE LoadWallet(who)
    <2>1. CASE Goes(who, "recorder") /\ UNCHANGED budget
      BY <1>3, <2>1, GoesKeeps DEF LoadWallet, Holding
    <2>2. CASE proc' = [proc EXCEPT ![who].at = "recorder", ![who].signer = TRUE] /\ UNCHANGED budget
      BY <1>3, <2>2 DEF LoadWallet, LockHeld, Holding
    <2>3. CASE Ends(who, "failed")
      BY <2>3, EndsKeeps DEF Holding
    <2> QED
      BY <1>3, <2>1, <2>2, <2>3 DEF LoadWallet
  <1>4. CASE SpawnRecorder(who) \/ Schedule(who) \/ StopTasks(who)
    <2>1. CASE Ends(who, "failed")
      BY <2>1, EndsKeeps DEF Holding
    <2>2. CASE \E at \in {"rent", "running", "stopping"} : Goes(who, at) /\ UNCHANGED budget
      BY <1>4, <2>2, GoesKeeps DEF SpawnRecorder, Schedule, StopTasks, Holding
    <2> QED
      BY <1>4, <2>1, <2>2 DEF SpawnRecorder, Schedule, StopTasks
  <1>5. CASE JoinRecorder(who) \/ Dies(who)
    BY <1>5, EndsKeeps DEF JoinRecorder, Dies, Holding
  <1>6. CASE Again(who)
    BY <1>6 DEF Again, LockHeld, Holding
  <1> QED
    BY <1>1, <1>2, <1>3, <1>4, <1>5, <1>6

\* budget::acquire and the guard that run and --research hold: through starts
\* that fail at any point, deaths and restarts of any number of processes, at
\* most one asks Jupiter.
THEOREM OneHasTheLock == StartSpec => []OneSpendsTheBudget
  <1>1. StartInit => LockHeld
    BY DEF StartInit, LockHeld, Holding
  <1>2. LockHeld /\ [StartStep]_startVars => LockHeld'
    <2>1. LockHeld /\ UNCHANGED startVars => LockHeld'
      BY DEF LockHeld, startVars
    <2> QED
      BY <2>1, StartKeeps DEF StartStep
  <1>3. LockHeld => OneSpendsTheBudget
    BY DEF LockHeld, OneSpendsTheBudget, Spends, Holding
  <1> QED
    BY <1>1, <1>2, <1>3, PTL DEF StartSpec

----------------------------------------------------------------------------
(* The tip floor keeps up *)

\* The requests of one round end within a period of the poll.
Paced == 2 * Timeout < Refresh

Polls == {NoPoll} \cup [step : {"floor", "accounts"}, asked : Int]
WalletPolls == {NoPoll} \cup [step : {"asked"}, asked : Int] \cup [step : {"read"}, asked : Int, read : Int]
Tips == [floor : Int, streamAt : Int, stream : {"up", "down"}, accounts : {"none", "good", "known"},
         seen : BOOLEAN, poll : Polls, missed : Nat, due : Int, adue : Int]
ViewTypeOK == time \in Nat /\ tip \in Tips /\ wal \in [ts : Int, read : Int, poll : WalletPolls, due : Int]

\* How late the task of the tips may be, by what it is doing.
IdleOnTime ==
    tip.poll.step = "idle" =>
        /\ time <= tip.due + Timeout /\ time <= tip.adue + Timeout
        /\ time <= tip.due \/ time < tip.adue
        /\ time <= tip.adue \/ time < tip.due
FloorOnTime ==
    tip.poll.step = "floor" =>
        /\ tip.poll.asked <= time /\ time <= tip.poll.asked + Timeout
        /\ tip.poll.asked <= tip.adue
        /\ tip.due - Refresh <= tip.poll.asked /\ tip.poll.asked <= tip.due - Refresh + Timeout
AccountsOnTime ==
    tip.poll.step = "accounts" =>
        /\ tip.poll.asked <= time /\ time <= tip.poll.asked + Timeout
        /\ tip.poll.asked <= tip.due
        /\ tip.poll.asked <= tip.adue - AccountsEvery + Timeout

\* How old the floor may be at the tick that is due next.
Behind == tip.missed * Refresh
FloorKnown ==
    LET last == IF tip.poll.step = "floor" THEN tip.due - 2 * Refresh ELSE tip.due - Refresh
    IN  last - Quiet - Timeout - Behind <= tip.floor
StreamKnown ==
    /\ tip.streamAt <= time
    /\ tip.streamAt = -Quiet \/ tip.streamAt - Timeout <= tip.floor
    /\ tip.due - Refresh <= time

OnTime == IdleOnTime /\ FloorOnTime /\ AccountsOnTime /\ FloorKnown /\ StreamKnown

WalletKnown ==
    /\ wal.ts <= wal.read
    /\ wal.poll.step \in {"asked", "read"} => wal.poll.asked <= time
    /\ wal.poll.step = "read" => wal.poll.asked <= wal.poll.read

KeepsUp == ViewTypeOK /\ OnTime /\ WalletKnown /\ (tip.seen => tip.accounts = "good")

LEMMA Periods ==
    /\ Quiet \in Nat /\ Refresh \in Nat /\ AccountsEvery \in Nat /\ Timeout \in Nat /\ Snapshots \in Nat
    /\ Timeout < Refresh /\ Refresh <= AccountsEvery
  BY SessionAssumption

LEMMA PollIs ==
    ASSUME NEW p \in Polls
    PROVE  /\ p = NoPoll <=> p.step = "idle"
           /\ p.step \in {"idle", "floor", "accounts"}
           /\ p.step # "idle" => p.asked \in Int
  BY DEF Polls, NoPoll

LEMMA WalletPollIs ==
    ASSUME NEW p \in WalletPolls
    PROVE  /\ p = NoPoll <=> p.step = "idle"
           /\ p.step \in {"idle", "asked", "read"}
           /\ p.step # "idle" => p.asked \in Int
           /\ p.step = "read" => p.read \in Int
  BY DEF WalletPolls, NoPoll

LEMMA TipIs ==
    ASSUME NEW t \in Tips
    PROVE  /\ t.floor \in Int /\ t.streamAt \in Int /\ t.missed \in Nat /\ t.due \in Int /\ t.adue \in Int
           /\ t.poll \in Polls /\ t.seen \in BOOLEAN /\ t.accounts \in {"none", "good", "known"}
           /\ t.missed * Refresh \in Nat /\ (t.missed + 1) * Refresh = t.missed * Refresh + Refresh
           /\ (1 + t.missed) * Refresh = t.missed * Refresh + Refresh
  BY Periods DEF Tips

LEMMA KeepsUpInit == ViewInit => KeepsUp
  <1> SUFFICES ASSUME ViewInit PROVE KeepsUp
    OBVIOUS
  <1>1. ViewTypeOK
    BY Periods DEF ViewInit, ViewTypeOK, Tips, Polls, WalletPolls
  <1>2. /\ time = 0 /\ tip.poll = NoPoll /\ wal.poll = NoPoll /\ wal.ts = -1 /\ wal.read = -1 /\ ~tip.seen
        /\ tip.due = 0 /\ tip.adue = 0 /\ tip.floor = -1 /\ tip.missed = 0 /\ tip.streamAt = -Quiet
    BY DEF ViewInit
  <1>3. tip.poll.step = "idle" /\ wal.poll.step = "idle"
    BY <1>2 DEF NoPoll
  <1>4. Behind = 0
    BY <1>2, Periods DEF Behind
  <1>5. OnTime
    BY <1>2, <1>3, <1>4, Periods DEF OnTime, IdleOnTime, FloorOnTime, AccountsOnTime, FloorKnown, StreamKnown
  <1> QED
    BY <1>1, <1>2, <1>3, <1>5 DEF KeepsUp, WalletKnown

\* Everything about the tips there is to know of a state.
LEMMA TipFacts ==
    ASSUME KeepsUp
    PROVE  /\ time \in Nat /\ tip \in Tips /\ tip.poll \in Polls
           /\ tip.floor \in Int /\ tip.streamAt \in Int /\ tip.missed \in Nat
           /\ tip.due \in Int /\ tip.adue \in Int /\ Behind \in Nat
           /\ tip.poll.step \in {"idle", "floor", "accounts"}
           /\ tip.poll.step # "idle" => tip.poll.asked \in Int
           /\ IdleOnTime /\ FloorOnTime /\ AccountsOnTime /\ FloorKnown /\ StreamKnown
           /\ tip.seen => tip.accounts = "good"
  BY TipIs, PollIs DEF KeepsUp, ViewTypeOK, OnTime, Behind

\* A step of the task of the tips leaves the wallet's alone, and the other way round.
LEMMA TipsOnly ==
    ASSUME KeepsUp, UNCHANGED <<time, wal>>, tip' \in Tips, OnTime', (tip.seen => tip.accounts = "good")'
    PROVE  KeepsUp'
  BY DEF KeepsUp, ViewTypeOK, WalletKnown

LEMMA WalletOnly ==
    ASSUME KeepsUp, UNCHANGED <<time, tip>>, WalletKnown',
           wal' \in [ts : Int, read : Int, poll : WalletPolls, due : Int]
    PROVE  KeepsUp'
  BY DEF KeepsUp, ViewTypeOK, OnTime, IdleOnTime, FloorOnTime, AccountsOnTime, FloorKnown, StreamKnown, Behind

LEMMA LaterKeeps == KeepsUp /\ Later => KeepsUp'
  <1> SUFFICES ASSUME KeepsUp, Later PROVE KeepsUp'
    OBVIOUS
  <1>1. time' = time + 1 /\ UNCHANGED <<tip, wal>> /\ Waits(tip.poll, tip.due) /\ Waits(tip.poll, tip.adue)
    BY DEF Later
  <1>2. /\ tip.poll.step = "idle" => time < tip.due /\ time < tip.adue
        /\ tip.poll.step # "idle" => time < tip.poll.asked + Timeout
    BY <1>1, TipFacts, PollIs, Periods DEF Waits
  <1>3. IdleOnTime' /\ FloorOnTime' /\ AccountsOnTime'
    BY <1>1, <1>2, TipFacts, Periods DEF IdleOnTime, FloorOnTime, AccountsOnTime
  <1>4. FloorKnown' /\ StreamKnown'
    BY <1>1, TipFacts, Periods DEF FloorKnown, StreamKnown, Behind
  <1>5. WalletKnown'
    <2>1. wal.poll \in WalletPolls
      BY DEF KeepsUp, ViewTypeOK
    <2>2. wal.poll.step # "idle" => wal.poll.asked \in Int
      BY <2>1, WalletPollIs
    <2> QED
      BY <1>1, <2>2, TipFacts DEF KeepsUp, WalletKnown
  <1>6. ViewTypeOK'
    BY <1>1 DEF KeepsUp, ViewTypeOK
  <1> QED
    BY <1>1, <1>3, <1>4, <1>5, <1>6 DEF KeepsUp, OnTime

\* Whatever a step does to the fields of the tips, this is all that counts.
LEMMA TipsRewritten ==
    ASSUME KeepsUp, UNCHANGED <<time, wal>>, tip' \in Tips,
           IdleOnTime', FloorOnTime', AccountsOnTime', FloorKnown', StreamKnown',
           (tip.seen => tip.accounts = "good")'
    PROVE  KeepsUp'
  BY TipsOnly DEF OnTime

LEMMA StreamKeeps == KeepsUp /\ (StreamMessage \/ StreamFails) => KeepsUp'
  <1> SUFFICES ASSUME KeepsUp, StreamMessage \/ StreamFails PROVE KeepsUp'
    OBVIOUS
  <1>0. UNCHANGED <<time, wal>>
    BY DEF StreamMessage, StreamFails
  <1>1. /\ tip' \in Tips /\ UNCHANGED <<tip.poll, tip.due, tip.adue, tip.seen, tip.accounts>>
        /\ \/ UNCHANGED <<tip.streamAt, tip.floor, tip.missed>>
           \/ tip'.streamAt = time /\ tip'.floor = time /\ tip'.missed = 0
    <2>1. CASE tip' = [tip EXCEPT !.streamAt = time, !.floor = time, !.missed = 0]
      <3>1. time \in Int /\ 0 \in Nat /\ tip \in Tips
        BY TipFacts
      <3>2. tip' \in Tips
        BY <2>1, <3>1 DEF Tips
      <3> QED
        BY <2>1, <3>1, <3>2 DEF Tips
    <2>2. CASE tip' = [tip EXCEPT !.streamAt = tip.streamAt, !.floor = tip.floor, !.missed = tip.missed]
      BY <2>2, TipFacts DEF Tips
    <2>3. CASE tip' = [tip EXCEPT !.stream = "down"]
      BY <2>3, TipFacts DEF Tips
    <2> QED
      BY <2>1, <2>2, <2>3, TipFacts DEF StreamMessage, StreamFails, Heard, Tips
  <1>2. Behind' \in Nat /\ Behind' <= Behind
    BY <1>1, TipFacts, TipIs, Periods DEF Behind
  <1>3. IdleOnTime' /\ FloorOnTime' /\ AccountsOnTime'
    BY <1>0, <1>1, TipFacts DEF IdleOnTime, FloorOnTime, AccountsOnTime
  <1>4. FloorKnown'
    <2>1. tip'.floor = time \/ (tip'.floor = tip.floor /\ Behind' = Behind)
      BY <1>1 DEF Behind
    <2>2. tip'.poll = tip.poll /\ tip'.due = tip.due
      BY <1>1
    <2> QED
      BY <1>0, <1>2, <2>1, <2>2, TipFacts, Periods DEF FloorKnown, StreamKnown
  <1>5. StreamKnown'
    BY <1>0, <1>1, TipFacts, Periods DEF StreamKnown
  <1> QED
    BY <1>0, <1>1, <1>3, <1>4, <1>5, TipFacts, TipsRewritten

LEMMA FloorTickKeeps == Paced /\ KeepsUp /\ FloorTick => KeepsUp'
  <1> SUFFICES ASSUME Paced, KeepsUp, FloorTick PROVE KeepsUp'
    OBVIOUS
  <1>0. /\ UNCHANGED <<time, wal>> /\ tip.poll.step = "idle" /\ time >= tip.due
    BY TipFacts, PollIs DEF FloorTick
  <1>1. /\ tip' \in Tips /\ tip'.due = tip.due + Refresh
        /\ UNCHANGED <<tip.adue, tip.seen, tip.accounts, tip.streamAt, tip.floor, tip.missed>>
        /\ \/ time - tip.streamAt < Quiet /\ tip'.poll = NoPoll
           \/ tip'.poll = [step |-> "floor", asked |-> time]
    <2>1. NoPoll \in Polls /\ [step |-> "floor", asked |-> time] \in Polls /\ tip.due + Refresh \in Int
      BY TipFacts, Periods DEF Polls
    <2> QED
      BY <2>1, TipFacts DEF FloorTick, Tips
  <1>2. Behind' = Behind
    BY <1>1 DEF Behind
  <1>3. StreamKnown'
    BY <1>0, <1>1, TipFacts, Periods DEF StreamKnown
  <1>4. CASE time - tip.streamAt < Quiet /\ tip'.poll = NoPoll
    <2>1. tip'.poll.step = "idle"
      BY <1>4 DEF NoPoll
    <2>2. IdleOnTime' /\ FloorOnTime' /\ AccountsOnTime'
      BY <1>0, <1>1, <2>1, TipFacts, Periods DEF IdleOnTime, FloorOnTime, AccountsOnTime, Paced
    <2>3. FloorKnown'
      BY <1>0, <1>1, <1>2, <1>4, <2>1, TipFacts, Periods DEF FloorKnown, StreamKnown
    <2> QED
      BY <1>0, <1>1, <1>3, <2>2, <2>3, TipFacts, TipsRewritten
  <1>5. CASE tip'.poll = [step |-> "floor", asked |-> time]
    <2>1. tip'.poll.step = "floor" /\ tip'.poll.asked = time
      BY <1>5
    <2>2. IdleOnTime' /\ FloorOnTime' /\ AccountsOnTime'
      BY <1>0, <1>1, <2>1, TipFacts, Periods DEF IdleOnTime, FloorOnTime, AccountsOnTime
    <2>3. FloorKnown'
      BY <1>0, <1>1, <1>2, <2>1, TipFacts, Periods DEF FloorKnown
    <2> QED
      BY <1>0, <1>1, <1>3, <2>2, <2>3, TipFacts, TipsRewritten
  <1> QED
    BY <1>1, <1>4, <1>5

LEMMA FloorAnswerKeeps == Paced /\ KeepsUp /\ FloorAnswer => KeepsUp'
  <1> SUFFICES ASSUME Paced, KeepsUp, FloorAnswer PROVE KeepsUp'
    OBVIOUS
  <1>0. UNCHANGED <<time, wal>> /\ tip.poll.step = "floor" /\ tip.poll.asked \in Int
    BY TipFacts DEF FloorAnswer
  <1>1. /\ tip' \in Tips /\ tip'.poll = NoPoll
        /\ UNCHANGED <<tip.due, tip.adue, tip.seen, tip.accounts, tip.streamAt>>
        /\ \/ tip'.floor = tip.poll.asked /\ tip'.missed = 0
           \/ tip'.floor = tip.floor /\ tip'.missed = tip.missed + 1
    <2>1. NoPoll \in Polls /\ tip.missed + 1 \in Nat
      BY TipFacts DEF Polls
    <2>2. CASE tip' = [tip EXCEPT !.poll = NoPoll, !.floor = tip.poll.asked, !.missed = 0]
      BY <1>0, <2>1, <2>2, TipFacts DEF Tips
    <2>3. CASE tip' = [tip EXCEPT !.poll = NoPoll, !.missed = @ + 1]
      BY <2>1, <2>3, TipFacts DEF Tips
    <2> QED
      BY <2>2, <2>3 DEF FloorAnswer
  <1>2. tip'.poll.step = "idle"
    BY <1>1 DEF NoPoll
  <1>3. IdleOnTime' /\ FloorOnTime' /\ AccountsOnTime'
    BY <1>0, <1>1, <1>2, TipFacts, Periods DEF IdleOnTime, FloorOnTime, AccountsOnTime, Paced
  <1>4. FloorKnown' /\ StreamKnown'
    <2>1. CASE tip'.floor = tip.poll.asked /\ tip'.missed = 0
      <3>1. Behind' = 0
        BY <2>1, Periods DEF Behind
      <3> QED
        BY <1>0, <1>1, <1>2, <2>1, <3>1, TipFacts, Periods DEF FloorKnown, StreamKnown, FloorOnTime
    <2>2. CASE tip'.floor = tip.floor /\ tip'.missed = tip.missed + 1
      <3>1. Behind' = Behind + Refresh
        BY <2>2, TipFacts, TipIs DEF Behind
      <3> QED
        BY <1>0, <1>1, <1>2, <2>2, <3>1, TipFacts, Periods DEF FloorKnown, StreamKnown
    <2> QED
      BY <1>1, <2>1, <2>2
  <1> QED
    BY <1>0, <1>1, <1>3, <1>4, TipFacts, TipsRewritten

LEMMA AccountsKeeps == Paced /\ KeepsUp /\ (AccountsTick \/ AccountsAnswer) => KeepsUp'
  <1> SUFFICES ASSUME Paced, KeepsUp, AccountsTick \/ AccountsAnswer PROVE KeepsUp'
    OBVIOUS
  <1>1. CASE AccountsTick
    <2>0. UNCHANGED <<time, wal>> /\ tip.poll.step = "idle" /\ time >= tip.adue
      BY <1>1, TipFacts, PollIs DEF AccountsTick
    <2>1. /\ tip' \in Tips /\ tip'.adue = tip.adue + AccountsEvery
          /\ tip'.poll = [step |-> "accounts", asked |-> time]
          /\ UNCHANGED <<tip.due, tip.seen, tip.accounts, tip.streamAt, tip.floor, tip.missed>>
      <3>1. [step |-> "accounts", asked |-> time] \in Polls /\ tip.adue + AccountsEvery \in Int
        BY TipFacts, Periods DEF Polls
      <3> QED
        BY <1>1, <3>1, TipFacts DEF AccountsTick, Tips
    <2>2. tip'.poll.step = "accounts" /\ tip'.poll.asked = time
      BY <2>1
    <2>3. IdleOnTime' /\ FloorOnTime' /\ AccountsOnTime'
      BY <2>0, <2>1, <2>2, TipFacts, Periods DEF IdleOnTime, FloorOnTime, AccountsOnTime
    <2>4. FloorKnown' /\ StreamKnown'
      BY <2>0, <2>1, <2>2, TipFacts, Periods DEF FloorKnown, StreamKnown, Behind
    <2> QED
      BY <2>0, <2>1, <2>3, <2>4, TipFacts, TipsRewritten
  <1>2. CASE AccountsAnswer
    <2>0. UNCHANGED <<time, wal>> /\ tip.poll.step = "accounts"
      BY <1>2 DEF AccountsAnswer
    <2>1. /\ tip' \in Tips /\ tip'.poll = NoPoll
          /\ UNCHANGED <<tip.due, tip.adue, tip.streamAt, tip.floor, tip.missed>>
          /\ tip'.seen => tip'.accounts = "good"
      <3>1. NoPoll \in Polls
        BY DEF Polls
      <3> QED
        BY <1>2, <3>1, TipFacts DEF AccountsAnswer, Tips, Kept
    <2>2. tip'.poll.step = "idle"
      BY <2>1 DEF NoPoll
    <2>3. IdleOnTime' /\ FloorOnTime' /\ AccountsOnTime'
      BY <2>0, <2>1, <2>2, TipFacts, Periods DEF IdleOnTime, FloorOnTime, AccountsOnTime, Paced
    <2>4. FloorKnown' /\ StreamKnown'
      BY <2>0, <2>1, <2>2, TipFacts, Periods DEF FloorKnown, StreamKnown, Behind
    <2> QED
      BY <2>0, <2>1, <2>3, <2>4, TipsRewritten
  <1> QED
    BY <1>1, <1>2

LEMMA SnapshotKeeps == KeepsUp /\ (SnapshotTick \/ NodeReads \/ SnapshotAnswer) => KeepsUp'
  <1> SUFFICES ASSUME KeepsUp, SnapshotTick \/ NodeReads \/ SnapshotAnswer PROVE KeepsUp'
    OBVIOUS
  <1> DEFINE Wallets == [ts : Int, read : Int, poll : WalletPolls, due : Int]
  <1>1. wal \in Wallets /\ wal.poll \in WalletPolls /\ wal.ts \in Int /\ wal.read \in Int /\ wal.due \in Int
        /\ time \in Nat /\ WalletKnown
    BY DEF KeepsUp, ViewTypeOK
  <1>2. UNCHANGED <<time, tip>>
    BY DEF SnapshotTick, NodeReads, SnapshotAnswer
  <1>3. wal.poll.step # "idle" => wal.poll.asked \in Int
    BY <1>1, WalletPollIs
  <1>4. CASE SnapshotTick
    <2>1. [step |-> "asked", asked |-> time] \in WalletPolls /\ wal.due + Snapshots \in Int
      BY <1>1, Periods DEF WalletPolls
    <2>2. /\ wal' = [wal EXCEPT !.due = wal.due + Snapshots, !.poll = [step |-> "asked", asked |-> time]]
      BY <1>1, <1>4 DEF SnapshotTick
    <2>3. wal' \in Wallets /\ wal'.poll = [step |-> "asked", asked |-> time] /\ UNCHANGED <<wal.ts, wal.read>>
      BY <1>1, <2>1, <2>2
    <2>4. WalletKnown'
      BY <1>1, <1>2, <2>3 DEF WalletKnown
    <2> QED
      BY <1>2, <2>3, <2>4, WalletOnly
  <1>5. CASE NodeReads
    <2> DEFINE p == [step |-> "read", asked |-> wal.poll.asked, read |-> time]
    <2>1. wal' = [wal EXCEPT !.poll = p] /\ wal.poll.step = "asked"
      BY <1>5 DEF NodeReads
    <2>2. p \in WalletPolls
      BY <1>1, <1>3, <2>1 DEF WalletPolls
    <2>3. p.step = "read" /\ p.asked = wal.poll.asked /\ p.read = time
      OBVIOUS
    <2> HIDE DEF p
    <2>4. wal' \in Wallets /\ wal'.poll = p /\ UNCHANGED <<wal.ts, wal.read>>
      BY <1>1, <2>1, <2>2
    <2>5. WalletKnown'
      BY <1>1, <1>2, <2>1, <2>3, <2>4 DEF WalletKnown
    <2> QED
      BY <1>2, <2>4, <2>5, WalletOnly
  <1>6. CASE SnapshotAnswer
    <2>1. wal.poll.step = "read" /\ wal.poll.asked \in Int /\ wal.poll.read \in Int /\ NoPoll \in WalletPolls
          /\ wal.poll.asked <= wal.poll.read
      BY <1>1, <1>6, WalletPollIs DEF SnapshotAnswer, WalletPolls, WalletKnown
    <2>2. /\ wal' \in Wallets /\ wal'.poll = NoPoll
          /\ \/ UNCHANGED <<wal.ts, wal.read>>
             \/ wal'.ts = wal.poll.asked /\ wal'.read = wal.poll.read
      BY <1>1, <1>6, <2>1 DEF SnapshotAnswer, WalletStamp
    <2>3. WalletKnown'
      BY <1>1, <2>1, <2>2 DEF WalletKnown, NoPoll
    <2> QED
      BY <1>2, <2>2, <2>3, WalletOnly
  <1> QED
    BY <1>4, <1>5, <1>6

LEMMA KeepsUpStep == Paced /\ KeepsUp /\ [ViewStep]_viewVars => KeepsUp'
  <1>1. KeepsUp /\ UNCHANGED viewVars => KeepsUp'
    BY DEF KeepsUp, ViewTypeOK, OnTime, IdleOnTime, FloorOnTime, AccountsOnTime, FloorKnown, StreamKnown,
           WalletKnown, Behind, viewVars
  <1> QED
    BY <1>1, LaterKeeps, StreamKeeps, FloorTickKeeps, FloorAnswerKeeps, AccountsKeeps, SnapshotKeeps DEF ViewStep

\* The tasks of start_with: whatever the tip stream sends and however the
\* requests end, the floor is never older than the stream's silence, a period
\* for each request that failed and one more, and three requests' time; a good
\* list of tip accounts is kept; and the wallet is never taken for younger than
\* it was read.
THEOREM ViewKeepsUp ==
    ASSUME Paced PROVE ViewSpec => []ViewIsFresh
  <1>1. KeepsUp /\ [ViewStep]_viewVars => KeepsUp'
    BY KeepsUpStep
  <1>2. KeepsUp => ViewIsFresh
    <2> SUFFICES ASSUME KeepsUp PROVE ViewIsFresh
      OBVIOUS
    <2>1. (1 + tip.missed) * Refresh = Behind + Refresh
      BY TipFacts, TipIs DEF Behind
    <2>2. CASE tip.poll.step = "floor"
      BY <2>1, <2>2, TipFacts, Periods
         DEF KeepsUp, FloorOnTime, FloorKnown, ViewIsFresh, TipsKeepUp, WalletIsNoYounger, WalletKnown
    <2>3. CASE tip.poll.step # "floor"
      <3>1. time <= tip.due + Timeout
        BY <2>3, TipFacts, Periods DEF IdleOnTime, AccountsOnTime
      <3> QED
        BY <2>1, <2>3, <3>1, TipFacts, Periods
           DEF KeepsUp, FloorKnown, ViewIsFresh, TipsKeepUp, WalletIsNoYounger, WalletKnown
    <2> QED
      BY <2>2, <2>3
  <1> QED
    BY KeepsUpInit, <1>1, <1>2, PTL DEF ViewSpec

----------------------------------------------------------------------------
(* A canary reports what landed *)

TradeStates == [chain : {"flying", "landed", "dropped"}, known : {"sent", "landed", "failed", "expired"}]
Known == {"sent", "landed", "failed", "expired"}

\* The view model says what the pipeline knows, or knew; the pipeline says
\* landed of what is on the chain.
Told ==
    /\ trades \in Seq(TradeStates) /\ shown \in Seq(Known) /\ Len(shown) = Len(trades)
    /\ \A i \in DOMAIN trades :
          /\ trades[i].known = "landed" => trades[i].chain = "landed"
          /\ shown[i] \in {"sent", trades[i].known}
    /\ canary.of # 0 => canary.of \in DOMAIN trades /\ trades[canary.of].chain = "landed"
    /\ canary.how = "tick" /\ canary.of = 0 => \E i \in DOMAIN trades : trades[i].known = "failed"

LEMMA ToldLengths ==
    ASSUME Told
    PROVE  DOMAIN trades = 1..Len(trades) /\ DOMAIN shown = DOMAIN trades /\ Len(trades) \in Nat
  BY DEF Told

LEMMA SendsTells == Told /\ CanarySends => Told'
  <1> SUFFICES ASSUME Told, CanarySends PROVE Told'
    OBVIOUS
  <1> DEFINE new == [chain |-> "flying", known |-> "sent"]
  <1>1. trades' = Append(trades, new) /\ shown' = Append(shown, "sent") /\ UNCHANGED canary
    BY DEF CanarySends
  <1>2. new \in TradeStates /\ "sent" \in Known /\ new.known = "sent"
    BY DEF TradeStates, Known
  <1> HIDE DEF new
  <1>3. /\ trades' \in Seq(TradeStates) /\ shown' \in Seq(Known) /\ Len(shown') = Len(trades')
        /\ Len(trades') = Len(trades) + 1 /\ DOMAIN trades' = 1..(Len(trades) + 1)
    BY <1>1, <1>2 DEF Told
  <1>4. \A i \in DOMAIN trades : trades'[i] = trades[i] /\ shown'[i] = shown[i] /\ i \in DOMAIN trades'
    BY <1>1, <1>2, <1>3, ToldLengths DEF Told
  <1>5. /\ trades'[Len(trades) + 1] = new /\ shown'[Len(trades) + 1] = "sent"
    BY <1>1, <1>2, <1>3 DEF Told
  <1>6. DOMAIN trades' = DOMAIN trades \cup {Len(trades) + 1}
    BY <1>3, ToldLengths
  <1> QED
    BY <1>1, <1>2, <1>3, <1>4, <1>5, <1>6 DEF Told

\* One trade goes on: the rest stay as they are.
LEMMA OneTold ==
    ASSUME Told, NEW i \in DOMAIN trades, NEW t \in TradeStates, trades' = [trades EXCEPT ![i] = t],
           \/ UNCHANGED shown
           \/ shown' = [shown EXCEPT ![i] = t.known],
           t.known = "landed" => t.chain = "landed",
           trades[i].chain = "landed" => t.chain = "landed",
           trades[i].known # "sent" => t.known = trades[i].known,
           UNCHANGED canary
    PROVE  Told'
  <1>1. /\ trades' \in Seq(TradeStates) /\ Len(trades') = Len(trades) /\ trades'[i] = t
        /\ \A j \in DOMAIN trades \ {i} : trades'[j] = trades[j]
    BY DEF Told
  <1>2. t.known \in Known
    BY DEF TradeStates, Known
  <1>3. /\ shown' \in Seq(Known) /\ Len(shown') = Len(shown)
        /\ \A j \in DOMAIN trades \ {i} : shown'[j] = shown[j]
        /\ shown'[i] \in {shown[i], t.known}
    <2>1. shown \in Seq(Known) /\ i \in 1..Len(shown)
      BY ToldLengths DEF Told
    <2>2. \A j \in DOMAIN trades : j \in DOMAIN shown
      BY ToldLengths
    <2>3. CASE shown' = [shown EXCEPT ![i] = t.known]
      BY <1>2, <2>1, <2>2, <2>3
    <2> QED
      BY <2>1, <2>3
  <1>4. DOMAIN trades' = DOMAIN trades
    BY <1>1, ToldLengths
  <1>5. shown'[i] \in {"sent", trades'[i].known}
    BY <1>1, <1>3 DEF Told
  <1> QED
    BY <1>1, <1>3, <1>4, <1>5 DEF Told

LEMMA TradeIs ==
    ASSUME NEW t \in TradeStates
    PROVE  /\ \A to \in {"landed", "dropped"} :
                LET new == [t EXCEPT !.chain = to]
                IN  new \in TradeStates /\ new.chain = to /\ new.known = t.known
           /\ \A says \in Known :
                LET new == [t EXCEPT !.known = says]
                IN  new \in TradeStates /\ new.known = says /\ new.chain = t.chain
  BY DEF TradeStates, Known

LEMMA ToldStep == Told /\ [CanaryStep]_canaryVars => Told'
  <1> SUFFICES ASSUME Told, [CanaryStep]_canaryVars PROVE Told'
    OBVIOUS
  <1>1. CASE UNCHANGED canaryVars
    BY <1>1 DEF Told, canaryVars
  <1>2. CASE CanarySends
    BY <1>2, SendsTells
  <1>3. CASE CanarySettles
    <2>1. PICK i \in DOMAIN trades, to \in {"landed", "dropped"} :
             trades[i].chain = "flying" /\ trades' = [trades EXCEPT ![i].chain = to]
      BY <1>3 DEF CanarySettles
    <2> DEFINE t == [trades[i] EXCEPT !.chain = to]
    <2>2. t \in TradeStates /\ t.known = trades[i].known /\ trades[i].known # "landed"
      <3>1. trades[i] \in TradeStates /\ (trades[i].known = "landed" => trades[i].chain = "landed")
        BY <2>1 DEF Told
      <3> QED
        BY <2>1, <3>1, TradeIs
    <2>3. trades' = [trades EXCEPT ![i] = t] /\ UNCHANGED <<shown, canary>>
      BY <1>3, <2>1 DEF CanarySettles
    <2> HIDE DEF t
    <2> QED
      BY <2>1, <2>2, <2>3, OneTold
  <1>4. CASE CanaryLearns \/ CanaryExpires
    <2>1. PICK i \in DOMAIN trades, says \in {"landed", "failed", "expired"} :
             /\ trades[i].known = "sent" /\ says = "landed" => trades[i].chain = "landed"
             /\ trades[i].known = "sent" /\ trades' = [trades EXCEPT ![i].known = says]
             /\ shown' \in {shown, [shown EXCEPT ![i] = says]} /\ UNCHANGED canary
      <3>1. CASE CanaryLearns
        <4>1. PICK i \in DOMAIN trades :
                 /\ trades[i].known = "sent" /\ trades[i].chain # "flying"
                 /\ LET says == IF trades[i].chain = "landed" THEN "landed" ELSE "failed"
                    IN  trades' = [trades EXCEPT ![i].known = says] /\ shown' \in {shown, [shown EXCEPT ![i] = says]}
          BY <3>1 DEF CanaryLearns
        <4>2. UNCHANGED canary
          BY <3>1 DEF CanaryLearns
        <4> QED
          BY <4>1, <4>2
      <3>2. CASE CanaryExpires
        BY <3>2 DEF CanaryExpires
      <3> QED
        BY <1>4, <3>1, <3>2
    <2> DEFINE t == [trades[i] EXCEPT !.known = says]
    <2>2. t \in TradeStates /\ t.known = says /\ t.chain = trades[i].chain
      <3>1. trades[i] \in TradeStates /\ says \in Known
        BY <2>1 DEF Told, Known
      <3> QED
        BY <3>1, TradeIs
    <2>3. trades' = [trades EXCEPT ![i] = t]
      BY <2>1
    <2>4. /\ UNCHANGED shown \/ shown' = [shown EXCEPT ![i] = t.known]
          /\ UNCHANGED canary
          /\ t.known = "landed" => t.chain = "landed"
          /\ trades[i].chain = "landed" => t.chain = "landed"
          /\ trades[i].known # "sent" => t.known = trades[i].known
      BY <2>1, <2>2
    <2> HIDE DEF t
    <2> QED
      BY <2>2, <2>3, <2>4, OneTold
  <1>5. ASSUME NEW how \in {"tick", "left"}, CanaryOver(how) PROVE Told'
    <2>1. UNCHANGED <<trades, shown>>
      BY <1>5 DEF CanaryOver
    <2>2. CASE CanaryLanded = {} /\ canary' = [how |-> how, of |-> 0]
      <3>1. how = "tick" => \E i \in DOMAIN trades : trades[i].known = "failed"
        BY <1>5, <2>2, ToldLengths DEF CanaryOver, CanaryLanded, Told
      <3> QED
        BY <2>1, <2>2, <3>1 DEF Told
    <2>3. CASE \E i \in CanaryLanded : canary' = [how |-> how, of |-> i]
      <3>1. PICK i \in CanaryLanded : canary' = [how |-> how, of |-> i]
        BY <2>3
      <3>2. i \in DOMAIN trades /\ trades[i].chain = "landed" /\ i # 0
        BY ToldLengths DEF CanaryLanded, Told
      <3> QED
        BY <2>1, <3>1, <3>2 DEF Told
    <2> QED
      BY <1>5, <2>2, <2>3 DEF CanaryOver
  <1> QED
    BY <1>1, <1>2, <1>3, <1>4, <1>5 DEF CanaryStep

\* run and canary_landed: the trade a canary reconciles landed on the chain,
\* though the view model hears late of trades or never, and when a landed or
\* failed trade ended the session without one to reconcile, one failed.
THEOREM CanaryTellsWhatLanded == CanarySpec => []CanaryReportIsTrue
  <1>1. CanaryInit => Told
    BY DEF CanaryInit, Told
  <1>2. Told => CanaryReportIsTrue
    BY DEF Told, CanaryReportIsTrue
  <1> QED
    BY <1>1, ToldStep, <1>2, PTL DEF CanarySpec
=============================================================================
