-------------------------------- MODULE Desk --------------------------------
(***************************************************************************)
(* The bots of one wallet and the page that manages them: lab/desk.rs, the *)
(* outside of `--trade` in lab/mod.rs (its lock, its file of who holds it, *)
(* the wishes left for it) and the Bots page's actions (tui/bots.rs and    *)
(* tui/app.rs).  A bot is a run of a rules file; a changed file is another *)
(* run.  It trades in a program of its own, started from the page or by    *)
(* hand, which holds trade.lock.  All runs share one wallet.               *)
(*                                                                         *)
(* Inside a pass the program is module Trader.  Here a swap is one step,   *)
(* save a purchase that is left open; a run's state is what is in the      *)
(* database, as the program writes it before and after every swap.  USD    *)
(* and SOL are integers worth the same; nothing else moves the wallet.     *)
(***************************************************************************)
EXTENDS Integers, FiniteSets, FiniteSetsExt

CONSTANTS Runs,        \* what a rules file can say: each content is a run
          Files,       \* names of rules files
          NoRun, NoFile,
          Stakes,      \* budgets the page accepts: MIN_BUDGET_USD..MAX_BUDGET_USD
          FileBudget,  \* [live] budget_usd
          InitSol, InitUsdc, \* the wallet before the first run
          Keep,        \* fee_reserve + FUND_HEADROOM
          LeavesOpen,  \* bound: whether a program may stop with a swap open
          MaxPids,     \* bound: programs started
          MaxAsks,     \* bound: wishes and signals of the operator
          MaxEdits     \* bound: rules files made or edited

ASSUME DeskAssumption ==
    /\ FileBudget \in Stakes /\ Stakes \subseteq Nat \ {0}
    /\ InitSol \in Nat /\ InitUsdc \in Nat /\ Keep \in Nat
    /\ LeavesOpen \in BOOLEAN /\ NoRun \notin Runs /\ NoFile \notin Files
    /\ IsFiniteSet(Runs) /\ MaxPids \in Nat

VARIABLES
    file,     \* the run each rules file holds
    path,     \* {run}.path: the file a run was last started from
    rec,      \* the state of every run in research.sqlite
    recorded, \* runs begun in research.sqlite
    wish,     \* {run}.budget: the wish left, 0 for none
    actsWish, \* {run}.acts: the wish left
    lock,     \* the program that holds trade.lock, 0 for none
    holder,   \* trade.holder: pid and run
    proc,     \* the programs
    wallet,   \* what the chain says the wallet holds
    air,      \* purchases that may still land, by run
    asks, edits, \* counters for the bounds
    told      \* history: programs the page said it was stopping

disk == <<file, path, rec, recorded, wish, actsWish, holder>>
counts == <<asks, edits, told>>
deskVars == <<disk, lock, proc, wallet, air, counts>>

----------------------------------------------------------------------------
Pids == 1..MaxPids
NoOpen == [open |-> FALSE, sol |-> 0, usdc |-> 0]

\* State::default(), the parts the other runs and the page can see.
NewRec == [funded |-> FALSE, ended |-> FALSE, cash |-> 0, sol |-> 0,
           budget |-> FileBudget, mode |-> "close", pending |-> NoOpen]

NotBegun == [pc |-> "off", file |-> NoFile, run |-> NoRun, close |-> FALSE,
             others |-> 0, tried |-> 0, to |-> 0, first |-> FALSE, stop |-> FALSE]

Alive(p) == proc[p].pc \notin {"off", "gone"}

\* Where the program trades its run: the lock is its and says so.
Trading == {"open", "close", "count", "setup", "rebudget", "fund", "loop"}

\* running: whether the lock is held, and the run its file names.
HeldBy == IF lock = 0 THEN NoRun ELSE holder.run

\* file_of: the file it was last started from if that still holds it, else any.
FilesOf(r) == IF path[r] # NoFile /\ file[path[r]] = r THEN {path[r]}
              ELSE {f \in Files : file[f] = r}

\* Desk::read: every recorded run and every rules file that has not run yet.
View ==
    [r \in {q \in Runs : q \in recorded \/ \E f \in Files : file[f] = q} |->
        [state |-> CASE r \in recorded /\ rec[r].ended -> "Ended"
                     [] r \in recorded /\ ~rec[r].ended /\ HeldBy = r -> "Running"
                     [] OTHER -> "Stopped",
         file |-> FilesOf(r) # {}]]

DeskInit ==
    /\ file \in [Files -> Runs \cup {NoRun}]
    /\ path = [r \in Runs |-> NoFile] /\ rec = [r \in Runs |-> NewRec]
    /\ recorded = {} /\ wish = [r \in Runs |-> 0] /\ actsWish = [r \in Runs |-> "none"]
    /\ lock = 0 /\ holder = [pid |-> 0, run |-> NoRun]
    /\ proc = [p \in Pids |-> NotBegun]
    /\ wallet = [sol |-> InitSol, usdc |-> InitUsdc] /\ air = [r \in Runs |-> 0]
    /\ asks = 0 /\ edits = 0 /\ told = {}

----------------------------------------------------------------------------
(* Desk::act.  What the page shows may be older than what is there (module
   Screen), so any action may be asked of any run; it is checked again here. *)

\* A process gone leaves its lock; what it wrote stays.
Gone(p) == /\ proc' = [proc EXCEPT ![p] = [NotBegun EXCEPT !.pc = "gone"]]
           /\ lock' = IF lock = p THEN 0 ELSE lock

\* SIGINT: it ends a program that has not asked for it, and one that waits for
\* it.  Between the countdown and the first turn of the loop nobody waits
\* (ctrl_c() listens from its first poll on): the signal is lost.
Interrupt(p) ==
    CASE proc[p].pc \in {"load", "lock", "hold", "open", "close", "count"} -> Gone(p)
      [] proc[p].pc \in {"setup", "rebudget", "fund"} /\ proc[p].first -> UNCHANGED <<proc, lock>>
      [] OTHER -> proc' = [proc EXCEPT ![p].stop = TRUE] /\ UNCHANGED lock

StopRun(r) ==
    /\ HeldBy = r /\ Alive(holder.pid) /\ asks < MaxAsks /\ (LeavesOpen \/ ~rec[r].pending.open)
    /\ Interrupt(holder.pid) /\ told' = told \cup {holder.pid} /\ asks' = asks + 1
    /\ UNCHANGED <<disk, wallet, air, edits>>

Budget(r, to) ==
    /\ asks < MaxAsks /\ asks' = asks + 1 /\ wish' = [wish EXCEPT ![r] = to]
    /\ UNCHANGED <<file, path, rec, recorded, actsWish, holder, lock, proc, wallet, air, edits, told>>

Flip(mode) == IF mode = "price" THEN "close" ELSE "price"

\* The other way from the one it acts in, or was last asked to; asked back
\* before it had changed, nothing is left to do.
Mode(r) ==
    LET now == IF actsWish[r] # "none" THEN actsWish[r] ELSE rec[r].mode
        to == Flip(now)
    IN /\ ~rec[r].ended /\ (r \in recorded \/ FilesOf(r) # {})
       /\ asks < MaxAsks /\ asks' = asks + 1
       /\ actsWish' = [actsWish EXCEPT ![r] = IF to = rec[r].mode THEN "none" ELSE to]
       /\ UNCHANGED <<file, path, rec, recorded, wish, holder, lock, proc, wallet, air, edits, told>>

\* spawn: `--trade FILE [--close]`, a program of its own.
Spawn(f, close) ==
    LET p == Min({q \in Pids : proc[q].pc = "off"}) IN
    /\ \E q \in Pids : proc[q].pc = "off"
    /\ proc' = [proc EXCEPT ![p] = [NotBegun EXCEPT !.pc = "load", !.file = f, !.close = close]]
    /\ UNCHANGED <<disk, lock, wallet, air, counts>>

StartOrClose(r, close) == lock = 0 /\ \E f \in FilesOf(r) : Spawn(f, close)

\* Desk::create: only one that is no bot there is, under a name that is free.
Create(f, r) ==
    /\ file[f] = NoRun /\ r \notin DOMAIN View /\ edits < MaxEdits
    /\ file' = [file EXCEPT ![f] = r] /\ edits' = edits + 1
    /\ UNCHANGED <<path, rec, recorded, wish, actsWish, holder, lock, proc, wallet, air, asks, told>>

\* An editor: a changed file is another run.
Edit(f, r) ==
    /\ edits < MaxEdits /\ r # file[f] /\ file' = [file EXCEPT ![f] = r] /\ edits' = edits + 1
    /\ UNCHANGED <<path, rec, recorded, wish, actsWish, holder, lock, proc, wallet, air, asks, told>>

\* `--trade FILE` typed in a window of its own.
ByHand(f, close) == file[f] # NoRun /\ Spawn(f, close)

----------------------------------------------------------------------------
(* The program *)

Goto(p, at) == proc' = [proc EXCEPT ![p].pc = at]
Exit(p) == Gone(p) /\ UNCHANGED <<disk, wallet, air>>

\* load: the run is what the file holds now.
Load(p) ==
    /\ proc[p].pc = "load"
    /\ IF file[proc[p].file] = NoRun THEN Exit(p)
       ELSE /\ proc' = [proc EXCEPT ![p].pc = "lock", ![p].run = file[proc[p].file]]
            /\ UNCHANGED <<disk, lock, wallet, air>>

\* Mutant of TakeLock: who it is is written down before the lock is taken.
TakeLockSaid(p) ==
    /\ proc[p].pc = "lock" /\ holder' = [pid |-> p, run |-> proc[p].run]
    /\ IF lock # 0 THEN Gone(p) ELSE lock' = p /\ Goto(p, "hold")
    /\ UNCHANGED <<file, path, rec, recorded, wish, actsWish, wallet, air>>

\* The tries outlast the instant for which the page holds the lock to look.
TakeLock(p) ==
    /\ proc[p].pc = "lock"
    /\ IF lock # 0 THEN Exit(p)
       ELSE lock' = p /\ Goto(p, "hold") /\ UNCHANGED <<disk, wallet, air>>

Hold(p) ==
    /\ proc[p].pc = "hold" /\ Goto(p, "open")
    /\ holder' = [pid |-> p, run |-> proc[p].run]
    /\ path' = [path EXCEPT ![proc[p].run] = proc[p].file]
    /\ UNCHANGED <<file, rec, recorded, wish, actsWish, lock, wallet, air>>

\* Mutant of HeldByOthers: the other runs are forgotten.
HeldByNobody(r) == 0

\* held_by_others: what the wallet's other runs bought and have not sold.
HeldByOthers(r) == MapThenSumSet(LAMBDA q : rec[q].sol, {q \in recorded \ {r} : ~rec[q].ended})

\* begin_lab_run and the saved state; a run that has ended does nothing.
Open(p) ==
    LET r == proc[p].run IN
    /\ proc[p].pc = "open" /\ recorded' = recorded \cup {r}
    /\ IF rec[r].ended THEN Gone(p)
       ELSE /\ proc' = [proc EXCEPT ![p].pc = IF proc[p].close THEN "close" ELSE "count",
                                    ![p].others = HeldByOthers(r)]
            /\ UNCHANGED lock
    /\ UNCHANGED <<file, path, rec, wish, actsWish, holder, wallet, air>>

\* settle of a purchase: the wallet against the wallet before it.
Shows(r) == wallet.usdc < rec[r].pending.usdc /\ wallet.sol > rec[r].pending.sol

\* The state after reconcile: booked, given up once it cannot land, or open.
Reconciled(r) ==
    CASE ~rec[r].pending.open -> rec[r]
      [] rec[r].pending.open /\ Shows(r) ->
            [rec[r] EXCEPT !.cash = @ - (rec[r].pending.usdc - wallet.usdc),
                           !.sol = @ + (wallet.sol - rec[r].pending.sol), !.pending = NoOpen]
      [] OTHER -> [rec[r] EXCEPT !.pending = IF air[r] = 0 THEN NoOpen ELSE @]

Save(r, s) == rec' = [rec EXCEPT ![r] = s]
Others == <<file, path, recorded, holder>>

\* A sale of all it holds, when the wallet holds it.
SellsAll(s) == [s EXCEPT !.cash = @ + s.sol, !.sol = 0]
WalletSells(n) == wallet' = [sol |-> wallet.sol - n, usdc |-> wallet.usdc + n]

\* --close: sell what it holds and end; a sale that is not sent leaves it.
CloseRun(p) ==
    LET r == proc[p].run
        s == Reconciled(r)
    IN /\ proc[p].pc = "close" /\ Gone(p)
       /\ \/ /\ ~s.pending.open /\ wallet.sol >= s.sol
             /\ Save(r, [SellsAll(s) EXCEPT !.ended = TRUE]) /\ WalletSells(s.sol)
          \/ (s.pending.open \/ s.sol > 0) /\ Save(r, s) /\ UNCHANGED wallet
       /\ UNCHANGED <<Others, wish, actsWish, air>>

\* Ten seconds in which Ctrl-C ends it (Interrupt).
Countdown(p) ==
    /\ proc[p].pc = "count" /\ proc' = [proc EXCEPT ![p].pc = "setup", ![p].first = TRUE]
    /\ UNCHANGED <<disk, lock, wallet, air>>

\* change_acts, and the wish is taken away.
ChangeActs(r, s) ==
    IF actsWish[r] = "none" THEN s ELSE [s EXCEPT !.mode = actsWish[r]]

\* Before the first bar: the open swap, the wishes left, then the budget.
Setup(p) ==
    LET r == proc[p].run IN
    /\ proc[p].pc = "setup"
    /\ Save(r, ChangeActs(r, Reconciled(r))) /\ actsWish' = [actsWish EXCEPT ![r] = "none"]
    /\ proc' = [proc EXCEPT ![p].pc = IF wish[r] # 0 THEN "rebudget" ELSE "fund",
                            ![p].to = wish[r], ![p].tried = wish[r]]
    /\ UNCHANGED <<Others, wish, lock, wallet, air>>

AfterWish(p) == Goto(p, IF proc[p].first THEN "fund" ELSE "loop")
WishGone(p) == wish' = [wish EXCEPT ![proc[p].run] = 0]
Waits == UNCHANGED wish

\* SOL that may be sold for a budget: not the fees', nor anyone's purchases.
MaySell(p, own, need) == wallet.sol >= need + Keep + proc[p].others + own

\* rebudget of the wish that was read, then its file is removed, whatever is
\* in it by now.
Rebudget(p) ==
    LET r == proc[p].run
        s == Reconciled(r)
        to == proc[p].to
        more == to - s.budget
        free == Max({wallet.usdc - s.cash, 0})
    IN /\ proc[p].pc = "rebudget" /\ AfterWish(p)
       /\ \/ s.pending.open /\ Waits /\ Save(r, s) /\ UNCHANGED wallet
          \/ ~s.pending.open /\ (more = 0 \/ ~s.funded)
             /\ WishGone(p) /\ Save(r, [s EXCEPT !.budget = to]) /\ UNCHANGED wallet
          \/ ~s.pending.open /\ s.funded /\ more < 0 /\ s.cash < -more
             /\ Waits /\ Save(r, s) /\ UNCHANGED wallet
          \/ /\ ~s.pending.open /\ s.funded
             /\ (more < 0 /\ s.cash >= -more) \/ (more > 0 /\ free >= more)
             /\ WishGone(p) /\ Save(r, [s EXCEPT !.budget = to, !.cash = @ + more]) /\ UNCHANGED wallet
          \/ ~s.pending.open /\ s.funded /\ more > free /\ more > 0 /\ ~MaySell(p, s.sol, more - free)
             /\ WishGone(p) /\ Save(r, s) /\ UNCHANGED wallet
          \/ /\ ~s.pending.open /\ s.funded /\ more > free /\ more > 0 /\ MaySell(p, s.sol, more - free)
             /\ WishGone(p) /\ Save(r, [s EXCEPT !.budget = to, !.cash = @ + more])
             /\ WalletSells(more - free)
       /\ UNCHANGED <<Others, actsWish, lock, air>>

\* fund: the USDC the wallet has, and what it lacks bought with SOL; or
\* nothing, when the wallet is too poor or the swap is not sent.
Fund(p) ==
    LET r == proc[p].run
        s == rec[r]
        lacks == Max({s.budget - wallet.usdc, 0})
        funds == ~s.pending.open /\ ~s.funded
    IN /\ proc[p].pc = "fund" /\ proc' = [proc EXCEPT ![p].pc = "loop", ![p].first = FALSE]
       /\ \/ /\ funds /\ (lacks = 0 \/ MaySell(p, 0, lacks))
             /\ Save(r, [s EXCEPT !.funded = TRUE, !.cash = s.budget]) /\ WalletSells(lacks)
          \/ (funds => lacks > 0) /\ UNCHANGED <<rec, wallet>>
       /\ UNCHANGED <<Others, wish, actsWish, lock, air>>

\* Ctrl-C between two turns of the loop.
Stops(p) ==
    /\ proc[p].pc = "loop" /\ proc[p].stop
    /\ Exit(p)

\* A turn of the loop, of a run that has not ended.
Turn(p) == proc[p].pc = "loop" /\ ~proc[p].stop /\ ~rec[proc[p].run].ended

TurnActs(p) ==
    LET r == proc[p].run IN
    /\ Turn(p) /\ actsWish[r] # "none"
    /\ Save(r, ChangeActs(r, rec[r])) /\ actsWish' = [actsWish EXCEPT ![r] = "none"]
    /\ UNCHANGED <<Others, wish, lock, proc, wallet, air>>

\* A wish is tried when it is new, and again after each bar.
NewWish(p) == wish[proc[p].run] # 0 /\ wish[proc[p].run] # proc[p].tried

TurnWish(p) ==
    /\ Turn(p) /\ actsWish[proc[p].run] = "none" /\ NewWish(p)
    /\ proc' = [proc EXCEPT ![p].pc = "rebudget", ![p].to = wish[proc[p].run],
                            ![p].tried = wish[proc[p].run]]
    /\ UNCHANGED <<disk, lock, wallet, air>>

\* A bar: the open swap, the budget if it is not set aside yet, then what the
\* rule or the stop wants.
Bar(p) ==
    LET r == proc[p].run
        s == Reconciled(r)
        acts == ~s.pending.open /\ s.funded
        lacks == Max({s.budget - wallet.usdc, 0})
    IN /\ Turn(p) /\ actsWish[r] = "none" /\ ~NewWish(p)
       /\ proc' = [proc EXCEPT ![p].tried = 0] /\ UNCHANGED lock
       /\ \/ Save(r, s) /\ UNCHANGED <<wallet, air>>
          \/ /\ ~s.pending.open /\ ~s.funded /\ (lacks = 0 \/ MaySell(p, 0, lacks))
             /\ Save(r, [s EXCEPT !.funded = TRUE, !.cash = s.budget]) /\ WalletSells(lacks)
             /\ UNCHANGED air
          \/ /\ acts /\ s.cash > 0 /\ wallet.usdc >= s.cash
             /\ Save(r, [s EXCEPT !.sol = @ + s.cash, !.cash = 0]) /\ WalletSells(-s.cash)
             /\ UNCHANGED air
          \/ /\ acts /\ s.cash > 0 /\ wallet.usdc >= s.cash
             /\ Save(r, [s EXCEPT !.pending = [open |-> TRUE, sol |-> wallet.sol, usdc |-> wallet.usdc]])
             /\ air' = [air EXCEPT ![r] = s.cash] /\ UNCHANGED wallet
          \/ /\ acts /\ s.sol > 0 /\ wallet.sol >= s.sol /\ WalletSells(s.sol) /\ UNCHANGED air
             /\ \E ended \in BOOLEAN : Save(r, [SellsAll(s) EXCEPT !.ended = ended])
       /\ UNCHANGED <<Others, wish, actsWish>>

\* The loop's condition: a run that has ended leaves it.
Ends(p) == proc[p].pc = "loop" /\ rec[proc[p].run].ended /\ Exit(p)

\* The chain: a purchase handed over lands or expires.
Lands(r) ==
    /\ air[r] > 0 /\ wallet.usdc >= air[r] /\ WalletSells(-air[r])
    /\ air' = [air EXCEPT ![r] = 0] /\ UNCHANGED <<disk, lock, proc, counts>>
Expires(r) ==
    /\ air[r] > 0 /\ air' = [air EXCEPT ![r] = 0]
    /\ UNCHANGED <<disk, lock, proc, wallet, counts>>

\* The power, or a kill: nothing is written down.
Crash(p) ==
    /\ Alive(p) /\ asks < MaxAsks /\ asks' = asks + 1
    /\ proc[p].run # NoRun => LeavesOpen \/ ~rec[proc[p].run].pending.open
    /\ Exit(p) /\ UNCHANGED <<edits, told>>

DeskWorks(p) ==
    /\ \/ Load(p) \/ TakeLock(p) \/ Hold(p) \/ Open(p) \/ CloseRun(p) \/ Countdown(p)
       \/ Setup(p) \/ Rebudget(p) \/ Fund(p) \/ Stops(p) \/ Ends(p)
       \/ TurnActs(p) \/ TurnWish(p) \/ Bar(p)
    /\ UNCHANGED counts

Asked ==
    \/ \E r \in Runs : StopRun(r) \/ Mode(r)
    \/ \E r \in Runs, b \in Stakes : Budget(r, b)
    \/ \E r \in Runs, close \in BOOLEAN : StartOrClose(r, close)
    \/ \E f \in Files, r \in Runs : Create(f, r) \/ Edit(f, r)
    \/ \E f \in Files, close \in BOOLEAN : ByHand(f, close)

DeskStep ==
    \/ Asked
    \/ \E p \in Pids : DeskWorks(p) \/ Crash(p)
    \/ \E r \in Runs : Lands(r) \/ Expires(r)


----------------------------------------------------------------------------
(* Properties *)

\* The SOL that the runs not ended bought is in the wallet, whichever of them
\* trades (held_by_others and keep_also; "it is left alone").
EveryRunsSolIsThere ==
    MapThenSumSet(LAMBDA r : rec[r].sol, {r \in Runs : ~rec[r].ended}) <= wallet.sol

\* The USDC that the runs not ended count as theirs is in the wallet
\* (docs/TRADE.md: "It sells only SOL it bought and spends only its own USDC").
\* Does not hold: only SOL is held back for the others (trade.rs:516).
EveryRunsUsdcIsThere ==
    (\A r \in Runs : ~rec[r].pending.open) =>
        MapThenSumSet(LAMBDA r : rec[r].cash, {r \in Runs : ~rec[r].ended}) <= wallet.usdc

\* While a program trades a run, the page can tell: it is the one shown as
\* running and the one a Stop would reach (hold after try_lock).
PageTellsTheTrader ==
    \A p \in Pids : proc[p].pc \in Trading =>
        /\ lock = p /\ holder.pid = p
        /\ \A r \in DOMAIN View : View[r].state = "Running" => r = proc[p].run
        /\ proc[p].pc = "loop" /\ ~rec[proc[p].run].ended => View[proc[p].run].state = "Running"

\* Programs that share a wallet leave each other's SOL alone, and the page
\* knows which of them it would stop (trade and desk.rs).
DeskIsTrue == EveryRunsSolIsThere /\ PageTellsTheTrader

\* A program the page said it is stopping stops (desk.rs: "stopping: it
\* finishes what it is doing, then holds what it has").
\* Does not hold: a signal before the loop's first turn is lost (mod.rs:814).
StopIsHeeded == \A p \in Pids : p \in told ~> ~Alive(p)
=============================================================================
