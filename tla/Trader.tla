------------------------------- MODULE Trader -------------------------------
(***************************************************************************)
(* `--trade FILE`: one rule of the lab with real money (lab/trade.rs and   *)
(* the loop around it in lab/mod.rs).  One task looks at the price again   *)
(* and again; in a pass it settles what was left open, sets the budget     *)
(* aside, and carries out what the stop, the take-profit or the rule       *)
(* wants, one swap at a time.  What a swap did is read from the wallet.    *)
(* The state is written before a swap is sent and after it is accounted    *)
(* for; the process may be stopped anywhere and started again, while a     *)
(* transaction that was handed over lands, fails or expires by itself.     *)
(*                                                                         *)
(* USD and SOL are small integers in units worth the same at the middle    *)
(* price.  Prices are free: which lots the rule sells, whether the stop or *)
(* a gain is reached, and what a swap brings are chosen by the environment *)
(* within the bounds the code gives them.  Nothing else moves the wallet.  *)
(* Time is ages in ticks that saturate at SettledAfter.                    *)
(***************************************************************************)
EXTENDS Integers, Sequences, FiniteSets, Functions

CONSTANTS Budgets,      \* values of the budget: the file's and the wishes'
          MaxLots,      \* parts of a grid rule; every other rule has one
          InitSol, InitUsdc, \* the wallet before the run
          Keep,         \* fee_reserve + FUND_HEADROOM
          StopLoss,     \* stop_total_loss, percent
          Moves,        \* what a swap brings more or less than its input
          SettledAfter, \* SETTLED_AFTER_MS
          Life,         \* ticks a blockhash lives
          PassTime,     \* bound: ticks from a pass's start to its last hand-over
          MaxSwaps,     \* bound: transactions handed over
          MaxWishes,    \* bound: wishes to change the budget
          MaxStops      \* bound: times the process is stopped

ASSUME TraderAssumption ==
    /\ Budgets \subseteq Nat \ {0} /\ MaxLots \in Nat \ {0}
    /\ InitSol \in Nat /\ InitUsdc \in Nat /\ Keep \in Nat
    /\ Moves \subseteq Int /\ StopLoss \in 1..100
    /\ SettledAfter \in Nat \ {0} /\ Life \in Nat \ {0} /\ PassTime \in Nat
    /\ MaxSwaps \in Nat /\ MaxWishes \in Nat /\ MaxStops \in Nat

VARIABLES
    st,      \* State in memory (while off: as it will be read)
    saved,   \* State in the database
    run,     \* what the process was started for: "trade" or "close"
    pc,      \* where the task is
    task,    \* what the pass is doing
    todo,    \* the swaps of the pass not tried yet
    call,    \* amount and at_least of the swap under way
    passAge, \* ticks since the pass's ts
    wallet,  \* the wallet on chain
    flight,  \* transactions handed over that may still land
    traded,  \* history: what landed buys and sells changed in the wallet
    swaps, wishes, stops \* counters for the bounds

memory == <<st, saved>>
where == <<run, pc, task, todo, call, passAge>>
chain == <<wallet, flight, traded>>
counts == <<swaps, wishes, stops>>
vars == <<memory, where, chain, counts>>

----------------------------------------------------------------------------
NoPending == [what |-> "none", lot |-> 0, to |-> 0, sol |-> 0, usdc |-> 0, age |-> 0]

\* Pending: the swap and the wallet before it; age is what now - ts compares.
Pendings == [what : {"none", "Fund", "Buy", "Sell", "Raise"}, lot : Nat, to : Nat,
             sol : Int, usdc : Int, age : 0..SettledAfter]

Lots == [sol : Nat \ {0}, usd : Nat \ {0}]

\* State, with the profit of all trades as one number.
States == [cash : Nat, lots : Seq(Lots), net : Int, frozen : BOOLEAN, funded : BOOLEAN,
           ended : BOOLEAN, pending : Pendings, budget : Nat \ {0}]

\* State::default() with the file's budget.
NewState(b) == [cash |-> 0, lots |-> <<>>, net |-> 0, frozen |-> FALSE, funded |-> FALSE,
                ended |-> FALSE, pending |-> NoPending, budget |-> b]

Open(s) == s.pending.what # "none"

Min2(a, b) == IF a < b THEN a ELSE b
Max2(a, b) == IF a > b THEN a ELSE b

\* Account::sol, and what the open lots cost.
Sol(s) == SumFunction([i \in DOMAIN s.lots |-> s.lots[i].sol])
Paid(s) == SumFunction([i \in DOMAIN s.lots |-> s.lots[i].usd])

\* Mutant of Without: the lot is emptied and stays in the list.
Emptied(lots, i) == [lots EXCEPT ![i] = [sol |-> 0, usd |-> 0]]

\* The lots after the sale of one.
Without(lots, i) == SubSeq(lots, 1, i - 1) \o SubSeq(lots, i + 1, Len(lots))

Idle == /\ pc' = "idle" /\ task' = "none" /\ todo' = <<>>
        /\ call' = [amount |-> 0, least |-> 0] /\ passAge' = 0

Init ==
    /\ \E b \in Budgets : st = NewState(b) /\ saved = NewState(b)
    /\ run = "trade" /\ pc = "off" /\ task = "none" /\ todo = <<>>
    /\ call = [amount |-> 0, least |-> 0] /\ passAge = 0
    /\ wallet = [sol |-> InitSol, usdc |-> InitUsdc]
    /\ flight = {} /\ traded = [sol |-> 0, usdc |-> 0]
    /\ swaps = 0 /\ wishes = 0 /\ stops = 0

----------------------------------------------------------------------------
(* Accounting *)

\* settle: the wallet now, against the wallet before, shows this swap.
Shows(s) ==
    LET p == s.pending IN
    CASE p.what \in {"Fund", "Raise"} -> wallet.usdc > p.usdc
      [] p.what = "Buy"  -> wallet.usdc < p.usdc /\ wallet.sol > p.sol
      [] p.what = "Sell" -> wallet.usdc > p.usdc /\ p.lot \in DOMAIN s.lots

\* Mutant of Added: the whole raise, whatever the swap brought.
AddedInFull(s, to) == to - s.budget

\* settle, Raise: never more than the wallet holds beyond the rule's own USDC.
Added(s, to) == Max2(Min2(to - s.budget, Max2(wallet.usdc - s.cash, 0)), 0)

\* settle: the account with the swap in it.  The caller clears pending.
Booked(s) ==
    LET p == s.pending
        usd == wallet.usdc - p.usdc
    IN  CASE p.what = "Fund" ->
               [s EXCEPT !.funded = TRUE, !.cash = Min2(s.budget, wallet.usdc)]
          [] p.what = "Buy" ->
               [s EXCEPT !.cash = Max2(@ + usd, 0),
                         !.lots = Append(@, [sol |-> wallet.sol - p.sol, usd |-> -usd])]
          [] p.what = "Sell" ->
               [s EXCEPT !.cash = @ + usd, !.lots = Without(@, p.lot),
                         !.net = @ + usd - s.lots[p.lot].usd]
          [] p.what = "Raise" ->
               [s EXCEPT !.cash = @ + Added(s, p.to), !.budget = @ + Added(s, p.to)]

Cleared(s) == [s EXCEPT !.pending = NoPending]

\* Mutant of LastLook: a tick early.
LastLookEarly(p) == p.age + 1 >= SettledAfter

\* reconcile: unchanged for this long, a swap counts as not landed.
LastLook(p) == p.age >= SettledAfter

\* Mutant of Reconcile: no look is ever the last one.
ReconcileWaits ==
    /\ pc = "idle" /\ Open(st) /\ Shows(st)
    /\ st' = Cleared(Booked(st)) /\ saved' = st'
    /\ UNCHANGED <<where, chain, counts>>

\* reconcile, at the start and before every pass: the wallet was read and
\* says what became of the open swap.
Reconcile ==
    /\ pc = "idle" /\ Open(st)
    /\ \/ Shows(st) /\ st' = Cleared(Booked(st))
       \/ ~Shows(st) /\ LastLook(st.pending) /\ st' = Cleared(st)
    /\ saved' = st'
    /\ UNCHANGED <<where, chain, counts>>

----------------------------------------------------------------------------
(* One swap: act_for *)

\* Mutant of Returned: a sale of everything does not look at the answer.
ReturnedIgnored(ok) ==
    /\ pc' = CASE task = "fund" -> IF st'.funded THEN "decide" ELSE "end"
               [] task = "raise" -> "end"
               [] task \in {"stop", "close", "take", "taken", "orders"} -> "next"
    /\ task' = IF task = "take" /\ ok THEN "taken" ELSE task
    /\ call' = [amount |-> 0, least |-> 0]

\* What the pass does with act_for's answer.
Returned(ok) ==
    /\ pc' = CASE task = "fund" -> IF st'.funded THEN "decide" ELSE "end"
               [] task = "raise" -> "end"
               [] task \in {"stop", "close"} -> IF ok THEN "next" ELSE "end"
               [] task \in {"take", "taken", "orders"} -> "next"
    /\ task' = IF task = "take" /\ ok THEN "taken" ELSE task
    /\ call' = [amount |-> 0, least |-> 0]

\* Mutant of WriteAhead: the state is written only after the swap.
WriteAfter(s) == saved

\* write, before the swap is sent.
WriteAhead(s) == s

\* The wallet is read, the swap written down, and only then asked for.
Act(what, lot, to, amount, least) ==
    \/ /\ amount > 0
       /\ st' = [st EXCEPT !.pending = [what |-> what, lot |-> lot, to |-> to,
                    sol |-> wallet.sol, usdc |-> wallet.usdc, age |-> passAge]]
       /\ saved' = WriteAhead(st')
       /\ pc' = "swap" /\ call' = [amount |-> amount, least |-> least]
    \/ UNCHANGED memory /\ pc' = "back" /\ call' = [amount |-> 0, least |-> 0]

\* Nothing to swap, or the wallet could not be read: nothing was written.
NotTried ==
    /\ pc = "back"
    /\ UNCHANGED memory
    /\ Returned(FALSE)
    /\ UNCHANGED <<run, todo, passAge, chain, counts>>

\* Sent::NotSent: quote, simulation, signature or blockhash headroom failed.
NotSent ==
    /\ pc = "swap"
    /\ st' = Cleared(st) /\ saved' = st'
    /\ Returned(FALSE)
    /\ UNCHANGED <<run, todo, passAge, chain, counts>>

\* sign_and_send hands the transaction over; its blockhash is fresh.
HandOver ==
    /\ pc = "swap" /\ swaps < MaxSwaps /\ passAge <= PassTime
    /\ \E m \in Moves :
         LET out == call.amount + m
             sells == st.pending.what # "Buy"
         IN  /\ out > 0 /\ out >= call.least
             /\ call.amount <= IF sells THEN wallet.sol ELSE wallet.usdc
             /\ flight' = flight \cup
                  {[what |-> st.pending.what, left |-> Life,
                    sol  |-> IF sells THEN -call.amount ELSE out,
                    usdc |-> IF sells THEN out ELSE -call.amount]}
    /\ pc' = "deliver" /\ swaps' = swaps + 1
    /\ UNCHANGED <<memory, run, task, todo, call, passAge, wallet, traded, wishes, stops>>

\* deliver goes on sending until the fate is known, or two minutes, which
\* outlast a blockhash.
DeliverEnds ==
    /\ pc = "deliver" /\ flight = {}
    /\ pc' = "look"
    /\ UNCHANGED <<memory, run, task, todo, call, passAge, chain, counts>>

\* One of the six looks reads the wallet and finds the swap in it.
LookSettles ==
    /\ pc = "look" /\ Shows(st)
    /\ st' = Cleared(Booked(st)) /\ saved' = st'
    /\ Returned(TRUE)
    /\ UNCHANGED <<run, todo, passAge, chain, counts>>

\* No look did: not in the wallet, or the wallet could not be read.
LooksEnd ==
    /\ pc = "look"
    /\ saved' = st /\ UNCHANGED st
    /\ Returned(FALSE)
    /\ UNCHANGED <<run, todo, passAge, chain, counts>>

----------------------------------------------------------------------------
(* A pass: on_bar, and the sale of everything by --close *)

\* NEARLY
Nearly(have, want) == 100 * have >= 95 * want

\* on_bar after reconcile: nothing on top of an open swap.
Begin ==
    /\ pc = "idle" /\ ~Open(st) /\ ~st.ended
    /\ IF run = "close" THEN pc' = "next" /\ task' = "close"
                        ELSE pc' = (IF st.funded THEN "decide" ELSE "fund") /\ task' = "fund"
    /\ UNCHANGED <<memory, run, todo, call, passAge, chain, counts>>

\* fund: take the budget from the USDC that is there, or sell SOL for it.
Fund ==
    /\ pc = "fund"
    /\ \/ /\ Nearly(wallet.usdc, st.budget)
          /\ st' = [st EXCEPT !.funded = TRUE, !.cash = Min2(wallet.usdc, st.budget)]
          /\ pc' = "decide"
          /\ UNCHANGED <<saved, call>>
       \/ /\ ~Nearly(wallet.usdc, st.budget)
          /\ LET need == st.budget - wallet.usdc IN
             IF wallet.sol < need + Keep THEN pc' = "end" /\ UNCHANGED <<memory, call>>
                                         ELSE Act("Fund", 0, 0, need, 0)
       \/ pc' = "end" /\ UNCHANGED <<memory, call>>        \* the wallet could not be read
    /\ UNCHANGED <<run, task, todo, passAge, chain, counts>>

\* The i-th highest of these lots.
Highest(these, i) == CHOOSE lot \in these : Cardinality({l \in these : l > lot}) = i - 1

\* The sales of these lots, the highest first.
Sells(these, gain) ==
    [i \in 1..Cardinality(these) |->
        LET lot == Highest(these, i) IN
        [what |-> "Sell", lot |-> lot, least |-> IF gain THEN st.lots[lot].usd + 1 ELSE 0]]

\* What orders wants: a rule in one part sells what it holds or buys with all
\* its cash; a grid sells any of its lots or buys one more part.
Part == IF MaxLots = 1 THEN st.cash ELSE st.budget \div MaxLots

Orders ==
    {Sells(these, FALSE) : these \in
        IF MaxLots = 1 THEN {{}, DOMAIN st.lots} ELSE SUBSET DOMAIN st.lots} \cup
    (IF Len(st.lots) < MaxLots /\ Part > 0 /\ st.cash >= Part
     THEN {<<[what |-> "Buy", lot |-> 0, least |-> 0]>>} ELSE {})

\* The stop.  The lots are worth anything above nothing at the bid.
DownTo(usd) == 100 * usd <= st.budget * (100 - StopLoss)
MayStop == st.frozen \/ DownTo(IF st.lots = <<>> THEN st.cash ELSE st.cash + 1)
MayGoOn == ~st.frozen /\ (st.lots = <<>> => ~DownTo(st.cash))

\* on_bar: the stop, else the gains to take, else what the rule wants; or the
\* look at the start, which ends here.
Decide ==
    /\ pc = "decide"
    /\ \/ /\ MayStop
          /\ st' = [st EXCEPT !.frozen = TRUE]
          /\ task' = "stop" /\ pc' = "next" /\ todo' = <<>>
       \/ /\ MayGoOn
          /\ \/ \E these \in SUBSET DOMAIN st.lots : task' = "take" /\ todo' = Sells(these, TRUE)
             \/ task' = "orders" /\ todo' \in Orders
          /\ pc' = "next"
          /\ UNCHANGED st
       \/ pc' = "end" /\ UNCHANGED <<st, task, todo>>
    /\ UNCHANGED <<saved, run, call, passAge, chain, counts>>

\* The take-profit loop stops at an open swap.
TakeGoesOn == ~Open(st)

\* The next swap of the list.  A lot that is gone is passed over; a buy is
\* held to the rule's own cash and to what the wallet holds.
NextOrder ==
    /\ pc = "next" /\ todo # <<>>
    /\ task \in {"take", "taken"} => TakeGoesOn
    /\ todo' = Tail(todo)
    /\ LET o == Head(todo) IN
       IF o.what = "Sell" /\ o.lot \notin DOMAIN st.lots
       THEN UNCHANGED <<memory, pc, call>>
       ELSE Act(o.what, o.lot, 0,
                IF o.what = "Sell" THEN st.lots[o.lot].sol
                ELSE Min2(Min2(Part, st.cash), wallet.usdc), o.least)
    /\ UNCHANGED <<run, task, passAge, chain, counts>>

\* The list is done, or an open swap ends it.  With no gain taken and nothing
\* open the rule's own orders follow.
ListDone ==
    /\ pc = "next" /\ task \in {"take", "taken", "orders"}
    /\ todo = <<>> \/ (task \in {"take", "taken"} /\ ~TakeGoesOn)
    /\ \/ /\ task = "take" /\ ~Open(st)
          /\ task' = "orders" /\ todo' \in Orders
          /\ UNCHANGED pc
       \/ /\ task \in {"taken", "orders"} \/ Open(st)
          /\ pc' = "end" /\ todo' = <<>>
          /\ UNCHANGED task
    /\ UNCHANGED <<memory, run, call, passAge, chain, counts>>

\* sell_all: the last lot, until none is left; then the run has ended.
SellAll ==
    /\ pc = "next" /\ task \in {"stop", "close"}
    /\ IF st.lots = <<>>
       THEN st' = [st EXCEPT !.ended = TRUE] /\ pc' = "end" /\ UNCHANGED <<saved, call>>
       ELSE Act("Sell", Len(st.lots), 0, st.lots[Len(st.lots)].sol, 0)
    /\ UNCHANGED <<run, task, todo, passAge, chain, counts>>

\* The caller saves the state; the loop goes round, or the process ends.
EndPass ==
    /\ pc = "end"
    /\ saved' = st
    /\ IF st.ended \/ run = "close"
       THEN pc' = "off" /\ task' = "none" /\ todo' = <<>> /\ passAge' = 0 /\ UNCHANGED call
       ELSE Idle
    /\ UNCHANGED <<st, run, chain, counts>>

----------------------------------------------------------------------------
(* The operator *)

\* Mutant of Lower: the budget is lowered, the cash is kept.
LowerKeepsCash(to) == [st EXCEPT !.budget = to]

\* rebudget, lowered: the difference is the wallet's again.
Lower(to) == [st EXCEPT !.cash = Max2(@ - (st.budget - to), 0), !.budget = to]

\* rebudget.  With a swap open, or too little cash to give back, it waits.
Wish(to) ==
    /\ pc = "idle" /\ run = "trade" /\ ~Open(st) /\ ~st.ended
    /\ wishes < MaxWishes /\ wishes' = wishes + 1
    /\ to # st.budget
    /\ LET more == to - st.budget
           free == Max2(wallet.usdc - st.cash, 0)
       IN  \/ /\ ~st.funded \/ (more < 0 /\ st.cash >= -more) \/ (more > 0 /\ Nearly(free, more))
              /\ st' = CASE ~st.funded -> [st EXCEPT !.budget = to]
                         [] st.funded /\ more < 0 -> Lower(to)
                         [] st.funded /\ more > 0 ->
                              [st EXCEPT !.cash = @ + Min2(more, free), !.budget = @ + Min2(more, free)]
              /\ saved' = st'
              /\ UNCHANGED <<pc, task, call>>
           \/ /\ st.funded /\ more > 0 /\ ~Nearly(free, more)
              /\ wallet.sol >= more - free + Keep + Sol(st)
              /\ task' = "raise"
              /\ Act("Raise", 0, to, more - free, 0)
    /\ UNCHANGED <<run, todo, passAge, chain, swaps, stops>>

\* The process is stopped or dies: only what was written remains.
Stop ==
    /\ pc # "off" /\ stops < MaxStops
    /\ stops' = stops + 1
    /\ st' = saved
    /\ pc' = "off" /\ task' = "none" /\ todo' = <<>>
    /\ call' = [amount |-> 0, least |-> 0] /\ passAge' = 0
    /\ UNCHANGED <<saved, run, chain, swaps, wishes>>

\* Started again, to trade or to close by hand: it first waits until the swap
\* that was under way can no longer land.
Start(r) ==
    /\ pc = "off" /\ ~saved.ended
    /\ Open(saved) => LastLook(saved.pending)
    /\ st' = saved /\ run' = r
    /\ Idle
    /\ UNCHANGED <<saved, chain, counts>>

\* --close with a wallet that cannot be read leaves the open swap open.
CloseGivesUp ==
    /\ pc = "idle" /\ run = "close" /\ Open(st)
    /\ saved' = st /\ pc' = "off"
    /\ UNCHANGED <<st, run, task, todo, call, passAge, chain, counts>>

----------------------------------------------------------------------------
(* The chain and the clock *)

\* A transaction in flight lands, or fails on chain.
Land(t) ==
    /\ flight' = flight \ {t}
    /\ wallet' = [sol |-> wallet.sol + t.sol, usdc |-> wallet.usdc + t.usdc]
    /\ traded' = IF t.what \in {"Buy", "Sell"}
                 THEN [sol |-> traded.sol + t.sol, usdc |-> traded.usdc + t.usdc] ELSE traded
    /\ UNCHANGED <<memory, where, counts>>

Fail(t) ==
    /\ flight' = flight \ {t}
    /\ UNCHANGED <<memory, where, wallet, traded, counts>>

Older(a) == Min2(a + 1, SettledAfter)
OlderState(s) == IF Open(s) THEN [s EXCEPT !.pending.age = Older(@)] ELSE s

\* Time passes; a transaction whose blockhash expired can no longer land.
Tick ==
    /\ st' = OlderState(st) /\ saved' = OlderState(saved)
    /\ passAge' = IF pc \in {"off", "idle"} THEN 0 ELSE Older(passAge)
    /\ flight' = {[t EXCEPT !.left = @ - 1] : t \in {u \in flight : u.left > 1}}
    /\ <<st, saved, passAge, flight>>' # <<st, saved, passAge, flight>>
    /\ UNCHANGED <<run, pc, task, todo, call, wallet, traded, counts>>

----------------------------------------------------------------------------
\* The steps of a pass once it has begun: every await in it has a timeout.
Pass ==
    \/ NotTried \/ NotSent \/ HandOver \/ DeliverEnds \/ LookSettles \/ LooksEnd
    \/ Fund \/ Decide \/ NextOrder \/ ListDone \/ SellAll \/ EndPass

Next ==
    \/ Pass \/ Reconcile \/ Begin \/ Stop \/ CloseGivesUp \/ Tick
    \/ \E r \in {"trade", "close"} : Start(r)
    \/ \E to \in Budgets : Wish(to)
    \/ \E t \in flight : Land(t) \/ Fail(t)

Spec == Init /\ [][Next]_vars

\* The task keeps going, the clock too, a stopped run is started again, and a
\* wallet read that is tried again and again succeeds at last.
FairSpec ==
    /\ Spec
    /\ WF_vars(Pass) /\ WF_vars(Tick)
    /\ WF_vars(\E r \in {"trade", "close"} : Start(r))
    /\ SF_vars(Reconcile)
----------------------------------------------------------------------------
(* Properties *)

\* Type correctness of the run's state, in memory and in the database, and of
\* the chain's side.
TypeOK ==
    /\ st \in States /\ saved \in States
    /\ run \in {"trade", "close"}
    /\ pc \in {"off", "idle", "fund", "decide", "next", "back", "swap", "deliver", "look", "end"}
    /\ task \in {"none", "fund", "raise", "take", "taken", "orders", "stop", "close"}
    /\ todo \in Seq([what : {"Buy", "Sell"}, lot : Nat, least : Int])
    /\ call \in [amount : Nat, least : Int]
    /\ passAge \in 0..SettledAfter
    /\ wallet \in [sol : Int, usdc : Int] /\ traded \in [sol : Int, usdc : Int]
    /\ flight \subseteq [what : {"Fund", "Buy", "Sell", "Raise"}, left : 1..Life, sol : Int, usdc : Int]
    /\ swaps \in Nat /\ wishes \in Nat /\ stops \in Nat

\* The account is what the chain did: whenever no swap is open or on its way,
\* the lots are exactly the SOL that landed buys and sells left, and profit
\* less what the lots cost is exactly the USDC they moved, across stops of the
\* program at any point and swaps that were sent and did not land.
BooksMatch ==
    ~Open(st) /\ flight = {} =>
        traded = [sol |-> Sol(st), usdc |-> st.net - Paid(st)]

\* The USDC the rule counts as its own is in the wallet: neither the budget
\* set aside, nor a raise that brought less than it asked for, nor a buy
\* accounted late promises more.
CashIsThere == ~Open(st) /\ flight = {} => st.cash <= wallet.usdc

\* What the rule holds in cash and lots, less what it has made, never exceeds
\* its budget, however often the budget is changed by hand.
WithinBudget == st.cash + Paid(st) <= st.budget + st.net

\* A run that has ended is over: it holds no SOL, no swap of it is open and
\* none can still land.
EndedHoldsNothing == saved.ended => traded.sol = 0 /\ ~Open(saved) /\ flight = {}

\* The account of the run: well formed, exactly what the chain did, with its
\* cash in the wallet, within its budget, and empty once the run has ended
\* (settle, reconcile, rebudget, sell_all and the loop of trade).
AccountHolds == TypeOK /\ BooksMatch /\ CashIsThere /\ WithinBudget /\ EndedHoldsNothing

\* "A swap sent this long ago can no longer land": a transaction that may
\* still land is written down as open, so that whoever starts the program next
\* waits for it.
OpenSwapIsWritten == flight # {} => Open(saved)

\* "it sells only SOL it bought"
\* Does not hold with MaxLots > 1: the loop over a grid's orders starts the next
\* sale on top of an open one (trade.rs:719).
SellsOnlyItsOwn == traded.sol >= 0

\* An open swap does not stay open: the run goes on, whatever became of it.
OpenSwapSettles == Open(st) ~> ~Open(st)

----------------------------------------------------------------------------
(* Why they hold: what is true between two steps *)

\* A rule in one part: every rule of the lab but a grid.
OnePart == MaxLots = 1

\* The last hand-over of a pass is early enough in it that the transaction has
\* expired when SETTLED_AFTER_MS have passed since the pass's ts.
InTime == PassTime + Life <= SettledAfter

\* What was handed over belongs to a swap that is written down and is old
\* enough before that swap may count as settled.
InTheAir ==
    /\ flight # {} => pc \in {"deliver", "off"} /\ Open(saved)
    /\ \A t \in flight : t.left + saved.pending.age <= SettledAfter
    /\ pc \in {"swap", "deliver", "look"} => Open(st) /\ st = saved /\ st.pending.age = passAge
    /\ pc \in {"off", "idle"} => st = saved

\* Sol and Paid of a rule in one part.
LotSol(s) == IF s.lots = <<>> THEN 0 ELSE s.lots[1].sol
LotUsd(s) == IF s.lots = <<>> THEN 0 ELSE s.lots[1].usd

\* This wallet is the one before the swap, or the one with the swap in it.
Unmoved(s, w) == w.sol = s.pending.sol /\ w.usdc = s.pending.usdc
Landed(s, w) ==
    LET p == s.pending IN
    /\ p.what \in {"Fund", "Raise", "Sell"} => w.usdc > p.usdc
    /\ p.what = "Sell" => w.sol = p.sol - LotSol(s)
    /\ p.what = "Buy" => w.usdc < p.usdc /\ w.sol > p.sol /\ p.usdc - s.cash <= w.usdc

\* Memory and database agree on the swaps, and at rest on everything.
InStep ==
    /\ st.pending = saved.pending /\ st.lots = saved.lots
    /\ st.net = saved.net /\ st.budget = saved.budget
    /\ Open(st) \/ pc \in {"off", "idle"} => st = saved

\* An open swap is one the account can take, and the wallet shows all of it or
\* nothing.
SwapFits ==
    Open(st) =>
        /\ st.pending.what = "Fund" => ~st.funded
        /\ st.pending.what = "Buy" => st.funded /\ st.lots = <<>>
        /\ st.pending.what = "Sell" => st.lots # <<>> /\ st.pending.lot = 1
        /\ st.pending.what = "Raise" => st.funded
        /\ st.cash <= st.pending.usdc
        /\ Unmoved(st, wallet) \/ Landed(st, wallet)

\* A state, in memory or in the database, counts only what is there.
Counts(s) ==
    /\ Len(s.lots) <= 1
    /\ ~s.funded => s.cash = 0 /\ s.lots = <<>> /\ s.net = 0
    /\ s.ended => s.lots = <<>> /\ ~Open(s)
    /\ s.cash + LotUsd(s) <= s.budget + s.net
    /\ ~Open(s) => s.cash <= wallet.usdc

\* The lots and the profit are what landed, but for an open swap's part.
Moved == st.pending.what \in {"Buy", "Sell"}
Books ==
    /\ traded.sol = LotSol(st) + (IF Moved THEN wallet.sol - st.pending.sol ELSE 0)
    /\ traded.usdc = st.net - LotUsd(st) + (IF Moved THEN wallet.usdc - st.pending.usdc ELSE 0)
    /\ wallet.usdc >= 0

\* A transaction that may land is the open swap's, and the only one.
After(t) == [sol |-> wallet.sol + t.sol, usdc |-> wallet.usdc + t.usdc]
OneInFlight ==
    \A t \in flight :
        /\ flight = {t}
        /\ t.what = st.pending.what
        /\ Unmoved(st, wallet) /\ Landed(st, After(t)) /\ After(t).usdc >= 0

\* Where the task is says whether a swap is open, and which.
SwapByPlace ==
    /\ pc \in {"fund", "decide", "back"} => ~Open(st)
    /\ pc = "next" /\ task \in {"stop", "close"} => ~Open(st)
    /\ pc \in {"swap", "deliver", "look"} /\ task = "fund" => st.pending.what = "Fund"
    /\ pc = "swap" =>
         /\ Unmoved(st, wallet) /\ call.amount > 0
         /\ st.pending.what = "Buy" => call.amount <= st.cash
         /\ st.pending.what = "Sell" => call.amount = LotSol(st)

\* Where the task is says what the account may be.
AccountByPlace ==
    /\ pc = "fund" => ~st.funded
    /\ pc = "decide" \/ task \in {"take", "taken", "orders"} => st.funded
    /\ st.ended => pc \in {"end", "off"}
    /\ saved.ended => pc = "off"

\* One swap at most is left to try, and only where the list is worked off.
ListFits ==
    todo # <<>> =>
        /\ Len(todo) = 1 /\ pc = "next" /\ task \in {"take", "orders"} /\ ~Open(st)
        /\ todo[1].what = "Buy" => st.lots = <<>>

Money == SwapFits /\ Counts(st) /\ Counts(saved) /\ Books /\ OneInFlight
Places == InStep /\ SwapByPlace /\ AccountByPlace /\ ListFits
=============================================================================
