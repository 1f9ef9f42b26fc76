-------------------------------- MODULE Lab --------------------------------
(***************************************************************************)
(* The lab (lab/mod.rs, lab/rules.rs, lab/model.rs and the lab tables of   *)
(* storage/research.rs): rules that hold a position, tried on paper.       *)
(*                                                                         *)
(*   --lab FILE           live prices, bar by bar; stopped, killed and     *)
(*                        started again at any point, on a machine that    *)
(*                        may sleep                                        *)
(*   --lab-backtest FILE  the same rules over the candles of the last days *)
(*                                                                         *)
(* Both keep the candles they read in one cache.  Bars are numbered from 1 *)
(* and are their close (a bar's high and low are its close); bar b closes  *)
(* at tick b * BarTicks.  Money and SOL are whole numbers, so that what a  *)
(* division loses is one more cost.  What a trained model makes of its 26  *)
(* features is any answer.                                                 *)
(***************************************************************************)
EXTENDS Integers, Sequences, SequencesExt, FiniteSets, FiniteSetsExt

CONSTANTS Experiments, \* the places of the experiments in the rules file
          Rules,       \* the rules an experiment may have
          Capital,     \* capital_usd
          FixedCost,   \* Costs::of a transaction
          TotalLoss,   \* [stops] total_loss, of the capital; 0: none
          DailyLoss,   \* [stops] daily_loss; 0: none
          Closes,      \* what a bar may close at
          Quotes,      \* the exchange's [bid, ask]
          BarTicks,    \* bar_ms
          DayBars,     \* bars of a UTC day
          Spans,       \* bars a backtest goes back (--days)
          LastBar,     \* bound: bars
          MaxLabs      \* bound: starts of --lab and --lab-backtest

ASSUME LabAssumption ==
    /\ Experiments \subseteq Nat
    /\ Capital \in Nat \ {0} /\ FixedCost \in Nat /\ TotalLoss \in Nat /\ DailyLoss \in Nat
    /\ BarTicks \in Nat \ {0} /\ DayBars \in Nat \ {0}
    /\ \A q \in Quotes : 0 < q.bid /\ q.bid <= q.ask

VARIABLES
    plan,     \* which rule each experiment has
    now,      \* the time
    closes,   \* the bars' closes
    cached,   \* lab_bars
    paper,    \* the --lab program
    labdb,    \* lab_state and lab_fills, by experiment
    tested,   \* the bars of the last backtest and those it asked for
    labs,     \* counter for the bound
    stopped   \* history, by experiment: the bar at which its total stop was reached

labVars == <<plan, now, closes, cached, paper, labdb, tested, labs, stopped>>

----------------------------------------------------------------------------
(* The paper account *)

Account0 == [cash |-> Capital, lots |-> <<>>, reference |-> 0, day |-> -1, dayStart |-> 0,
             frozen |-> FALSE, holdUntil |-> 0]

Sol(a) == FoldLeft(LAMBDA s, l : s + l.sol, 0, a.lots)
Equity(a, price) == a.cash + Sol(a) * price

NoOrders == [buy |-> 0, sell |-> {}]

\* Costs::of: the fixed part, which does not shrink with the trade.
CostOf(usd) == FixedCost

\* The sells of a fill: each lot pays for its own.
SellLots(a, lots, price) ==
    [a EXCEPT !.cash = @ + MapThenSumSet(LAMBDA i : a.lots[i].sol * price - CostOf(a.lots[i].usd), lots),
              !.lots = FoldLeft(LAMBDA kept, i : IF i \in lots THEN kept ELSE Append(kept, a.lots[i]),
                                <<>>, [i \in DOMAIN a.lots |-> i])]

\* The buy of a fill; none where the fee alone is more than the order.
BuyLot(a, usd, price) ==
    LET paid == Min({usd, a.cash})
        sol == (paid - CostOf(paid)) \div price
    IN IF paid <= CostOf(paid) \/ sol = 0 THEN a
       ELSE [a EXCEPT !.cash = @ - paid, !.lots = Append(@, [usd |-> paid, sol |-> sol])]

\* Account::fill: the orders at the prices given; the close becomes the
\* grid's new reference when anything was done.
Fill(a, o, q, close) ==
    LET sold == SellLots(a, o.sell, q.bid)
        done == IF o.buy > 0 THEN BuyLot(sold, o.buy, q.ask) ELSE sold
    IN IF done = a THEN a ELSE [done EXCEPT !.reference = close]

----------------------------------------------------------------------------
(* The rules: what each decides at the close of the last of the bars cs *)

Warmup(r) ==
    CASE r.rule = "sign-reversal" -> 2
      [] r.rule = "dip" -> r.window
      [] r.rule = "grid" -> 1
      [] r.rule = "breakout" -> Max({r.entry, r.exit}) + 1
      [] r.rule = "model" -> r.history

\* In with everything, or out of everything.
AllIn(a, want, mayBuy) ==
    CASE want /\ a.lots = <<>> /\ mayBuy /\ a.cash > 0 -> [buy |-> a.cash, sell |-> {}]
      [] ~want /\ a.lots # <<>> -> [buy |-> 0, sell |-> DOMAIN a.lots]
      [] OTHER -> NoOrders

\* The last n of the closes before the newest one.
LastOf(cs, n) == {cs[i] : i \in (Len(cs) - n)..(Len(cs) - 1)}

\* With m the mean and s the deviation of the last w closes: w * (c - m) and
\* w^2 * s^2, so that deviations compare without a square root.
Above(cs, w) == w * Last(cs) - FoldLeft(+, 0, SubSeq(cs, Len(cs) - w + 1, Len(cs)))
Spread(cs, w) ==
    LET x == SubSeq(cs, Len(cs) - w + 1, Len(cs))
        sum == FoldLeft(+, 0, x)
    IN w * FoldLeft(LAMBDA s, c : s + c * c, 0, x) - sum * sum

Dip(r, cs, a, mayBuy) ==
    LET d == Above(cs, r.window)
        v == Spread(cs, r.window)
        low == v > 0 /\ d < 0 /\ d * d > r.k * r.k * v
        high == v > 0 /\ d > 0 /\ d * d > r.exit_z * r.exit_z * v
        under == r.stop > 0 /\ Last(cs) * a.lots[1].sol * 100 < a.lots[1].usd * (100 - r.stop)
    IN IF a.lots = <<>> THEN AllIn(a, low, mayBuy) ELSE AllIn(a, ~(high \/ under), mayBuy)

Grid(r, cs, a, mayBuy) ==
    LET close == Last(cs)
        ripe == {i \in DOMAIN a.lots : close * a.lots[i].sol * 100 >= a.lots[i].usd * (100 + r.step)}
        part == Capital \div r.lots
        under == a.reference > 0 /\ close * 100 <= a.reference * (100 - r.step)
    IN CASE ripe # {} -> [buy |-> 0, sell |-> ripe]
         [] ripe = {} /\ mayBuy /\ under /\ Len(a.lots) < r.lots /\ a.cash >= part ->
                [buy |-> part, sell |-> {}]
         [] OTHER -> NoOrders

Breakout(r, cs, a, mayBuy) ==
    IF a.lots = <<>> THEN AllIn(a, Last(cs) > Max(LastOf(cs, r.entry)), mayBuy)
    ELSE AllIn(a, Last(cs) >= Min(LastOf(cs, r.exit)), mayBuy)

Decide(r, cs, a, mayBuy) ==
    CASE Len(cs) < Warmup(r) -> NoOrders
      [] r.rule = "sign-reversal" /\ Len(cs) >= 2 -> AllIn(a, Last(cs) < cs[Len(cs) - 1], mayBuy)
      [] r.rule = "dip" /\ Len(cs) >= Warmup(r) -> Dip(r, cs, a, mayBuy)
      [] r.rule = "grid" /\ Len(cs) >= 1 -> Grid(r, cs, a, mayBuy)
      [] r.rule = "breakout" /\ Len(cs) >= Warmup(r) -> Breakout(r, cs, a, mayBuy)
      [] OTHER -> NoOrders

\* Model::signal: any answer, but none on bars it was trained on or without
\* its history.
Signal(r, n, bar) == IF bar >= r.unseen /\ n >= r.history THEN BOOLEAN ELSE {FALSE}

\* What a model rule does: in while it says so, out its horizon after the
\* last time it did.
ByModel(a, on, bar, mayBuy) ==
    CASE a.lots = <<>> /\ on /\ mayBuy /\ a.cash > 0 -> [buy |-> a.cash, sell |-> {}]
      [] a.lots # <<>> /\ bar >= a.holdUntil -> [buy |-> 0, sell |-> DOMAIN a.lots]
      [] OTHER -> NoOrders

\* Mutant of Kept: the total stop holds only while the account is down.
KeptWhileDown(a, bar, e) ==
    [a EXCEPT !.day = bar \div DayBars,
              !.dayStart = IF a.day = bar \div DayBars THEN @ ELSE e,
              !.frozen = TotalLoss > 0 /\ e <= Capital - TotalLoss]

\* orders: the account's day and its stops.
Kept(a, bar, e) ==
    [a EXCEPT !.day = bar \div DayBars,
              !.dayStart = IF a.day = bar \div DayBars THEN @ ELSE e,
              !.frozen = @ \/ (TotalLoss > 0 /\ e <= Capital - TotalLoss)]

Paused(a, e) == DailyLoss > 0 /\ e <= a.dayStart - DailyLoss

\* step: decide on the bar, fill at the quote.
Step(r, a, cs, bar, on, q) ==
    LET first == [a EXCEPT !.reference = IF @ = 0 THEN Last(cs) ELSE @]
        e == Equity(a, Last(cs))
        k == Kept(first, bar, e)
        mayBuy == ~k.frozen /\ ~Paused(k, e)
        held == IF on /\ Len(cs) >= 2 THEN [k EXCEPT !.holdUntil = bar + r.horizon] ELSE k
        o == IF r.rule = "model" THEN ByModel(held, on, bar, mayBuy) ELSE Decide(r, cs, k, mayBuy)
    IN Fill(held, o, q, Last(cs))

----------------------------------------------------------------------------
(* The candles *)

NoPaper == [pc |-> "off", bars |-> <<>>, seen |-> << >>, acct |-> << >>, quote |-> {}, todo |-> <<>>]

\* The bars that have closed.
Closed == 1..(now \div BarTicks)

\* history: the closed bars of a range, as the exchange gives them.
History(from, before) == {b \in Closed : from <= b /\ b < before}

\* bars_since: what the database has, and what it lacks at either end.  from
\* is the first bar that starts in the time asked for, which starts inside the
\* bar before it.
BarsSince(from) ==
    LET have == {b \in cached : b >= from}
    IN IF have = {} THEN History(from, now + 1)
       ELSE have \cup History(Max(have) + 1, now + 1)
                 \cup (IF Min(have) > from THEN History(from, Min(have)) ELSE {})

LabInit ==
    /\ plan \in [Experiments -> Rules]
    /\ now = BarTicks /\ closes \in [1..1 -> Closes]
    /\ cached = {} /\ paper = NoPaper /\ labs = 0
    /\ labdb = [e \in Experiments |-> [bar |-> 0, acct |-> Account0, fills |-> <<>>, marks |-> <<>>]]
    /\ tested = [bars |-> {}, asked |-> {}]
    /\ stopped = [e \in Experiments |-> 0]

\* Time passes (not while a bar is written: nothing is waited for there);
\* where a bar closes, it closes somewhere.
Tick ==
    /\ paper.pc # "mark" /\ now < LastBar * BarTicks + BarTicks - 1 /\ now' = now + 1
    /\ IF (now + 1) % BarTicks = 0 THEN \E c \in Closes : closes' = Append(closes, c) ELSE UNCHANGED closes
    /\ tested' = [bars |-> {}, asked |-> {}]
    /\ UNCHANGED <<plan, cached, paper, labdb, labs, stopped>>

\* backtest: the candles of the last bars; one that fails saves nothing.
Backtest(span) ==
    LET from == Max({(now \div BarTicks) - span + 1, 1}) IN
    /\ labs < MaxLabs /\ labs' = labs + 1
    /\ cached' = cached \cup BarsSince(from)
    /\ tested' = [bars |-> BarsSince(from), asked |-> {b \in Closed : b >= from}]
    /\ UNCHANGED <<plan, now, closes, paper, labdb, stopped>>

----------------------------------------------------------------------------
(* run: --lab FILE *)

WarmupBars == Max({Warmup(plan[e]) : e \in Experiments})

\* Mutant of Seen: the bars a program that died had marked are marked again.
SeenNone(e, bars) == 0

\* A saved account goes on after its last bar; a new one acts on nothing that
\* closed before it.
Seen(e, bars) == IF labdb[e].bar > 0 THEN labdb[e].bar ELSE Max(bars \cup {0})

LabStart ==
    LET since == Max({(now \div BarTicks) - WarmupBars + 1, 1})
        bars == BarsSince(since)
    IN /\ paper.pc = "off" /\ labs < MaxLabs /\ labs' = labs + 1
       /\ cached' = cached \cup bars
       /\ paper' = [NoPaper EXCEPT !.pc = "loop", !.bars = SetToSortSeq(bars, <),
                                   !.seen = [e \in Experiments |-> Seen(e, bars)],
                                   !.acct = [e \in Experiments |-> labdb[e].acct]]
       /\ UNCHANGED <<plan, now, closes, labdb, tested, stopped>>

\* The bar closed `late` ago; a signal that old is not acted on.
OnTime(bar) == (now - bar * BarTicks) * 3 <= BarTicks

\* A turn of the loop that finds new bars: they are kept, and the book is
\* asked for while the newest is fresh (it may not answer).
Look ==
    LET newest == IF paper.bars = <<>> THEN 0 ELSE Last(paper.bars)
        fresh == History(newest + 1, now + 1)
        bars == paper.bars \o SetToSortSeq(fresh, <)
        marks == [e \in Experiments |-> SelectSeq(bars, LAMBDA b : b > paper.seen[e])]
    IN /\ paper.pc = "loop" /\ fresh # {}
       /\ cached' = cached \cup fresh
       /\ \E q \in {{}} \cup (IF OnTime(Last(bars)) THEN {{x} : x \in Quotes} ELSE {}) :
            paper' = [paper EXCEPT !.pc = "mark", !.bars = bars, !.quote = q, !.todo = marks]
       /\ UNCHANGED <<plan, now, closes, labdb, tested, labs, stopped>>

\* Mutant of Acts: a bar the machine slept through is acted on as well.
ActsOnAll(bar) == paper.quote # {}

\* Only the newest bar, and only with a book.
Acts(bar) == paper.quote # {} /\ bar = Last(paper.bars)

\* What a bar changes: the account it leaves and what was done on it.
Done(a, b, bar) ==
    [bar |-> bar, cash |-> b.cash - a.cash, sol |-> Sol(b) - Sol(a), newest |-> bar = Last(paper.bars)]

\* Mutant of RecordLabBar: the fills are written before the account.
RecordLabBarTorn(e, bar, a, b) ==
    \/ labdb' = [labdb EXCEPT ![e].bar = bar, ![e].acct = b, ![e].marks = Append(@, bar),
                              ![e].fills = IF Sol(a) = Sol(b) THEN @ ELSE Append(@, Done(a, b, bar))]
    \/ labdb' = [labdb EXCEPT ![e].marks = Append(@, bar),
                              ![e].fills = IF Sol(a) = Sol(b) THEN @ ELSE Append(@, Done(a, b, bar))]

\* record_lab_bar: the fills, the mark and the account, whole or not at all.
RecordLabBar(e, bar, a, b) ==
    labdb' = [labdb EXCEPT ![e].bar = bar, ![e].acct = b, ![e].marks = Append(@, bar),
                           ![e].fills = IF Sol(a) = Sol(b) THEN @ ELSE Append(@, Done(a, b, bar))]

\* One bar of one experiment; the experiments in the order of the file.
Mark(e) ==
    LET bar == Head(paper.todo[e])
        a == paper.acct[e]
        held == SelectSeq(paper.bars, LAMBDA x : x <= bar)
        cs == [i \in DOMAIN held |-> closes[held[i]]]
        last == Len(paper.todo[e]) = 1
    IN /\ paper.pc = "mark" /\ paper.todo[e] # <<>>
       /\ \A f \in Experiments : f < e => paper.todo[f] = <<>>
       /\ \E on \in IF plan[e].rule = "model" THEN Signal(plan[e], Len(cs), bar) ELSE {FALSE} :
            LET b == IF Acts(bar) THEN Step(plan[e], a, cs, bar, on, CHOOSE q \in paper.quote : TRUE) ELSE a IN
            /\ RecordLabBar(e, bar, a, b)
            /\ paper' = [paper EXCEPT !.acct[e] = b, !.todo[e] = Tail(@),
                                      !.seen[e] = IF last THEN Last(paper.bars) ELSE @]
       /\ stopped' = IF Acts(bar) /\ stopped[e] = 0 /\ TotalLoss > 0 /\ Equity(a, Last(cs)) <= Capital - TotalLoss
                      THEN [stopped EXCEPT ![e] = bar] ELSE stopped
       /\ UNCHANGED <<plan, now, closes, cached, tested, labs>>

\* The rules never look further back than their warm-up.
Marked ==
    LET keep == WarmupBars + 8
        n == Len(paper.bars)
    IN /\ paper.pc = "mark" /\ \A e \in Experiments : paper.todo[e] = <<>>
       /\ paper' = [paper EXCEPT !.pc = "loop", !.quote = {}, !.todo = <<>>,
                                 !.bars = IF n > keep * 2 THEN SubSeq(@, n - keep + 1, n) ELSE @]
       /\ UNCHANGED <<plan, now, closes, cached, labdb, tested, labs, stopped>>

\* Ctrl-C, the end of its time, an error of the database, or a crash.
LabStops ==
    /\ paper.pc # "off" /\ paper' = NoPaper
    /\ UNCHANGED <<plan, now, closes, cached, labdb, tested, labs, stopped>>

LabStep ==
    \/ Tick \/ LabStart \/ Look \/ Marked \/ LabStops
    \/ \E e \in Experiments : Mark(e)
    \/ \E s \in Spans : Backtest(s)

----------------------------------------------------------------------------
(* Properties *)

\* What is saved of an experiment's account is what its recorded fills make
\* of the capital, wherever the program was stopped (record_lab_bar: "One bar
\* of one experiment, whole or not at all").
AccountIsItsFills ==
    \A e \in Experiments :
        /\ labdb[e].acct.cash = FoldLeft(LAMBDA s, f : s + f.cash, Capital, labdb[e].fills)
        /\ Sol(labdb[e].acct) = FoldLeft(LAMBDA s, f : s + f.sol, 0, labdb[e].fills)

\* No bar is recorded twice for an experiment, over any number of starts
\* (seen, lab_state).
EachBarOnce ==
    \A e \in Experiments : \A i, j \in DOMAIN labdb[e].marks :
        i < j => labdb[e].marks[i] < labdb[e].marks[j]

\* A fill is made on the newest bar only, whatever the machine slept through
\* ("a bar the machine slept through, or no book: the account is marked,
\* nothing is done").
FillsAreOfTheNewest ==
    \A e \in Experiments : \A i \in DOMAIN labdb[e].fills : labdb[e].fills[i].newest

\* Once an experiment has been down by its total stop on a bar it acted on, it
\* never buys again, over any number of starts ("Down this much since the
\* start: nothing is bought again").
NeverBuysAgain ==
    \A e \in Experiments : \A i \in DOMAIN labdb[e].fills :
        stopped[e] > 0 /\ labdb[e].fills[i].bar >= stopped[e] => labdb[e].fills[i].sol < 0

\* The paper lab's account is what its rule did bar by bar, across deaths of
\* the program and bars it slept through (lab/mod.rs, record_lab_bar).
LabIsRight == AccountIsItsFills /\ EachBarOnce /\ FillsAreOfTheNewest /\ NeverBuysAgain

\* A backtest is of every bar of the days it was asked for ("The candles from
\* `from` on").
\* Does not hold: only the two ends of what the database has are asked for.
BacktestIsWhole == tested.asked \subseteq tested.bars
=============================================================================
