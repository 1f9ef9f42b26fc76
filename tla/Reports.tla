------------------------------ MODULE Reports ------------------------------
(***************************************************************************)
(* What the reports count, as operators: --report (storage/report.rs),     *)
(* --research-report (research/report.rs), the reports of                  *)
(* --research-liquidations (research/liquidation.rs) and --lab             *)
(* (lab/stats.rs), and the calendar between lab/stats.rs and lab/model.rs. *)
(*                                                                         *)
(* A value that may be missing is a set of at most one element.  Money and *)
(* basis points are whole numbers; rendering and intervals drawn at random *)
(* are left out.                                                           *)
(***************************************************************************)
EXTENDS Integers, Sequences, SequencesExt, FiniteSets, FiniteSetsExt

CONSTANTS Bands,    \* bounds of the waiting-time rows: last block of each but the open one
          SizeBands,\* bounds of the incentive rows: first dollar of each
          AgeBands  \* bounds of the quote-age rows: first millisecond of each

----------------------------------------------------------------------------
(* Order statistics *)

Sorted(s) == SortSeq(s, <)

UpDiv(a, b) == (a + b - 1) \div b

\* Mutant of Quantile: the rank is rounded down.
QuantileDown(s, p) ==
    IF s = <<>> THEN {} ELSE {Sorted(s)[Min({Max({(p * Len(s)) \div 100, 1}), Len(s)})]}

\* Dist::of, q: the nearest rank.
Quantile(s, p) ==
    IF s = <<>> THEN {} ELSE {Sorted(s)[Min({Max({UpDiv(p * Len(s), 100), 1}), Len(s)})]}

Dist(s) ==
    [n |-> Len(s), positive |-> Len(SelectSeq(s, LAMBDA x : x > 0)),
     q |-> [p \in {5, 25, 50, 75, 95} |-> Quantile(s, p)], max |-> Quantile(s, 100)]

\* liquidation::median and report::median_of: the lower of the middle two.
LowerMedian(s) == IF s = <<>> THEN {} ELSE {Sorted(s)[(Len(s) - 1) \div 2 + 1]}

\* storage::report::median: the upper.
UpperMedian(s) == IF s = <<>> THEN {} ELSE {Sorted(s)[Len(s) \div 2 + 1]}


SumOf(s) == FoldLeft(+, 0, s)

\* The numbers that are there, in order.
Values(s, F(_)) == FlattenSeq([i \in DOMAIN s |-> SetToSeq(F(s[i]))])

----------------------------------------------------------------------------
(* --research-liquidations: LiqReport *)

\* wait, usd and gas_usd: not known where a part of them is not.
Wait(e) == {e.block - Min({s, e.block}) : s \in e.since}
IncentiveUsd(e) == {i * p : i \in e.incentive, p \in e.loanUsd}
GasUsd(e) == {g * p : g \in e.gas, p \in e.ethUsd}

Valued(events) == SelectSeq(events, LAMBDA e : IncentiveUsd(e) # {})

\* Mutant of WaitRow: the open row starts at the bound.
WaitRowOpen(events, k) ==
    SelectSeq(events, LAMBDA e : \E w \in Wait(e) :
        /\ k = 1 \/ w > Bands[k - 1]
        /\ k = Len(Bands) + 1 \/ w < Bands[k])

\* The rows of `waited`, the last one open.
WaitRow(events, k) ==
    SelectSeq(events, LAMBDA e : \E w \in Wait(e) :
        /\ k = 1 \/ w > Bands[k - 1]
        /\ k = Len(Bands) + 1 \/ w <= Bands[k])

Unmeasured(events) == SelectSeq(events, LAMBDA e : Wait(e) = {})

SizeRow(events, k) ==
    SelectSeq(Valued(events), LAMBDA e : \E v \in IncentiveUsd(e) :
        v >= SizeBands[k] /\ (k = Len(SizeBands) \/ v < SizeBands[k + 1]))

NotValued(events) == SelectSeq(events, LAMBDA e : e.incentive # {} /\ e.loanUsd = {})

\* top_share: the liquidators, and what the k with the most events took.
TopShare(events, k) ==
    LET callers == {events[i].caller : i \in DOMAIN events}
        Of(c) == Len(SelectSeq(events, LAMBDA e : e.caller = c))
        order == SetToSortSeq(callers, LAMBDA a, b : Of(a) > Of(b))
    IN [callers |-> Cardinality(callers),
        taken |-> SumOf([i \in 1..Min({k, Len(order)}) |-> Of(order[i])])]

\* The callers by what they earned: events and dollars of the k that earned most.
TopByValue(events, k) ==
    LET callers == {events[i].caller : i \in DOMAIN events}
        Of(c) == SelectSeq(events, LAMBDA e : e.caller = c)
        Earned(c) == SumOf(Values(Of(c), IncentiveUsd))
        order == SetToSortSeq(callers, LAMBDA a, b : Earned(a) > Earned(b))
        best == 1..Min({k, Len(order)})
    IN [events |-> SumOf([i \in best |-> Len(Of(order[i]))]), usd |-> SumOf([i \in best |-> Earned(order[i])])]

\* For a slower liquidator: what events that waited long enough left after gas.
Slower(events, min) ==
    SelectSeq(Values(SelectSeq(Valued(events), LAMBDA e : \E w \in Wait(e) : w >= min),
                     LAMBDA e : {v - g : v \in IncentiveUsd(e), g \in GasUsd(e)}),
              LAMBDA n : n > 0)

LiqReport(events) ==
    [events |-> Len(events),
     waited |-> [k \in 1..(Len(Bands) + 1) |-> Len(WaitRow(events, k))],
     unmeasured |-> Len(Unmeasured(events)),
     sizes |-> [k \in DOMAIN SizeBands |-> Len(SizeRow(events, k))],
     notValued |-> Len(NotValued(events)),
     usd |-> Dist(Values(events, IncentiveUsd)),
     usdSum |-> SumOf(Values(events, IncentiveUsd)),
     bySize |-> [k \in DOMAIN SizeBands |-> TopShare(SizeRow(events, k), 3)],
     top |-> [k \in {1, 3, 5} |-> TopByValue(events, k)],
     middle |-> LowerMedian(Values(events, Wait)),
     slower |-> [m \in {2, 3} |-> Len(Slower(events, m))]]

----------------------------------------------------------------------------
(* --report: one session *)

PricedExcluded == {"NO_ROUTE", "BUILD_FAILED", "RATE_LIMITED"}
Executables == {"executable", "paper_filled", "landed", "submitted", "awaiting_confirm"}

PricedRows(rows) == SelectSeq(rows, LAMBDA r : r.skip \notin PricedExcluded)
ExecutableRows(rows) == SelectSeq(rows, LAMBDA r : r.status \in Executables)
Gaining(rows) == SelectSeq(rows, LAMBDA r : r.gross > 0)

RECURSIVE RunsFrom(_, _)
RunsFrom(rs, i) ==
    LET ends == {j \in i..Len(rs) : \A k \in i..j : rs[k].gross > 0}
        j == Max(ends)
    IN CASE i > Len(rs) -> <<>>
         [] i <= Len(rs) /\ ends = {} -> RunsFrom(rs, i + 1)
         [] OTHER -> <<[lower |-> rs[j].ts - rs[i].ts,
                        upper |-> IF j < Len(rs) THEN {rs[j + 1].ts - rs[i].ts} ELSE {}]>> \o RunsFrom(rs, j + 1)

\* Mutant of Lifetimes: a run that is still going is left out.
LifetimesEnded(rows, key) ==
    SelectSeq(RunsFrom(SelectSeq(PricedRows(rows), LAMBDA r : r.key = key), 1), LAMBDA l : l.upper # {})

\* The times a route stayed above water: the evaluations of its key, in order.
Lifetimes(rows, key) == RunsFrom(SelectSeq(PricedRows(rows), LAMBDA r : r.key = key), 1)

StrategyStats(rows, name) ==
    LET mine == SelectSeq(rows, LAMBDA r : r.strategy = name)
    IN [scanned |-> Len(mine), priced |-> Len(PricedRows(mine)), gross |-> Len(Gaining(PricedRows(mine))),
        executable |-> Len(ExecutableRows(mine)),
        net |-> SumOf([i \in DOMAIN ExecutableRows(mine) |-> ExecutableRows(mine)[i].net])]

SessionReport(rows) ==
    [scanned |-> Len(rows), priced |-> Len(PricedRows(rows)), gross |-> Len(Gaining(PricedRows(rows))),
     executable |-> Len(ExecutableRows(rows)),
     net |-> SumOf([i \in DOMAIN ExecutableRows(rows) |-> ExecutableRows(rows)[i].net]),
     skips |-> [k \in {rows[i].skip : i \in DOMAIN rows} \ {"none"} |-> Len(SelectSeq(rows, LAMBDA r : r.skip = k))],
     median |-> UpperMedian([i \in DOMAIN PricedRows(rows) |-> PricedRows(rows)[i].gross]),
     lifetimes |-> [k \in {rows[i].key : i \in DOMAIN rows} |-> Lifetimes(rows, k)],
     strategies |-> [s \in {rows[i].strategy : i \in DOMAIN rows} |-> StrategyStats(rows, s)]]

\* aging: the legs whose quote was this old.
AgingRow(legs, k) ==
    SelectSeq(legs, LAMBDA l : l.age >= AgeBands[k] /\ (k = Len(AgeBands) \/ l.age < AgeBands[k + 1]))

\* attribution: first legs of more than one, and those that came short.
FirstLegs(sims) ==
    LET checked == SelectSeq(sims, LAMBDA s : Len(s.quoted) >= 2 /\ s.actual # <<>> /\ s.quoted[1] > 0)
        short == SelectSeq(checked, LAMBDA s : s.actual[1] < s.quoted[1])
    IN [checked |-> Len(checked), short |-> Len(short), failed |-> Len(SelectSeq(short, LAMBDA s : ~s.ok))]

WalletValue(s) == s.sol * s.px + s.usdc

\* Mutant of Ledger: a deposit counts as an expense.
LedgerSpent(snaps, trades, deposits) ==
    LET first == Head(snaps)
        last == Last(snaps)
    IN [unexplained |-> WalletValue(last) - WalletValue(first) - trades - first.sol * (last.px - first.px)]

\* ledger: the change of the wallet's value and what explains it.
Ledger(snaps, trades, deposits) ==
    LET first == Head(snaps)
        last == Last(snaps)
        locked == deposits * last.px
        revalued == first.sol * (last.px - first.px)
    IN [start |-> WalletValue(first), end |-> WalletValue(last), trades |-> trades, locked |-> locked,
        revalued |-> revalued,
        unexplained |-> WalletValue(last) - WalletValue(first) - trades + locked - revalued]

----------------------------------------------------------------------------
(* --research-report *)

\* lag: the episodes of a kind on a pool, and of the kind on all of them.
EpisodeStats(eps) ==
    [n |-> Len(eps), quoted |-> Len(SelectSeq(eps, LAMBDA e : e.gap # {})),
     errors |-> Len(SelectSeq(eps, LAMBDA e : e.err)), after |-> Dist(Values(eps, LAMBDA e : e.gap))]

Group(eps, kind, dexes) == SelectSeq(eps, LAMBDA e : e.kind = kind /\ e.dex \in dexes)

\* ladder: a row without a result is an error of its size.
LadderOf(rows, size) ==
    LET mine == SelectSeq(rows, LAMBDA r : r.size = size)
    IN [gross |-> Dist(Values(mine, LAMBDA r : r.gross)), errors |-> Len(SelectSeq(mine, LAMBDA r : r.gross = {}))]

\* xchain: counted where both directions are known.
XchainOf(rows) ==
    LET both == SelectSeq(rows, LAMBDA r : r.a # {} /\ r.b # {})
    IN [a |-> Dist(Values(both, LAMBDA r : r.a)), b |-> Dist(Values(both, LAMBDA r : r.b)),
        errors |-> Len(rows) - Len(both)]

\* lag_scale: the sizes an episode was quoted at, its own first.
ScaleSizes(eps, scale) ==
    LET ids == {scale[i].episode : i \in DOMAIN scale}
        own == SelectSeq(eps, LAMBDA e : e.id \in ids /\ e.kind = "trigger")
    IN [i \in DOMAIN own |-> own[i].size] \o [i \in DOMAIN scale |-> scale[i].size]

----------------------------------------------------------------------------
(* --lab-report *)

\* stats: the deepest fall below a peak so far, as <<equity, peak>>.
MaxFall(capital, points) ==
    LET Peak(i) == Max({capital} \cup {points[k].equity : k \in 1..i})
        Deeper(a, b) == IF b[1] * a[2] < a[1] * b[2] THEN b ELSE a
    IN FoldLeft(LAMBDA worst, i : Deeper(worst, <<points[i].equity, Peak(i)>>), <<1, 1>>,
                [i \in DOMAIN points |-> i])

\* The last points of each month (month: that of each point), and the equity
\* each month starts from.
Months(capital, points, month) ==
    LET lasts == SelectSeq([i \in DOMAIN points |-> i],
                           LAMBDA i : i = Len(points) \/ month[i + 1] # month[i])
    IN [k \in DOMAIN lasts |->
           [month |-> month[lasts[k]], end |-> points[lasts[k]].equity,
            start |-> IF k = 1 THEN capital ELSE points[lasts[k - 1]].equity]]

----------------------------------------------------------------------------
(* The shadow maker (research/maker.rs): prices by bin, time in seconds *)

\* Where the pool was against the exchange when the order went in.
When(s) == {IF s.active < m THEN "below" ELSE IF s.active > m THEN "above" ELSE "line" : m \in s.mid}

\* A pair of orders goes in at the first snapshot with an exchange price, and
\* again every so often.
Placed(v, every) ==
    FoldLeft(LAMBDA at, i : IF v[i].mid # {} /\ (at = <<>> \/ v[i].ts - v[Last(at)].ts >= every)
                            THEN Append(at, i) ELSE at,
             <<>>, [i \in DOMAIN v |-> i])

\* The first snapshot within the horizon at which the price has gone through
\* the whole bin.
FillOf(v, i, sign, distance, horizon) ==
    LET through == {j \in (i + 1)..Len(v) : /\ v[j].ts - v[i].ts <= horizon
                                            /\ sign * (v[j].active - v[i].active) > distance}
    IN IF through = {} THEN {} ELSE {Min(through)}

\* The exchange price so long after a fill, unless it came much later.
Markout(v, j, after, late) ==
    LET at == {k \in j..Len(v) : v[k].ts - v[j].ts >= after}
    IN IF at = {} \/ v[Min(at)].ts - v[j].ts > after + late THEN {} ELSE v[Min(at)].mid

\* orders: of one series of snapshots, by side and where the pool was.
MakerOrders(v, c) ==
    LET at == Placed(v, c.every)
    IN [k \in {-1, 1} \X {"always", "below", "line", "above"} |->
           LET mine == SelectSeq(at, LAMBDA i : k[2] = "always" \/ k[2] \in When(v[i]))
               fills == FlattenSeq([n \in DOMAIN mine |-> SetToSeq(FillOf(v, mine[n], k[1], c.distance, c.horizon))])
           IN [placed |-> Len(mine), filled |-> Len(fills),
               marks |-> Len(FlattenSeq([n \in DOMAIN fills |-> SetToSeq(Markout(v, fills[n], c.after, c.late))]))]]

\* Mutant of SeriesOf: a pool's snapshots are one series over its runs.
SeriesOfPool(snaps) == [k \in {"all"} |-> snaps]

\* maker::build: one series for each run (the rows arrive by run and time).
SeriesOf(snaps) ==
    [k \in {snaps[i].run : i \in DOMAIN snaps} |-> SelectSeq(snaps, LAMBDA s : s.run = k)]

MakerReport(snaps, c) ==
    LET of == SeriesOf(snaps)
        orders == [k \in DOMAIN of |-> MakerOrders(of[k], c)]
        Sum(key, f) == MapThenSumSet(LAMBDA k : orders[k][key][f], DOMAIN of)
    IN [key \in {-1, 1} \X {"always", "below", "line", "above"} |->
           [placed |-> Sum(key, "placed"), filled |-> Sum(key, "filled"), marks |-> Sum(key, "marks")]]

----------------------------------------------------------------------------
(* The calendar, in days since 1970 *)

\* ymd
Ymd(day) ==
    LET z == day + 719468
        era == z \div 146097
        doe == z % 146097
        yoe == (doe - doe \div 1460 + doe \div 36524 - doe \div 146096) \div 365
        doy == doe - (365 * yoe + yoe \div 4 - yoe \div 100)
        mp == (5 * doy + 2) \div 153
        m == IF mp < 10 THEN mp + 3 ELSE mp - 9
    IN <<yoe + era * 400 + (IF m <= 2 THEN 1 ELSE 0), m, doy - (153 * mp + 2) \div 5 + 1>>

\* Mutant of UnseenFrom: January and February belong to their own year.
UnseenFromJanuary(date) ==
    LET y == date[1]
        m == date[2]
        yoe == y % 400
        doy == (153 * (IF m > 2 THEN m - 3 ELSE m + 9) + 2) \div 5 + date[3] - 1
        doe == yoe * 365 + yoe \div 4 - yoe \div 100 + doy
    IN (y \div 400) * 146097 + doe - 719468

\* Model::unseen_from, where the file says the day only.
UnseenFrom(date) ==
    LET m == date[2]
        y == IF m <= 2 THEN date[1] - 1 ELSE date[1]
        yoe == y % 400
        doy == (153 * (IF m > 2 THEN m - 3 ELSE m + 9) + 2) \div 5 + date[3] - 1
        doe == yoe * 365 + yoe \div 4 - yoe \div 100 + doy
    IN (y \div 400) * 146097 + doe - 719468
=============================================================================
