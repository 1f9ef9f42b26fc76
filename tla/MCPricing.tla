----------------------------- MODULE MCPricing ------------------------------
(***************************************************************************)
(* The numbers of the program on small instances: Scan goes round with     *)
(* three strategies, and before its first pick questions are put to the    *)
(* pool arithmetic of Amm, to the counting of Reports, and to Venues,      *)
(* Assemble and Answers (MCVenues).                                        *)
(***************************************************************************)
EXTENDS Scan, Amm, Reports, MCVenues, Exchange

VARIABLE world  \* which part is explored

MCSkews == {0, 3}

MCHalfTickPowers == <<3413, 2844, 1975>>

MCBands == <<0, 1, 3>>
MCSizeBands == <<0, 10>>
MCAgeBands == <<0, 2>>

MCStrategies ==
    <<[kind |-> "round_trip", weight |-> 1, tokens |-> <<"SOL", "USDC">>, dexes |-> <<>>],
      [kind |-> "cross_dex", weight |-> 2, tokens |-> <<"SOL", "USDC">>, dexes |-> <<"Orca", "Raydium">>],
      [kind |-> "triangular", weight |-> 1, tokens |-> <<"SOL", "USDC", "JUP">>, dexes |-> <<>>],
      [kind |-> "triangular", weight |-> 0, tokens |-> <<"SOL", "USDC">>, dexes |-> <<>>]>>

MCCostParams ==
    [cuMargin |-> 20, cuPerLeg |-> 3, maxCuPrice |-> 2, share |-> 25, buffer |-> 1, bufferPpm |-> 1,
     rent |-> 2, maxDeposit |-> 1]

MCGuards == {[lamports |-> 0, edge |-> 0, usd |-> 0], [lamports |-> 3, edge |-> 5, usd |-> 4]}

MCTipPolicies ==
    {[kind |-> "percentile", fixed |-> 2, share |-> 0, min |-> 1, max |-> 4],
     [kind |-> "profit_share", fixed |-> 0, share |-> 50, min |-> 1, max |-> 9]}

MCQuotes ==
    {[num |-> 3, den |-> 2, bps |-> 7, up |-> TRUE, cuPrice |-> 1],
     [num |-> 7, den |-> 9, bps |-> 13, up |-> FALSE, cuPrice |-> 3]}

----------------------------------------------------------------------------
(* Questions to the pools *)

\* Positions of liquidity, and the pool they make at a price.
Positions == {[lower |-> -4, upper |-> 3, l |-> 9], [lower |-> -1, upper |-> 1, l |-> 30],
              [lower |-> 1, upper |-> 2, l |-> 20], [lower |-> -5, upper |-> -1, l |-> 7]}

ClmmPool(positions, sp, fee) ==
    LET tick == TickAtSqrtPrice(sp)
        Net(i) == FoldSet(LAMBDA p, n : n + (IF p.lower = i THEN p.l ELSE 0) - (IF p.upper = i THEN p.l ELSE 0),
                          0, positions)
        Live(i) == \E p \in positions : i \in {p.lower, p.upper}
        at == SelectSeq([k \in 1..13 |-> k - 7], Live)
    IN  [sp |-> sp, tick |-> tick, fee |-> fee, lo |-> -6, hi |-> 6,
         liquidity |-> FoldSet(LAMBDA p, n : n + IF p.lower <= tick /\ tick < p.upper THEN p.l ELSE 0, 0, positions),
         ticks |-> [k \in DOMAIN at |-> [index |-> at[k], net |-> Net(at[k])]]]

DlmmPool(active, vol) ==
    [active |-> active, binStep |-> 1, baseFee |-> 1, varControl |-> 1, maxVol |-> 25,
     vol |-> vol, volRef |-> 10, indexRef |-> 0, filter |-> 1, decay |-> 2, reduction |-> 5,
     bins |-> [id \in -3..3 |-> [x |-> IF id >= active THEN 5 + id ELSE 0,
                                 y |-> IF id <= active THEN 9 - id ELSE 0,
                                 price |-> SqrtPriceAtTick(id)]]]

Less(amount) == IF amount = 0 THEN 0 ELSE amount - 1
AllArrays == {-6, -4, -2, 0, 2, 4}
ClmmAnswer(p, aToB, amount) == IF p = None THEN None ELSE ClmmSwap(p, aToB, amount)
DlmmAnswer(p, aToB, amount, elapsed) == IF p = None THEN None ELSE DlmmSwap(p, aToB, amount, elapsed)

AskClmm ==
    \E positions \in (SUBSET Positions) \ {{}}, sp \in {40, 58, 63, 66, 80, 100}, fee \in {0, 1},
       exists \in {AllArrays, {-2, 0}, {-4, 0, 2}}, aToB \in BOOLEAN, amount \in {0, 1, 3, 8, 9, 20} :
        LET p == ClmmPool(positions, sp, fee)
        IN  question' = [kind |-> "clmm", spot |-> sp * sp, aToB |-> aToB, amount |-> amount,
                         less |-> ClmmSwap(p, aToB, Less(amount)),
                         whole |-> ClmmSwap(p, aToB, amount), more |-> ClmmSwap(p, aToB, amount + 1),
                         known |-> ClmmAnswer(DecodeClmm(p, exists), aToB, amount)]

AskDlmm ==
    \E active \in {-1, 0, 2}, vol \in {0, 20}, exists \in {AllArrays, {-2, 0}, {-4, 0, 2}},
       aToB \in BOOLEAN, amount \in 0..30, elapsed \in 0..2 :
        LET p == DlmmPool(active, vol)
        IN  question' = [kind |-> "dlmm", spot |-> Half * p.bins[active].price, aToB |-> aToB,
                         amount |-> amount, less |-> DlmmSwap(p, aToB, Less(amount), elapsed),
                         whole |-> DlmmSwap(p, aToB, amount, elapsed),
                         more |-> DlmmSwap(p, aToB, amount + 1, elapsed),
                         known |-> DlmmAnswer(DecodeDlmm(p, exists), aToB, amount, elapsed)]

Wide == {0, 1, 2, 63, 64, 65, 1000, 2048, 4032, 4095}

AskWide ==
    \E a, b \in Wide, d \in Wide \ {0} :
        question' = [kind |-> "wide", a |-> a, b |-> b, d |-> d, product |-> WideMul(a, b),
                     quotient |-> DivRem(WideMul(a, b), d)]

AskTick == \E tick \in -6..6 : question' = [kind |-> "tick", tick |-> tick]

----------------------------------------------------------------------------
(* Questions to the reports *)

UpTo(S, n) == UNION {[1..k -> S] : k \in 0..n}

\* Liquidations that waited, did not, were not measured or not valued.
Event(caller, since, loanUsd) ==
    [caller |-> caller, block |-> 9, since |-> since, incentive |-> {3}, loanUsd |-> loanUsd, gas |-> {1}, ethUsd |-> {2}]
Events == {Event("x", {9}, {1}), Event("x", {8}, {4}), Event("y", {7}, {}), Event("y", {6}, {9}),
           Event("z", {1}, {1}), Event("z", {}, {2})}
AskEvents == \E events \in UpTo(Events, 3) : question' = [kind |-> "events", events |-> events]

Cycle(strategy, key, skip, gross, status) ==
    [strategy |-> strategy, key |-> key, skip |-> skip, gross |-> gross, net |-> gross - 1, status |-> status]
Cycles == {Cycle("s", "k", "none", 2, "landed"), Cycle("s", "k", "EDGE_TOO_SMALL", -1, "skipped"),
           Cycle("t", "k", "NO_ROUTE", 0, "skipped"), Cycle("t", "l", "none", 1, "failed"),
           Cycle("s", "l", "none", 3, "executable")}
At(row, i) == [ts |-> 2 * i, strategy |-> row.strategy, key |-> row.key, skip |-> row.skip, gross |-> row.gross,
               net |-> row.net, status |-> row.status]
AskSession ==
    \E rows \in UpTo(Cycles, 4) : question' = [kind |-> "session", rows |-> [i \in DOMAIN rows |-> At(rows[i], i)]]

AskDist == \E s \in UpTo({-1, 0, 2, 5}, 4) \cup {[i \in 1..40 |-> (i * 7) % 40]} : question' = [kind |-> "dist", s |-> s]

\* Around leap days and the turns of years and centuries.
AskDate == \E day \in (0..800) \cup (10950..11020) \cup (20500..20520) \cup (47450..47550) \cup (-800..-700) :
              question' = [kind |-> "date", day |-> day]

\* Episodes of two pools, and the bigger sizes some were quoted at.
Ep(kind, dex, gap, err) == [kind |-> kind, dex |-> dex, gap |-> gap, err |-> err]
Eps == {Ep("trigger", "o", {2}, FALSE), Ep("trigger", "r", {-1}, FALSE), Ep("control", "o", {}, TRUE)}
AskEpisodes == \E eps \in UpTo(Eps, 3) : question' = [kind |-> "episodes", eps |-> eps]

\* Rows of the ladder and of xchain, bigger sizes of episodes, legs by the age
\* of their quote, and simulated routes.
Wide2(id, size) == [episode |-> id, size |-> size]
AskRows ==
    \E ladder \in UpTo({[size |-> 1, gross |-> {4}], [size |-> 1, gross |-> {}], [size |-> 2, gross |-> {-1}]}, 2),
       xchain \in UpTo({[a |-> {1}, b |-> {2}], [a |-> {1}, b |-> {}]}, 2),
       scale \in UpTo({Wide2(1, 5), Wide2(1, 9), Wide2(2, 5)}, 2),
       ages \in UpTo({0, 1, 2, 7}, 2), actual \in {<<>>, <<3>>, <<5, 2>>}, ok \in BOOLEAN :
        question' = [kind |-> "rows", ladder |-> ladder, xchain |-> xchain, scale |-> scale,
                     legs |-> [i \in DOMAIN ages |-> [age |-> ages[i]]],
                     sims |-> <<[quoted |-> <<4, 9>>, actual |-> actual, ok |-> ok],
                                [quoted |-> <<4>>, actual |-> <<2>>, ok |-> FALSE]>>]

\* Marks of an account over two months of two bars, and a wallet.
AskPoints == \E equity \in UpTo({2, 3, 6}, 4) :
    question' = [kind |-> "points", points |-> [i \in DOMAIN equity |-> [ts |-> i + 1, equity |-> equity[i]]]]
AskWallet == \E sol \in 1..2, px \in 1..3, later \in 1..3, trades \in -1..2, deposits \in 0..1 :
    question' = [kind |-> "wallet", trades |-> trades, deposits |-> deposits,
                 snaps |-> <<[sol |-> sol, usdc |-> 2, px |-> px],
                             [sol |-> sol - deposits, usdc |-> 2 + trades, px |-> later]>>]

\* Snapshots of one pool in two runs.
Snap(run, active, mid) == [run |-> run, active |-> active, mid |-> mid]
MakerConstants == [every |-> 2, distance |-> 1, horizon |-> 3, after |-> 1, late |-> 1]
Timed(v) == [i \in DOMAIN v |-> [run |-> v[i].run, active |-> v[i].active, mid |-> v[i].mid, ts |-> i]]
AskMaker == \E a \in UpTo({Snap(1, 0, {1}), Snap(1, 2, {}), Snap(1, 4, {3})}, 3),
               b \in UpTo({Snap(2, 0, {0}), Snap(2, 3, {3})}, 3) :
    question' = [kind |-> "maker", snaps |-> Timed(a \o b), first |-> Timed(a)]

Ask == /\ world = "numbers" /\ question = NoQuestion /\ opp = NoOpp /\ Picked = 0
       /\ \/ AskClmm \/ AskDlmm \/ AskWide \/ AskTick
          \/ AskEvents \/ AskSession \/ AskDist \/ AskDate \/ AskEpisodes \/ AskPoints \/ AskWallet \/ AskRows
          \/ AskMaker \/ AskOrder \/ AskStatus \/ AskFill \/ AskGrid \/ AskQuote \/ AskLegs \/ AskAnswer \/ AskParse
       /\ UNCHANGED <<vars, exVars>>

Open(demo) == [trading |-> TRUE, demo |-> demo, sends |-> TRUE, live |-> TRUE]

\* Orders and swaps have nothing in common but their gates: one is explored at a
\* time, with what the other depends on at one value.
MCInit == /\ Init /\ ExInit /\ question = NoQuestion /\ world \in {"numbers", "orders", "swaps"}
          /\ world # "orders" => client.kind = "okx" /\ client.demo
          /\ world = "swaps" => gates \in {Open(FALSE), Open(TRUE), [Open(FALSE) EXCEPT !.live = FALSE]}
          /\ skew = 0
          /\ world = "numbers" => gates = Open(TRUE)
MCNext == /\ \/ Ask
             \/ world = "numbers" /\ question = NoQuestion /\ Next /\ UNCHANGED <<question, exVars>>
             \/ world = "orders" /\ (Tick \/ (gates = Open(client.demo) /\ ClockDrift) \/ Sync \/ Request) /\ UNCHANGED <<chain, swap, question, vars>>
             \/ world = "swaps" /\ SwapStep /\ UNCHANGED <<clientVars, question, vars>>
             \/ (clock = MaxClock \/ chain.block = MaxBlocks) /\ UNCHANGED <<question, vars, exVars>>
             \/ question # NoQuestion /\ question' = NoQuestion /\ UNCHANGED <<vars, exVars>>
          /\ UNCHANGED world
MCSpec == MCInit /\ [][MCNext]_<<vars, exVars, question, world>>

----------------------------------------------------------------------------
(* Properties *)

\* What a pool pays is known or not known, but never guessed: with some of its
\* arrays missing a swap returns nothing, or what it returns with all of them
\* up to the rounding of one unit of input at the edge of what is known, and
\* never more (run, decode, with_arrays, Clmm::swap, Dlmm::swap).
KnownAnswersAreRight ==
    question # NoQuestion =>
        (question.kind \in {"clmm", "dlmm"} /\ question.known # None =>
            /\ question.whole # None /\ question.known.out <= question.whole.out
            /\ question.less # None /\ question.less.out <= question.known.out)

\* No swap beats the price it starts at, and none pays less for more, whatever
\* was rounded in its stretches and bins (step, price_after, Dlmm::swap).
SwapsAreFair ==
    question # NoQuestion /\ question.kind \in {"clmm", "dlmm"} =>
        LET q == question one == Half * Half
        IN  /\ q.whole # None =>
                  IF q.aToB THEN q.whole.out * one <= q.amount * q.spot
                  ELSE q.whole.out * q.spot <= q.amount * one
            /\ q.whole # None /\ q.more # None => q.whole.out <= q.more.out

\* The hand-written 256-bit product and long division are exact, and a price
\* belongs to the tick it was made from (U256::mul, div_rem, tick_at_sqrt_price).
WideIsExact ==
    question # NoQuestion =>
        LET q == question
        IN  /\ q.kind = "wide" =>
                  /\ q.product.hi * Word + q.product.lo = q.a * q.b
                  /\ q.quotient.hi * Word + q.quotient.lo = (q.a * q.b) \div q.d
                  /\ q.quotient.rem = (q.a * q.b) % q.d
            /\ q.kind = "tick" => TickAtSqrtPrice(SqrtPriceAtTick(q.tick)) = q.tick

SumOver(f) == FoldSet(LAMBDA k, n : n + f[k], 0, DOMAIN f)

\* A report counts every row once: each liquidation in one row by its wait and
\* one by its size, and what the strategies and the skips of a session count is
\* what the session counts (build, SessionReport, "Every evaluated cycle
\* counts").
ReportsAddUp ==
    question # NoQuestion =>
        /\ question.kind = "events" =>
              LET r == LiqReport(question.events)
              IN  /\ SumOver(r.waited) + r.unmeasured = r.events
                  /\ SumOver(r.sizes) = r.usd.n /\ r.usd.n + r.notValued = r.events
                  /\ r.top[5].events = r.events /\ r.top[5].usd = r.usdSum
                  /\ \A k \in DOMAIN r.sizes : r.bySize[k].taken = r.sizes[k]
        /\ question.kind = "session" =>
              LET r == SessionReport(question.rows)
                  Of(field) == [s \in DOMAIN r.strategies |-> r.strategies[s][field]]
              IN  /\ SumOver(r.skips) + Len(SelectSeq(question.rows, LAMBDA q : q.skip = "none")) = r.scanned
                  /\ \A f \in {"scanned", "priced", "gross", "executable", "net"} : SumOver(Of(f)) = r[f]

\* The parts of a result make up the whole of it: the pools' episodes those of
\* their kind, the months of a lab account its result from the capital on, and
\* the wallet's trades, deposits and prices its change of value (lag, stats,
\* ledger: "What none of the above explains (should be ~0...)").
PartsMakeTheWhole ==
    question # NoQuestion =>
        /\ question.kind = "episodes" => \A kind \in {"trigger", "control"} :
              LET Of(d) == EpisodeStats(Group(question.eps, kind, d))
              IN  /\ Of({"o"}).n + Of({"r"}).n = Of({"o", "r"}).n
                  /\ Of({"o", "r"}).quoted + Of({"o", "r"}).errors = Of({"o", "r"}).n
        /\ question.kind = "points" =>
              LET months == Months(6, question.points, [i \in DOMAIN question.points |-> question.points[i].ts \div 2])
                  fall == MaxFall(6, question.points)
              IN  /\ \A k \in DOMAIN months : months[k].start = IF k = 1 THEN 6 ELSE months[k - 1].end
                  /\ question.points # <<>> => Last(months).end = Last(question.points).equity
                  /\ \A i \in DOMAIN question.points : fall[1] * 6 <= question.points[i].equity * fall[2]
        /\ question.kind = "rows" =>
              LET eps == [i \in 1..3 |-> [id |-> i, kind |-> IF i = 2 THEN "control" ELSE "trigger", size |-> 1]]
                  sizes == ScaleSizes(eps, question.scale)
                  Size(k) == LadderOf(question.ladder, k)
                  first == FirstLegs(question.sims)
              IN  /\ Size(1).gross.n + Size(1).errors + Size(2).gross.n + Size(2).errors = Len(question.ladder)
                  /\ XchainOf(question.xchain).a.n + XchainOf(question.xchain).errors = Len(question.xchain)
                  /\ Len(SelectSeq(sizes, LAMBDA z : z = 1)) <= Len(SelectSeq(sizes, LAMBDA z : z # 1))
                  /\ Len(AgingRow(question.legs, 1)) + Len(AgingRow(question.legs, 2)) = Len(question.legs)
                  /\ first.failed <= first.short /\ first.short <= first.checked /\ first.checked <= 1
        /\ question.kind = "wallet" =>
              Ledger(question.snaps, question.trades, question.deposits).unexplained = 0

\* An order that one run of --research-pools imagines is filled and marked by
\* the snapshots of that run only, and counted once by where the pool was
\* (maker::build: "one series at a time").
OrdersStayInTheirRun ==
    question # NoQuestion /\ question.kind = "maker" =>
        LET whole == MakerReport(question.snaps, MakerConstants)
            first == MakerReport(question.first, MakerConstants)
            rest == MakerReport(SelectSeq(question.snaps, LAMBDA s : s.run = 2), MakerConstants)
        IN \A side \in {-1, 1}, f \in {"placed", "filled", "marks"} :
              /\ whole[<<side, "always">>][f] = first[<<side, "always">>][f] + rest[<<side, "always">>][f]
              /\ whole[<<side, "always">>][f] =
                    whole[<<side, "below">>][f] + whole[<<side, "line">>][f] + whole[<<side, "above">>][f]

\* A route's time above water is one for each unbroken run of its evaluations
\* that gained, no shorter than the run and ended by the first that did not
\* (the loop over by_key in storage::report::build).
LifetimesAreRuns ==
    question # NoQuestion /\ question.kind = "session" =>
        \A key \in {"k", "l"} :
            LET rs == SelectSeq(PricedRows(question.rows), LAMBDA r : r.key = key)
                starts == {i \in DOMAIN rs : rs[i].gross > 0 /\ (i = 1 \/ rs[i - 1].gross <= 0)}
                first == SetToSortSeq(starts, <)
                life == Lifetimes(question.rows, key)
            IN  /\ Len(life) = Cardinality(starts)
                /\ \A n \in DOMAIN life :
                      LET after == {i \in DOMAIN rs : i > first[n] /\ rs[i].gross <= 0}
                          end == IF after = {} THEN {} ELSE {rs[Min(after)].ts - rs[first[n]].ts}
                      IN life[n].upper = end /\ \A u \in end : life[n].lower < u

\* A quantile is the smallest of the values that so many per cent do not
\* exceed, for any number of values (Dist::of).
QuantilesAreRanks ==
    question # NoQuestion /\ question.kind = "dist" =>
        \A p \in {5, 25, 50, 75, 95} : \A v \in Quantile(question.s, p) :
            LET n == Len(question.s)
                Upto(x) == Len(SelectSeq(question.s, LAMBDA y : y <= x))
                Below(x) == Len(SelectSeq(question.s, LAMBDA y : y < x))
            IN Upto(v) * 100 >= p * n /\ Below(v) * 100 < p * n

\* The day a model's file names is the day the bars are counted in: the two
\* hand-written calendars are each other's inverse (ymd, unseen_from).
DatesRoundTrip ==
    question # NoQuestion /\ question.kind = "date" =>
        /\ UnseenFrom(Ymd(question.day)) = question.day
        /\ Ymd(question.day)[2] \in 1..12 /\ Ymd(question.day)[3] \in 1..31

\* A price is never better than what the program will get: shares of the
\* budget are even, a protected fill pays everything back, a pool's answer is
\* right or absent, and the wide arithmetic under it is exact (Scheduler,
\* pricing.rs and the AMM mathematics).
PricesAreRight ==
    SharesAreEven /\ ProtectedFillIsCovered /\ KnownAnswersAreRight /\ SwapsAreFair /\ WideIsExact

\* A report says what its rows say: every row counted once, parts that make up
\* the whole, and no run mixed with another (the reports of storage, research
\* and lab, with the order statistics and the calendar they use).
ReportsAreRight ==
    /\ ReportsAddUp /\ PartsMakeTheWhole /\ OrdersStayInTheirRun
    /\ LifetimesAreRuns /\ QuantilesAreRanks /\ DatesRoundTrip

\* What goes out and comes back keeps its meaning: orders, order books, the
\* legs of a transaction and the answers of the services (the venues' clients,
\* compare, assemble, the RPC, Jito and Jupiter clients).
AnswersAreRight ==
    OrdersMeanWhatTheySay /\ PricesAreOnesOneCouldGet /\ LegsRunAsQuoted /\ NoAnswerIsMisread
=============================================================================
