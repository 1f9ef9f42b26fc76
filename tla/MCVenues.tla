------------------------------ MODULE MCVenues ------------------------------
(***************************************************************************)
(* Questions to Venues, Assemble and Answers for MCPricing's run, and the  *)
(* properties of what they answer.                                         *)
(***************************************************************************)
EXTENDS Venues, Assemble, Answers, FiniteSetsExt

CONSTANT NoQuestion

VARIABLE question

----------------------------------------------------------------------------
(* Venues *)

AskOrder ==
    \E side \in {"buy", "sell"}, kind \in {"market", "limit", "ioc", "post_only"}, price \in {{}, {7}} :
        LET o == [side |-> side, kind |-> kind, size |-> 4, price |-> price, id |-> "c"]
        IN  question' = [kind |-> "order", order |-> o, okx |-> OkxOrder(o), binance |-> BinanceOrder(o)]

\* External: the order each exchange makes of these words.
OkxMeans(f) ==
    [side |-> f.side, kind |-> f.ordType, size |-> f.sz, unit |-> IF f.ordType = "market" THEN f.tgtCcy ELSE {"base_ccy"},
     price |-> f.px]
BinanceMeans(f) ==
    [side |-> IF f.side = "BUY" THEN "buy" ELSE "sell", size |-> f.quantity, unit |-> {"base_ccy"}, price |-> f.price,
     kind |-> CASE f.type = "MARKET" -> "market" [] f.type = "LIMIT_MAKER" -> "post_only"
                [] f.timeInForce = {"IOC"} -> "ioc" [] OTHER -> "limit"]

\* External: the words after which an order of the exchange never fills again.
OkxFinal == {"filled", "canceled", "mmp_canceled"}
BinanceFinal == {"FILLED", "CANCELED", "EXPIRED", "EXPIRED_IN_MATCH", "REJECTED"}

AskStatus ==
    \E s \in DOMAIN OkxStates, b \in DOMAIN BinanceStates, paid \in 0..2, sCode \in {"", "0", "51008"}, data \in BOOLEAN :
        question' = [kind |-> "status", final |-> <<s \in OkxFinal, b \in BinanceFinal>>, sCode |-> sCode, paid |-> paid,
                     okx |-> OkxStatus([state |-> s, filled |-> 2, avg |-> 3, fee |-> -2 * paid]),
                     binance |-> BinanceStatus([state |-> b, filled |-> 2, quote |-> 6, commissions |-> <<paid, paid>>]),
                     ack |-> OkxAck([code |-> IF sCode = "51008" THEN 1 ELSE 0, data |-> IF data THEN {[sCode |-> sCode]} ELSE {}])]

Levels(pxs, szs, ok) == [i \in DOMAIN pxs |-> [px |-> pxs[i], sz |-> szs[i], ok |-> ok[i]]]
BookOf(a, b, ok) == OkxBook([asks |-> Levels(<<5, 6, 8>>, a, ok), bids |-> Levels(<<4, 2, 1>>, b, ok), ts |-> 1])
Szs == [1..3 -> 1..2]

AskFill ==
    \E a \in Szs, ok \in {<<TRUE, TRUE, TRUE>>, <<TRUE, FALSE, TRUE>>}, side \in {"buy", "sell"}, size \in 0..6,
       limit \in {{}, {1}, {2}, {4}, {5}, {6}, {9}} :
        LET book == BookOf(a, a, ok)
        IN  question' = [kind |-> "fill", levels |-> IF side = "buy" THEN book.asks ELSE book.bids, side |-> side,
                         size |-> size, limit |-> limit, fill |-> FillAgainstBook(book, side, size, limit)]

AskGrid ==
    \E inst \in [tick : {{}, {1}, {3}}, lot : {{1}, {4}}, min : {{}, {1}, {9}}, minNotional : {0}, live : {TRUE}],
       qty \in 0..14, px \in -1..9, side \in {"buy", "sell"} :
        question' = [kind |-> "grid", inst |-> inst, qty |-> qty, px |-> px, side |-> side,
                     size |-> SizeOnLot(inst, qty), price |-> PriceOnGrid(inst, px, side)]

\* External: a pool of reserves 20 and 100 that rounds for itself.
Reserve(base) == IF base THEN 20 ELSE 100
Quoter(base, c) ==
    LET x == Reserve(c.in = base) y == Reserve(c.out = base)
    IN  IF c.exact = "in" THEN (y * c.amount) \div (x + c.amount) ELSE (x * c.amount + (y - c.amount) - 1) \div (y - c.amount)

Pools == {<<[symbol |-> "USDC", address |-> "u"], [symbol |-> "WETH", address |-> "e"]>>,
          <<[symbol |-> "WETH", address |-> "e"], [symbol |-> "USDC", address |-> "u"]>>,
          <<[symbol |-> "DEGEN", address |-> "d"], [symbol |-> "WETH", address |-> "e"]>>}
BaseAddress(pool) == IF \E i \in 1..2 : pool[i].symbol = "DEGEN" THEN "d" ELSE "e"

AskQuote ==
    \E a \in Szs, b \in Szs, fee \in 0..1, pool \in Pools, gas \in 0..1, size \in 1..6 :
        LET book == BookOf(a, b, <<TRUE, TRUE, TRUE>>)
            Pool(side) == PoolPrice(pool, Quoter(BaseAddress(pool), PoolCall(pool, side, size)), side, size, gas)
            Book(side) == BookPrice(book, side, size, fee, 100)
            prices == {Pool("buy"), Pool("sell"), Book("buy"), Book("sell")}
        IN  question' = [kind |-> "quote", venues |-> <<[buy |-> Pool("buy"), sell |-> Pool("sell")],
                                                        [buy |-> Book("buy"), sell |-> Book("sell")]>>,
                         size |-> size, buy |-> BestBuy(prices), sell |-> BestSell(prices)]

\* What of the book a fill of so much could take within the limit.
Takes(q) == {t \in [DOMAIN q.levels -> 0..2] :
                /\ \A i \in DOMAIN t : /\ t[i] <= q.levels[i].sz
                                       /\ t[i] > 0 => \A l \in q.limit : IF q.side = "buy" THEN q.levels[i].px <= l
                                                                                           ELSE q.levels[i].px >= l
                /\ FoldFunction(+, 0, t) <= q.size}
Worth(q, t) == FoldFunction(+, 0, [i \in DOMAIN t |-> t[i] * q.levels[i].px])

\* Both exchanges are asked for the order that was meant, a price is never worse
\* than its limit on either side of the grid, and an order is reported ended
\* only when it cannot fill any more, with the fee as paid (order_body,
\* order_params, parse_order, Instrument::size, price).
OrdersMeanWhatTheySay ==
    question # NoQuestion =>
        LET q == question
        IN  /\ q.kind = "order" =>
                  LET meant == [side |-> q.order.side, kind |-> q.order.kind, size |-> q.order.size, unit |-> {"base_ccy"},
                                price |-> IF q.order.kind = "market" THEN {} ELSE q.order.price]
                  IN  OkxMeans(q.okx) = meant /\ BinanceMeans(q.binance) = meant
            /\ q.kind = "status" =>
                  /\ IsTerminal(q.okx.state) = q.final[1] /\ IsTerminal(q.binance.state) = q.final[2]
                  /\ q.okx.fee = q.binance.fee /\ q.binance.fee <= 0
                  /\ q.ack = "ok" => q.sCode # "51008"
            /\ q.kind = "grid" =>
                  /\ \A n \in q.size : \E lot \in q.inst.lot : n % lot = 0 /\ n <= q.qty /\ q.qty - n < lot
                  /\ \A p \in q.price : \E t \in q.inst.tick :
                        /\ p % t = 0
                        /\ IF q.side = "buy" THEN p >= q.px /\ p - q.px < t ELSE p <= q.px /\ q.px - p < t

\* The paper fill takes the most there is within the limit, at the best there
\* is for that much, and no venue buys back for more than it just sold: what
\* --quote calls an edge needs two venues that can both fill it
\* (fill_against_book, Market::price, quote::run).
PricesAreOnesOneCouldGet ==
    question # NoQuestion =>
        LET q == question
        IN  /\ q.kind = "fill" =>
                  /\ q.fill.filled = Max({FoldFunction(+, 0, t) : t \in Takes(q)})
                  /\ \A t \in Takes(q) : FoldFunction(+, 0, t) = q.fill.filled =>
                        IF q.side = "buy" THEN Worth(q, t) >= q.fill.notional ELSE Worth(q, t) <= q.fill.notional
            /\ q.kind = "quote" =>
                  /\ \A i \in 1..2 : ~Dearer(q.venues[i].sell, q.venues[i].buy)
                  /\ \A p \in q.buy \cup q.sell : p.filled = q.size

----------------------------------------------------------------------------
(* Transactions *)

Usdc == "usdc"
Wsol == "wsol"
TipAccount == "tip"
Create(a) == [kind |-> "create", account |-> a, wsol |-> a = Wsol]
CloseOf(a) == [kind |-> "close", account |-> a]
Wrap(n) == [kind |-> "transfer", to |-> Wsol, amount |-> n]
Swap(pool, from, in, to, out) ==
    [kind |-> "swap", program |-> "jup", needs |-> {from, to, pool}, from |-> from, in |-> in, to |-> to, out |-> out]

\* The tables on the chain; a leg may have read one before it was extended.
Tables == [t1 |-> <<"tip", Usdc, "orca">>, t2 |-> <<"ray", Wsol, "orca">>]
Copies == {[t1 |-> Tables.t1], [t1 |-> SubSeq(Tables.t1, 1, 2), t2 |-> Tables.t2], [t2 |-> SubSeq(Tables.t2, 1, 1)]}

FirstLeg(tables) == [setup |-> <<Create(Wsol), Wrap(5), Create(Usdc)>>, swap |-> Swap("orca", Wsol, 5, Usdc, 9),
                     cleanup |-> <<CloseOf(Wsol)>>, tables |-> tables]
SecondLeg(tables, out, unwrap) ==
    [setup |-> <<Create(Usdc), Create(Wsol)>>, swap |-> Swap("ray", Usdc, 9, Wsol, out),
     cleanup |-> IF unwrap THEN <<CloseOf(Wsol)>> ELSE <<>>, tables |-> tables]

\* External: what an instruction does to the lamports of the accounts.
Rent == 2
Tip == 1
Wallet == {Payer, Usdc, Wsol, TipAccount}
Pay(lam, a, b, n) == [lam EXCEPT ![a] = @ - n, ![b] = @ + n]
Execute(s, ix) ==
    IF s = {} THEN {}
    ELSE LET lam == CHOOSE l \in s : TRUE
         IN  CASE ix.kind = "create" -> {IF lam[ix.account] > 0 THEN lam ELSE Pay(lam, Payer, ix.account, Rent)}
               [] ix.kind = "close" -> IF lam[ix.account] = 0 THEN {} ELSE {Pay(lam, ix.account, Payer, lam[ix.account])}
               [] ix.kind = "transfer" -> {Pay(lam, Payer, ix.to, IF ix.to = TipAccount THEN Tip ELSE ix.amount)}
               [] OTHER -> IF lam[ix.from] = 0 \/ lam[ix.to] = 0 THEN {}
                           ELSE {[lam EXCEPT ![Wsol] = @ + (IF ix.to = Wsol THEN ix.out ELSE 0)
                                                         - IF ix.from = Wsol THEN ix.in ELSE 0]}
RunAll(txs, lam) == FoldLeft(LAMBDA s, tx : FoldLeft(Execute, s, tx.ixs), {lam}, txs)

\* What the program knows to exist may leave out accounts that do, and may hold
\* a wSOL account that is closed again.
AskLegs ==
    \E t1, t2 \in Copies, usdc \in {0, Rent}, wsol \in {0, Rent, Rent + 4}, known \in SUBSET {Usdc, Wsol},
       tip \in {{}, {TipAccount}}, unwrap \in BOOLEAN, out \in {4, 8}, bundle \in BOOLEAN :
        LET legs == <<FirstLeg(t1), SecondLeg(t2, out, unwrap)>>
            p == [existing |-> known, tip |-> tip]
            pre == [a \in Wallet |-> CASE a = Payer -> 30 [] a = Usdc -> usdc [] a = Wsol -> wsol [] OTHER -> 7]
            txs == IF bundle THEN ComposeBundle(legs, p) ELSE ComposeSingle(legs, p)
            post == RunAll(txs, pre)
        IN  /\ (Usdc \in known => usdc > 0)
            /\ question' = [kind |-> "legs", legs |-> legs, bundle |-> bundle, tip |-> tip, txs |-> txs, pre |-> pre,
                            post |-> post, out |-> out]

\* External: the accounts the chain loads for a message.
Loaded(m) == m.static \cup {Tables[l.table][l.index] : l \in m.lookups}

\* A composed transaction runs from every state of the wallet the program may be
\* wrong about: no CreateIdempotent is dropped that an account needs, what stays
\* open is counted as created, the accounts loaded are the accounts meant, with
\* the tip's never through a table, and the change of SOL is what the legs paid
\* whether wSOL was held, opened, closed or left (leg_instructions, compile,
\* lookup_tables, message_account_keys, sol_equivalent_delta).
LegsRunAsQuoted ==
    question # NoQuestion /\ question.kind = "legs" =>
        LET q == question
            Of(tx) == UNION {KeysOf(ix) \cup {ProgramOf(ix)} : ix \in Range(tx.ixs)} \cup {Payer, ComputeProgram}
        IN  /\ q.post # {}
            /\ \A i \in DOMAIN q.txs :
                  LET tx == q.txs[i] keys == MessageAccountKeys(tx.msg, IF q.bundle THEN <<q.legs[i]>> ELSE q.legs)
                  IN  /\ Loaded(tx.msg) = Of(tx) /\ keys \subseteq {Of(tx)}
                      /\ tx.err = {} => Cardinality(Of(tx)) <= MaxTxAccounts
                      /\ q.tip \cap Of(tx) \subseteq tx.msg.static
            /\ \A post \in q.post :
                  LET made == CreatedAccounts(Wallet, q.pre, post)
                      delta == SolEquivalentDelta(Wallet, WsolAccounts(q.legs), q.pre, post)
                      sim == TxSim(q.txs[1], [err |-> {}, logs |-> <<>>, pre |-> q.pre, post |-> post], {Wallet})
                  IN  /\ made \subseteq UNION {q.txs[i].creates : i \in DOMAIN q.txs} /\ sim.created = made
                      /\ delta = {q.out - 5 - Cardinality(q.tip) * Tip - Rent * Cardinality(made \cap {Usdc})}

----------------------------------------------------------------------------
(* Answers *)

Responses == [sent : BOOLEAN, read : BOOLEAN, status : {200, 201, 400, 429, 451, 500}, body : {"text", "empty", "error", "result"}]

AskAnswer ==
    \E r \in Responses, n \in 0..6 :
        question' = [kind |-> "answer", response |-> r, n |-> n,
                     clients |-> [jito |-> JitoRpc(r), floor |-> TipFloorAnswer(r), bundle |-> SendBundle(n, r),
                                  evm |-> EvmRequest(r), okx |-> OkxSend(r), binance |-> BinanceSend(r)]]

Row(i, w) == [id |-> i, status |-> w]
AskParse ==
    \E words \in [1..2 -> {{}, {"Landed"}, {"Pending"}, {"Failed"}, {"Invalid"}, {"New"}}],
       errs \in [1..2 -> {"null", "absent", "ok", "custom"}], floor \in {{}, {-1}, {3}}, parses \in [1..2 -> BOOLEAN],
       call \in [kind : {"error", "result"}, reverted : BOOLEAN, why : {"healthy", "transfer", "other"}] :
        question' = [kind |-> "parse", words |-> words, errs |-> errs, call |-> call,
                     inflight |-> ParseInflight([i \in 1..2 |-> Row(i, words[i])]),
                     bundles |-> ParseBundleStatuses([i \in 1..2 |-> [kind |-> "row", id |-> i, err |-> errs[i]]]),
                     floor |-> ParseTipFloor(<<[p50 |-> floor, p99 |-> {4}]>>),
                     accounts |-> ParseTipAccounts([i \in 1..2 |-> [parses |-> parses[i], key |-> i]]),
                     can |-> Liquidatable(call)]

\* A client takes an answer for a success only when the server read the request
\* and did what it asked, and never tells the board or the limiter of both a
\* success and a failure; a state of a bundle that was not said is never
\* "landed", an unread error never "none", a tip floor never negative, and a
\* probe that failed never an account's health (JitoClient::rpc, tip_floor,
\* parse_inflight, parse_bundle_statuses, EvmRpc::request, try_call).
NoAnswerIsMisread ==
    question # NoQuestion =>
        LET q == question
        IN  /\ q.kind = "answer" =>
                  \A c \in DOMAIN q.clients :
                     LET t == q.clients[c] r == q.response
                     IN  /\ t.result = "ok" => r.sent /\ r.read /\ (r.status = 429 => c = "evm")
                         /\ t.result = "ok" /\ c \in {"jito", "bundle"} => Good(r.status) /\ r.body \in {"result", "empty"}
                         /\ t.result = "ok" /\ c \in {"floor", "evm"} => r.body = "result"
                         /\ t.result = "ok" /\ c = "bundle" => q.n \in 1..5
                         /\ t.health = "ok" => t.result = "ok" /\ t.limiter # "slow"
                         /\ c \in {"jito", "floor"} /\ r.sent /\ r.read /\ r.status = 429 => t.limiter = "slow"
            /\ q.kind = "parse" =>
                  /\ \A s \in Range(q.inflight) : s.state = "landed" <=> q.words[s.id] = {"Landed"}
                  /\ \A s \in Range(q.bundles) : s.failed <=> q.errs[s.id] = "custom"
                  /\ \A f \in q.floor : f.p50 >= 0
                  /\ \A l \in q.accounts : l # <<>>
                  /\ q.can # {} => q.call.kind = "error" /\ q.call.reverted
=============================================================================
