------------------------------- MODULE Venues -------------------------------
(***************************************************************************)
(* What the venues outside Solana are asked and what their answers mean    *)
(* (crates/venues: lib.rs, book.rs, okx.rs, binance.rs, market.rs, evm.rs, *)
(* and apps/mobius-searcher/src/quote.rs): order sizes and prices on the   *)
(* exchange's grid, orders and their states in each exchange's words, the  *)
(* walk over an order book, and the comparison of venues by --quote.       *)
(*                                                                         *)
(* Amounts are whole numbers of a unit finer than any lot or tick; a price *)
(* is [q, b], q of the quote currency for b of the base.  The requests     *)
(* themselves, their clocks and their permits, are Exchange's.             *)
(***************************************************************************)
EXTENDS Integers, Sequences, FiniteSets, SequencesExt

\* An Option is a set of at most one value.
FirstOf(s) == IF s = <<>> THEN {} ELSE {s[1]}

----------------------------------------------------------------------------
(* Instruments: [tick, lot, min, minNotional, live] *)

\* A filter the listing does not have leaves its steps empty, and an empty step
\* is no number.
OkxInstrument(d) == [tick |-> d.tick, lot |-> d.lot, min |-> d.min, minNotional |-> 0, live |-> d.state = "live"]
BinanceInstrument(d) ==
    [tick |-> d.tick, lot |-> d.lot, min |-> d.min, minNotional |-> 0, live |-> d.state = "TRADING"]

\* Rounded down to the lot, nothing below the minimum.
SizeOnLot(inst, qty) ==
    {n \in {(qty \div lot) * lot : lot \in inst.lot} : n > 0 /\ \E m \in inst.min : n >= m}

\* Rounded against us: a buy up, a sell down.
PriceOnGrid(inst, px, side) ==
    {p \in {IF side = "buy" THEN -((-px) \div t) * t ELSE (px \div t) * t : t \in inst.tick} : px > 0 /\ p > 0}

----------------------------------------------------------------------------
(* Orders [side, kind, size, price, id] in each exchange's words *)

\* Mutant of OkxOrder: the size of a market order is left to the exchange.
OkxOrderPlain(o) ==
    [clOrdId |-> o.id, side |-> o.side, sz |-> o.size, px |-> IF o.kind = "market" THEN {} ELSE o.price,
     ordType |-> o.kind, tgtCcy |-> {}]

OkxOrder(o) ==
    [clOrdId |-> o.id, side |-> o.side, sz |-> o.size, px |-> IF o.kind = "market" THEN {} ELSE o.price,
     ordType |-> o.kind, tgtCcy |-> IF o.kind = "market" THEN {"base_ccy"} ELSE {}]

BinanceOrder(o) ==
    [newClientOrderId |-> o.id, side |-> IF o.side = "buy" THEN "BUY" ELSE "SELL", quantity |-> o.size,
     price |-> IF o.kind = "market" THEN {} ELSE o.price,
     type |-> CASE o.kind = "market" -> "MARKET" [] o.kind = "post_only" -> "LIMIT_MAKER" [] OTHER -> "LIMIT",
     timeInForce |-> CASE o.kind = "limit" -> {"GTC"} [] o.kind = "ioc" -> {"IOC"} [] OTHER -> {}]

\* The answer to a place or a cancel: the reason of the one order comes before
\* the code of the envelope.
Envelope(body) == IF body.code = 0 THEN "ok" ELSE "api"
OkxAck(body) ==
    IF \E d \in body.data : d.sCode \notin {"", "0"} THEN "rejected"
    ELSE IF Envelope(body) # "ok" THEN Envelope(body)
    ELSE IF body.data = {} THEN "decode" ELSE "ok"

OkxStates ==
    [s \in {"live", "partially_filled", "filled", "canceled", "mmp_canceled", "new_word"} |->
        CASE s = "live" -> "live" [] s = "partially_filled" -> "partly" [] s = "filled" -> "filled"
          [] s \in {"canceled", "mmp_canceled"} -> "canceled" [] OTHER -> "other"]
BinanceStates ==
    [s \in {"NEW", "PARTIALLY_FILLED", "FILLED", "CANCELED", "EXPIRED", "EXPIRED_IN_MATCH", "REJECTED", "PENDING_CANCEL"} |->
        CASE s = "NEW" -> "live" [] s = "PARTIALLY_FILLED" -> "partly" [] s = "FILLED" -> "filled"
          [] s \in {"CANCELED", "EXPIRED", "EXPIRED_IN_MATCH", "REJECTED"} -> "canceled" [] OTHER -> "other"]

\* A fee is negative when it is paid, whatever the exchange calls it.  Binance
\* gives no average price but the sum, and a commission for each fill.
OkxStatus(d) == [state |-> OkxStates[d.state], filled |-> d.filled, avg |-> d.avg, fee |-> d.fee]
BinanceStatus(d) ==
    [state |-> BinanceStates[d.state], filled |-> d.filled,
     avg |-> IF d.filled > 0 THEN [q |-> d.quote, b |-> d.filled] ELSE [q |-> 0, b |-> 1],
     fee |-> -FoldLeft(LAMBDA n, c : n + c, 0, d.commissions)]

IsTerminal(state) == state \in {"filled", "canceled"}

----------------------------------------------------------------------------
(* Books: sequences of [px, sz], best first *)

\* A level that does not parse is left out; only OKX's book has a time.
OkxBook(d) == [asks |-> SelectSeq(d.asks, LAMBDA l : l.ok), bids |-> SelectSeq(d.bids, LAMBDA l : l.ok), ts |-> d.ts]
BinanceBook(d, received) ==
    [asks |-> SelectSeq(d.asks, LAMBDA l : l.ok), bids |-> SelectSeq(d.bids, LAMBDA l : l.ok), ts |-> received]

\* The opposite side of the book for so much, up to the limit.
FillAgainstBook(book, side, size, limit) ==
    LET levels == IF side = "buy" THEN book.asks ELSE book.bids
        Within(px) == \A l \in limit : IF side = "buy" THEN px <= l ELSE px >= l
        last == SelectInSeq(levels, LAMBDA l : ~Within(l.px))
        Take(f, l) ==
            LET take == IF f.left < l.sz THEN f.left ELSE l.sz
            IN  IF f.left <= 0 THEN f
                ELSE [left |-> f.left - take, filled |-> f.filled + take, notional |-> f.notional + take * l.px,
                      levels |-> f.levels + 1]
    IN  FoldLeft(Take, [left |-> IF size > 0 THEN size ELSE 0, filled |-> 0, notional |-> 0, levels |-> 0],
                 IF last = 0 THEN levels ELSE SubSeq(levels, 1, last - 1))

\* Market::price of an exchange: the fee is a share of what the fill is worth.
BookPrice(book, side, size, feeParts, parts) ==
    LET f == FillAgainstBook(book, side, size, {})
        sign == IF side = "buy" THEN 1 ELSE -1
    IN  [side |-> side, size |-> size, filled |-> f.filled,
         net |-> [q |-> f.notional * parts + sign * f.notional * feeParts, b |-> f.filled * parts]]

----------------------------------------------------------------------------
(* Uniswap pools: [tokens |-> <<t0, t1>>], a token [symbol, address] *)

Stable == {"USDC", "USDT", "DAI", "USDC.e"}
BaseOf(pool) ==
    IF pool[1].symbol \in Stable /\ pool[2].symbol \notin Stable THEN pool[2].symbol ELSE pool[1].symbol
TokenOf(pool, symbol) == FirstOf(SelectSeq(pool, LAMBDA t : t.symbol = symbol))
Other(pool, token) == IF token.address = pool[1].address THEN pool[2] ELSE pool[1]

\* The quoter is asked for the output of an input, or the input of an output.
QuoteCall(pool, tokenIn, amount) == [in |-> tokenIn.address, out |-> Other(pool, tokenIn).address, exact |-> "in", amount |-> amount]
QuoteOutputCall(pool, tokenOut, amount) == [in |-> Other(pool, tokenOut).address, out |-> tokenOut.address, exact |-> "out", amount |-> amount]

\* Market::price of a pool: what it asks the quoter, and the price an answer
\* makes; gas is valued only when the base is what pays it.
PoolBase(pool) == CHOOSE t \in TokenOf(pool, BaseOf(pool)) : TRUE
PoolCall(pool, side, size) ==
    IF side = "sell" THEN QuoteCall(pool, PoolBase(pool), size) ELSE QuoteOutputCall(pool, PoolBase(pool), size)
PoolPrice(pool, amount, side, size, gas) ==
    LET base == PoolBase(pool)
        \* gas is in base units: its worth is gas * amount / size
        worth == IF base.symbol = "WETH" THEN gas * amount ELSE 0
        sign == IF side = "buy" THEN 1 ELSE -1
    IN  [side |-> side, size |-> size, filled |-> size,
         net |-> [q |-> amount * size + sign * worth, b |-> size * size]]

----------------------------------------------------------------------------
(* --quote *)

Dearer(a, b) == a.net.q * b.net.b > b.net.q * a.net.b
Full(p) == p.filled >= p.size

\* Mutant of BestBuy: a partial fill counts.
BestBuyOfAny(prices) ==
    LET asked == {p \in prices : p.side = "buy"} IN {p \in asked : \A o \in asked : ~Dearer(p, o)}

\* The cheapest buy and the best sell of those that can be filled.
BestBuy(prices) ==
    LET asked == {p \in prices : p.side = "buy" /\ Full(p)} IN {p \in asked : \A o \in asked : ~Dearer(p, o)}
BestSell(prices) ==
    LET asked == {p \in prices : p.side = "sell" /\ Full(p)} IN {p \in asked : \A o \in asked : ~Dearer(o, p)}

----------------------------------------------------------------------------
(* Morpho: would this account be liquidated at the end of a block? *)

\* EvmRpc::try_call keeps a revert apart from a failed request.
TryCall(answer) ==
    CASE answer.kind = "result" -> [kind |-> "returned"]
      [] answer.kind = "error" /\ answer.reverted -> [kind |-> "reverted", why |-> answer.why]
      [] OTHER -> [kind |-> "failed"]

\* The contract is asked to liquidate one share for an account that holds
\* nothing: it refuses a healthy position, and stops at the transfer otherwise.
Liquidatable(answer) ==
    LET call == TryCall(answer)
    IN  CASE call.kind = "reverted" /\ call.why = "healthy" -> {FALSE}
          [] call.kind = "reverted" /\ call.why = "transfer" -> {TRUE}
          [] OTHER -> {}
=============================================================================
