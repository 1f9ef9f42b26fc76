------------------------------ MODULE Exchange ------------------------------
(***************************************************************************)
(* Orders and swaps outside Solana (crates/venues: lib.rs, okx.rs,         *)
(* binance.rs, evm_trade.rs): a signed request of an exchange client with  *)
(* its clock, its limiter and its permit, and an EVM account that approves *)
(* and swaps while the chain goes on.                                      *)
(*                                                                         *)
(* One client of either exchange makes one signed request at a time and    *)
(* may learn the exchange's clock meanwhile; the limiter holds a request   *)
(* up to MaxWait and the network up to MaxTransit.  What the clock of the  *)
(* exchange is ahead of ours changes at most once (MaxDrifts).             *)
(***************************************************************************)
EXTENDS Integers, Sequences, FiniteSets

CONSTANTS
    MaxClock, MaxWait, MaxTransit, MaxDrifts, Skews,
    Swaps, AmountIn, MinSwapOut, Prices, NodeTip, MaxBlocks, FullBlocks

\* Five full blocks raise a base fee by less than double, six by more.
ASSUME ExchangeAssumption ==
    /\ {MaxClock, MaxWait, MaxTransit, MaxBlocks, FullBlocks, AmountIn, NodeTip} \subseteq Nat /\ FullBlocks <= 5
    /\ Skews \subseteq Int

VARIABLES
    client,   \* [kind, demo, keys]: the client and the keys in its environment
    gates,    \* [trading, demo, sends, live]: what TradePermit::check reads
    clock, skew, drifts,
    offset,   \* offset_ms, with the skew it was learned from
    sync,     \* a sync_time under way
    req,      \* the signed request in hand
    orders,   \* external: orders the exchange took, by account
    chain,    \* external: [block, base, price, allow, used, pending, mined]
    swap      \* of each swap: its step and what it read

clientVars == <<client, gates, clock, skew, drifts, offset, sync, req, orders>>
exVars == <<client, gates, clock, skew, drifts, offset, sync, req, orders, chain, swap>>

----------------------------------------------------------------------------
(* Keys and permits *)

\* Credentials::from_env: all of the names, none of them, or an error.
KeysNeeded(kind) == IF kind = "okx" THEN {"key", "secret", "passphrase"} ELSE {"key", "secret"}
FromEnv(kind, keys) ==
    CASE keys \cap KeysNeeded(kind) = {} -> "none" [] KeysNeeded(kind) \subseteq keys -> "some" [] OTHER -> "incomplete"

\* TradePermit::check; none is refused.
Permit(g) ==
    IF ~g.trading THEN "none" ELSE IF g.demo THEN "demo" ELSE IF g.sends /\ g.live THEN "real" ELSE "none"

\* Mutant of PermitFits: any permit will do.
AnyPermitFits(permit, demo) == permit # "none"

\* OkxClient::check_permit: a permit and a client of one kind.
PermitFits(permit, demo) == permit # "none" /\ (permit = "demo") = demo

----------------------------------------------------------------------------
(* Clocks and signatures *)

Idle == [step |-> "idle"]

ExInit ==
    /\ client \in {[kind |-> k, demo |-> d, keys |-> KeysNeeded(k)] : k \in {"okx", "binance"}, d \in BOOLEAN}
    /\ gates \in [trading : BOOLEAN, demo : BOOLEAN, sends : BOOLEAN, live : BOOLEAN]
    /\ clock = 0 /\ skew \in Skews /\ drifts = 0
    /\ offset = [ms |-> 0, of |-> 0] /\ sync = Idle /\ req = Idle /\ orders = {}
    /\ chain = [block |-> 0, base |-> 16, price |-> 2, allow |-> 0, used |-> 0, pending |-> {}, mined |-> {}]
    /\ swap = [s \in Swaps |-> [step |-> "start", nonce |-> 0, fees |-> 0, at |-> 0, call |-> "none"]]

\* Mutant of Stamp: OKX signs before it waits for the limiter too.
StampEarly(now, asked) == asked + offset.ms

\* signed_headers stamps when the limiter has let the request go, signed_query
\* when it is made.
Stamp(now, asked) == (IF client.kind = "okx" THEN now ELSE asked) + offset.ms

\* What holds the clock back: the limiter and the network keep to their bounds.
Bounded(call) ==
    /\ call.step = "waiting" => clock - call.asked < MaxWait
    /\ call.step \in {"sent", "read"} => clock - call.since < MaxTransit
Tick == /\ clock < MaxClock /\ Bounded(sync) /\ Bounded(req) /\ clock' = clock + 1
        /\ UNCHANGED <<client, gates, skew, drifts, offset, sync, req, orders>>
ClockDrift == /\ drifts < MaxDrifts /\ drifts' = drifts + 1 /\ skew' \in Skews \ {skew}
         /\ UNCHANGED <<client, gates, clock, offset, sync, req, orders>>

\* sync_time: our time before it asks, which is before the limiter, and after.
SyncStart == sync.step = "idle" /\ sync' = [step |-> "waiting", asked |-> clock]
SyncSend == sync.step = "waiting" /\ sync' = [step |-> "sent", asked |-> sync.asked, since |-> clock]
SyncRead == /\ sync.step = "sent"
            /\ sync' = [step |-> "read", asked |-> sync.asked, since |-> clock, server |-> clock + skew, of |-> skew]
SyncDone == /\ sync.step = "read" /\ sync' = Idle
            /\ offset' = [ms |-> sync.server - (sync.asked + clock) \div 2, of |-> sync.of]
Sync == /\ \/ (SyncStart \/ SyncSend \/ SyncRead) /\ UNCHANGED offset
           \/ SyncDone
           \/ sync.step \in {"sent", "read"} /\ sync' = Idle /\ UNCHANGED offset
        /\ UNCHANGED <<client, gates, clock, skew, drifts, req, orders>>

\* place and cancel check the permit, place the price, before anything is sent;
\* balances and order need the credentials only.
Refused(op, permit, kind, price) ==
    \/ op \in {"place", "cancel"} /\ ~PermitFits(permit, client.demo)
    \/ op = "place" /\ kind # "market" /\ ~price
Private(op) ==
    \E kind \in {"market", "limit"}, price \in BOOLEAN :
        /\ req.step \in {"idle", "done"} /\ FromEnv(client.kind, client.keys) = "some"
        /\ op \in {"place", "cancel"} => Permit(gates) # "none"
        /\ ~Refused(op, Permit(gates), kind, price)
        /\ req' = [step |-> "waiting", op |-> op, asked |-> clock]
Send == /\ req.step = "waiting"
        /\ req' = [step |-> "sent", op |-> req.op, asked |-> req.asked, since |-> clock,
                                   stamp |-> Stamp(clock, req.asked), of |-> offset.of]

\* The exchange reads it; the answer may be lost, and then the order stands all
\* the same: an error of place does not say that there is none.
Arrive == /\ req.step = "sent"
          /\ req' = [step |-> "done", op |-> req.op, waited |-> req.since - req.asked, age |-> clock + skew - req.stamp,
                     known |-> req.of = skew]
          /\ orders' = IF req.op = "place" THEN orders \cup {IF client.demo THEN "demo" ELSE "real"} ELSE orders
Lose == req.step = "sent" /\ req' = Idle /\ UNCHANGED orders
Request == /\ \/ (\E op \in {"place", "cancel", "balances"} : Private(op)) /\ UNCHANGED orders
              \/ Send /\ UNCHANGED orders
              \/ Arrive \/ Lose
           /\ UNCHANGED <<client, gates, clock, skew, drifts, offset, sync>>

----------------------------------------------------------------------------
(* Swaps of an EVM account, which has no demo *)

\* Mutant of Fees: no room for a rising base fee.
FeesTight(base, tip) == base + tip

\* fees: twice the base fee and the tip.
Fees(base, tip) == base * 2 + tip

Set(s, f) == swap' = [swap EXCEPT ![s] = f]
Fails(s) == Set(s, [swap[s] EXCEPT !.step = "failed"])
Out == AmountIn * chain.price

\* eth_call and eth_estimateGas run the call in the latest state.
Runs(call) == call = "approve" \/ (chain.allow >= AmountIn /\ Out >= MinSwapOut)

EnsureAllowance(s) ==
    /\ swap[s].step = "start" /\ Permit(gates) = "real"
    /\ IF chain.allow >= AmountIn THEN Set(s, [swap[s] EXCEPT !.step = "allowed"])
       ELSE Set(s, [swap[s] EXCEPT !.step = "estimate", !.call = "approve"])

\* swap: simulated first, and its output must reach min_out.
SimulateSwap(s) ==
    /\ swap[s].step = "allowed"
    /\ IF Runs("swap") THEN Set(s, [swap[s] EXCEPT !.step = "estimate", !.call = "swap"]) ELSE Fails(s)

\* send: gas, nonce, fees, and the transaction.
Estimate(s) ==
    swap[s].step = "estimate" /\ IF Runs(swap[s].call) THEN Set(s, [swap[s] EXCEPT !.step = "nonce"]) ELSE Fails(s)
Nonce(s) ==
    swap[s].step = "nonce" /\ Set(s, [swap[s] EXCEPT !.step = "fees", !.nonce = chain.used + Cardinality(chain.pending)])
ReadFees(s) ==
    swap[s].step = "fees" /\ Set(s, [swap[s] EXCEPT !.step = "send", !.fees = Fees(chain.base, NodeTip), !.at = chain.block])

\* External: the node refuses a nonce that is used or taken.
SendTx(s) ==
    /\ swap[s].step = "send"
    /\ IF swap[s].nonce < chain.used \/ \E t \in chain.pending : t.nonce = swap[s].nonce
       THEN Fails(s) /\ UNCHANGED chain
       ELSE /\ chain' = [chain EXCEPT !.pending = @ \cup {[nonce |-> swap[s].nonce, of |-> s, call |-> swap[s].call,
                                                           min |-> MinSwapOut, fees |-> swap[s].fees, at |-> swap[s].at]}]
            /\ Set(s, [swap[s] EXCEPT !.step = "sent"])

\* receipt: whether it succeeded; an approval that did is followed by the swap.
Receipt(s) ==
    /\ swap[s].step = "sent"
    /\ \E t \in chain.mined : /\ t.of = s /\ t.nonce = swap[s].nonce
                              /\ Set(s, [swap[s] EXCEPT !.step = IF t.call = "approve" THEN "start" ELSE "done"])

\* External: a block mines what pays its base fee, the next nonce first; the
\* price moves, and the base fee rises by an eighth or not (that it falls only
\* makes room).
Block ==
    /\ chain.block < MaxBlocks
    /\ \E price \in Prices, up \in BOOLEAN :
        LET base == IF up THEN chain.base + chain.base \div 8 ELSE chain.base
            moved == [chain EXCEPT !.block = @ + 1, !.base = base, !.price = price]
            next == {t \in chain.pending : t.nonce = chain.used /\ t.fees >= base}
        IN  chain' = IF next = {} THEN moved
                     ELSE LET t == CHOOSE x \in next : TRUE
                              out == AmountIn * price
                              ok == t.call = "approve" \/ (chain.allow >= AmountIn /\ out >= t.min)
                          IN  [moved EXCEPT !.pending = @ \ {t}, !.used = @ + 1,
                                  !.allow = IF t.call = "approve" THEN AmountIn ELSE IF ok THEN @ - AmountIn ELSE @,
                                  !.mined = @ \cup {[of |-> t.of, call |-> t.call, nonce |-> t.nonce, ok |-> ok,
                                                     out |-> IF ok /\ t.call = "swap" THEN out ELSE 0]}]
    /\ UNCHANGED swap

SwapStep == \/ \E s \in Swaps : \/ (EnsureAllowance(s) \/ SimulateSwap(s) \/ Estimate(s) \/ Nonce(s) \/ ReadFees(s) \/ Receipt(s))
                                   /\ UNCHANGED chain
                                \/ SendTx(s)
            \/ Block

----------------------------------------------------------------------------
(* Properties *)

\* A request arrives with the exchange's own time on it: never earlier than that
\* by more than its way and half the way back of the clock's answer, and never
\* later by more than half of what the clock's question took with its wait for
\* the limiter.  So for OKX, which signs last, and for Binance up to the time the limiter
\* held it, which recvWindow must cover (private, signed_headers, sync_time;
\* "Learn OKX's clock offset").
SignedInTime ==
    req.step = "done" /\ req.known =>
        LET early == (MaxWait + 2 * MaxTransit + 1) \div 2
            late == (MaxTransit + 1) \div 2
        IN  /\ req.age >= -early
            /\ req.age <= late + MaxTransit + IF client.kind = "binance" THEN req.waited ELSE 0

\* No order reaches an account that its settings do not let it trade on: the
\* real one needs every gate, and a demo client never reaches it
\* (TradePermit::check, check_permit: "A client refuses a permit of the other
\* kind").
OrdersNeedEveryGate ==
    /\ "real" \in orders => gates.trading /\ ~gates.demo /\ gates.sends /\ gates.live
    /\ "demo" \in orders => gates.trading /\ gates.demo
    /\ \A s \in Swaps : swap[s].step # "start" => gates.trading /\ ~gates.demo /\ gates.sends /\ gates.live

\* However the price and the base fee move after a swap was simulated and sent,
\* what it pays out reaches its minimum, and its fees last "a few full blocks"
\* (swap_calldata, fees).
SwapsKeepTheirTerms ==
    /\ \A t \in chain.mined : t.call = "swap" /\ t.ok => t.out >= MinSwapOut
    /\ \A t \in chain.pending : chain.block - t.at <= FullBlocks => t.fees >= chain.base
    /\ \A t, u \in chain.mined : t.nonce = u.nonce => t = u

\* An order reaches an exchange or a chain in time, with every gate open and on
\* the terms it was simulated with (okx.rs, binance.rs, evm_trade.rs).
VenueOrdersAreSafe == SignedInTime /\ OrdersNeedEveryGate /\ SwapsKeepTheirTerms
=============================================================================
