-------------------------------- MODULE Scan --------------------------------
(***************************************************************************)
(* From a strategy to a landed cycle, in numbers: the scheduler and the    *)
(* strategies (strategy/src/scheduler.rs, strategies.rs), what a cycle     *)
(* costs and is worth (core/src/costs.rs, profit.rs, strategy/pricing.rs,  *)
(* jito/tip_policy.rs), and the min-out that protects it                   *)
(* (execution/pipeline.rs, protect).                                       *)
(*                                                                         *)
(* The control around these steps, with its failures and its risk checks,  *)
(* is Execution's; here every amount is a number and is rounded the way    *)
(* the code rounds it.  Ppm and Bps are the machine's millions and ten     *)
(* thousands.                                                              *)
(***************************************************************************)
EXTENDS Integers, Sequences, FiniteSets, FiniteSetsExt, TLC

CONSTANTS
    Strategies,       \* sequence of [kind, weight, tokens, dexes]
    FastPairs,        \* sets of two tokens
    Amount,           \* what a cycle starts with
    Ppm, Bps, Micro,  \* PPM_ONE, 10_000, MICRO_LAMPORTS_PER_LAMPORT
    CostParams,       \* [cuMargin, cuPerLeg, maxCuPrice, share, buffer, bufferPpm, rent, maxDeposit]
    BaseFee, MaxCu,   \* BASE_FEE_LAMPORTS_PER_SIGNATURE, MAX_COMPUTE_UNITS_PER_TX
    Guards,           \* settings of [lamports, edge, usd]
    TipPolicies,      \* settings of [kind, fixed, share, min, max]
    MinTip,           \* JITO_MIN_TIP_LAMPORTS
    SolPrices,        \* prices in Usd per token, or NoPrice
    UsdScale,
    Quotes,           \* external: answers to a leg, [num, den, bps, up, cuPrice]
    CuUsed,           \* external: units a simulation reports
    Floors,           \* external: landed tips, or NoFloor
    NoPrice, NoFloor, NoOpp

ASSUME ScanAssumption ==
    /\ {Ppm, Bps, Micro, Amount} \subseteq Nat \ {0}
    /\ \A i \in DOMAIN Strategies : Strategies[i].weight \in Nat

VARIABLES
    entries,  \* Scheduler.entries: credit and cursor of each strategy
    picks,    \* history: how often each was picked
    opp,      \* the opportunity in hand
    landed    \* history: what the last landed cycle left in the wallet

vars == <<entries, picks, opp, landed>>

MaxOf(m, n) == IF m > n THEN m ELSE n
MinOf(m, n) == IF m < n THEN m ELSE n
CeilDiv(m, n) == (m + n - 1) \div n

\* Rust's division truncates.
TruncDiv(m, n) == IF m < 0 THEN -((-m) \div n) ELSE m \div n

----------------------------------------------------------------------------
(* Strategies: closed cycles of legs [in, out, dex, fast] *)

Fast(a, b) == {a, b} \in FastPairs
Leg(a, b, dex) == [in |-> a, out |-> b, dex |-> dex, fast |-> Fast(a, b)]

\* CrossDex::pairs: every ordered pair of different venues, in order.
DexPairs(s) ==
    LET n == Len(s.dexes)
        Pair(k) == <<s.dexes[(k \div n) + 1], s.dexes[(k % n) + 1]>>
    IN  SelectSeq([k \in 1..(n * n) |-> Pair(k - 1)], LAMBDA p : p[1] # p[2])

RoundTripPlan(s) == <<Leg(s.tokens[1], s.tokens[2], "any"), Leg(s.tokens[2], s.tokens[1], "any")>>
CrossDexPlan(s, p) == <<Leg(s.tokens[1], s.tokens[2], p[1]), Leg(s.tokens[2], s.tokens[1], p[2])>>
TriangularPlan(s) ==
    LET n == Len(s.tokens)
    IN  [i \in 1..n |-> Leg(s.tokens[i], s.tokens[(i % n) + 1], "any")]

\* plans: every cycle of a strategy.
Plans(s) ==
    CASE s.kind = "round_trip" -> <<RoundTripPlan(s)>>
      [] s.kind = "cross_dex" -> [i \in DOMAIN DexPairs(s) |-> CrossDexPlan(s, DexPairs(s)[i])]
      [] s.kind = "triangular" -> IF Len(s.tokens) < 3 THEN <<>> ELSE <<TriangularPlan(s)>>

Enabled == SelectSeq(Strategies, LAMBDA s : s.weight > 0)
Total == FoldSet(LAMBDA i, n : Enabled[i].weight + n, 0, DOMAIN Enabled)

----------------------------------------------------------------------------
(* Costs *)

PriorityFee(cu, price) == CeilDiv(cu * price, Micro)
CuLimit(used) == MaxOf(used, MinOf(CeilDiv(used * (Ppm + CostParams.cuMargin), Ppm), MaxCu))

ExpectedSlippage(legs) ==
    LET last == legs[Len(legs)] IN CeilDiv((last.out - last.minOut) * CostParams.share, Ppm)
SafetyBuffer == CostParams.buffer + CeilDiv(Amount * CostParams.bufferPpm, Ppm)

\* compute_costs of one transaction; used is 0 before a simulation.
Costs(legs, used, tip, atas) ==
    LET price == MinOf(Max({legs[i].cuPrice : i \in DOMAIN legs}), CostParams.maxCuPrice)
        limit == IF used > 0 THEN CuLimit(used) ELSE MinOf(CostParams.cuPerLeg * Len(legs), MaxCu)
    IN  [baseFee |-> BaseFee, priority |-> PriorityFee(limit, price), tip |-> tip,
         slippage |-> ExpectedSlippage(legs), buffer |-> SafetyBuffer, rent |-> CostParams.rent * atas]

CostTotal(c) == c.baseFee + c.priority + c.tip + c.slippage + c.buffer
LandingCost(c) == c.baseFee + c.priority + c.tip

\* TipPolicy::quote.
TipQuote(policy, floor, profit) ==
    LET raw == CASE policy.kind = "fixed" -> policy.fixed
                 [] policy.kind = "percentile" -> IF floor = NoFloor THEN policy.fixed ELSE floor
                 [] policy.kind = "profit_share" -> (MaxOf(profit, 0) * policy.share) \div Bps
        least == MaxOf(policy.min, MinTip)
    IN  [lamports |-> MaxOf(least, MinOf(raw, MaxOf(policy.max, least))), capped |-> raw > policy.max]

----------------------------------------------------------------------------
(* Profit *)

Usd(price, atoms) == (atoms * price) \div UsdScale
Edge(n, input) == (n * Ppm) \div input

\* check_guards: the reason a cycle is skipped, or "ok".  The smaller of the
\* expected and the simulated result counts.
CheckGuards(expected, simulated, g, price) ==
    LET net == IF simulated = NoOpp THEN expected ELSE MinOf(simulated, expected)
        usd == IF expected = 0 THEN Usd(price, expected)
               ELSE IF expected < 0 THEN TruncDiv(-(Usd(price, expected) * net), -expected)
               ELSE TruncDiv(Usd(price, expected) * net, expected)
    IN  IF net < g.lamports \/ Edge(net, Amount) < g.edge THEN "edge_too_small"
        ELSE IF g.usd > 0 /\ price = NoPrice THEN "price_unavailable"
        ELSE IF g.usd > 0 /\ usd < g.usd THEN "edge_too_small"
        ELSE "ok"

\* validate_chain: the legs are those of the plan, each fed by the last.
ValidChain(plan, legs) ==
    /\ Len(legs) = Len(plan) /\ legs # <<>>
    /\ legs[1].inAmount = Amount
    /\ \A i \in DOMAIN legs : legs[i].asked /\ (i > 1 => legs[i].inAmount = legs[i - 1].out)
    /\ plan[Len(plan)].out = plan[1].in

\* price, and reprice_after_simulation with what was used and measured.
Verdict(o, legs, used, simulated, atas) ==
    LET gross == legs[Len(legs)].out - Amount
        tip == TipQuote(o.policy, o.floor, gross - CostTotal(Costs(legs, used, 0, atas)))
        costs == Costs(legs, used, tip.lamports, atas)
        guard == CheckGuards(gross - CostTotal(costs),
                             IF simulated = NoOpp THEN NoOpp ELSE simulated - costs.slippage - costs.buffer,
                             o.guards, o.price)
    IN  [costs |-> costs,
         status |-> IF used = 0 /\ ~ValidChain(o.plan, legs) THEN "build_failed"
                    ELSE IF costs.rent > CostParams.maxDeposit THEN "deposit"
                    ELSE IF guard # "ok" THEN guard
                    ELSE IF tip.capped THEN "tip_too_high" ELSE "quoted"]

----------------------------------------------------------------------------
(* Protection *)

\* Value in base units of an amount of the token between leg i and the next.
ToBase(legs, i, amount) ==
    IF legs[i + 1].inAmount = 0 THEN 0
    ELSE TruncDiv(amount * legs[Len(legs)].out, legs[i + 1].inAmount)

\* The sum of a value of each leg but the last.
Between(value) == FoldSet(LAMBDA i, n : value[i] + n, 0, DOMAIN value)
Inner(legs) == 1..(Len(legs) - 1)

\* What the legs between may take from the wallet, and what they took.
\* Mutant of Shortfall: only the final leg can fall short.
NoShortfall(legs) == 0

Shortfall(legs) == MaxOf(Between([i \in Inner(legs) |-> ToBase(legs, i, legs[i].out - legs[i].minOut)]), 0)
Drift(legs, executed) ==
    Between([i \in Inner(legs) |-> ToBase(legs, i, executed[i] - legs[i + 1].inAmount)])

RequiredFinalOut(legs, costs, g) ==
    MaxOf(Amount + CostTotal(costs) - costs.slippage + Shortfall(legs) + g.lamports, 0)

\* protective_slippage_bps: the tolerance that keeps the final leg above what
\* is required.
ProtectiveBps(out, required) ==
    IF out = 0 \/ required > out THEN NoOpp ELSE MinOf(((out - required) * Bps) \div out, Bps)

MinOut(out, bps, up) == out - IF up THEN CeilDiv(out * bps, Bps) ELSE (out * bps) \div Bps

----------------------------------------------------------------------------

Init ==
    /\ entries = [i \in DOMAIN Enabled |-> [credit |-> 0, cursor |-> 0]]
    /\ picks = [i \in DOMAIN Enabled |-> 0]
    /\ opp = NoOpp /\ landed = NoOpp

\* Mutant of Credited: every strategy earns the same.
CreditedAlike == [i \in DOMAIN Enabled |-> entries[i].credit + 1]

Credited == [i \in DOMAIN Enabled |-> entries[i].credit + Enabled[i].weight]

\* Scheduler::next_plan: the strategy with the most credit, the first of
\* several, pays the total back.
Best == CHOOSE i \in DOMAIN Enabled :
    \A j \in DOMAIN Enabled : Credited[j] < Credited[i] \/ (Credited[j] = Credited[i] /\ i <= j)

\* Picks are counted over a round of Total of them.
Picked == FoldSet(LAMBDA i, n : picks[i] + n, 0, DOMAIN Enabled)

NextPlan ==
    LET s == Enabled[Best] plans == Plans(s)
    IN  /\ opp = NoOpp /\ Enabled # <<>>
        /\ entries' = [i \in DOMAIN Enabled |->
              [credit |-> Credited[i] - IF i = Best THEN Total ELSE 0,
               cursor |-> IF i = Best /\ plans # <<>>
                          THEN (entries[i].cursor + 1) % Len(plans) ELSE entries[i].cursor]]
        /\ picks' = [i \in DOMAIN Enabled |->
              (IF Picked = Total THEN 0 ELSE picks[i]) + IF i = Best THEN 1 ELSE 0]
        /\ opp' = IF plans = <<>> THEN NoOpp
                  ELSE [stage |-> "quote", plan |-> plans[(entries[Best].cursor % Len(plans)) + 1],
                        legs |-> <<>>]
        /\ landed' = NoOpp

\* Jupiter's answer q to a leg asked with an amount.
Answer(q, amount, bps, asked) ==
    [inAmount |-> amount, out |-> (amount * q.num) \div q.den, bps |-> bps, cuPrice |-> q.cuPrice,
     minOut |-> MinOut((amount * q.num) \div q.den, bps, q.up), asked |-> asked]

\* evaluate: the legs are asked for in order, each with what the last returns.
QuoteLeg ==
    /\ opp # NoOpp /\ opp.stage = "quote" /\ Len(opp.legs) < Len(opp.plan)
    /\ \E q \in Quotes, asked \in BOOLEAN :
          LET amount == IF opp.legs = <<>> THEN Amount ELSE opp.legs[Len(opp.legs)].out
          IN  opp' = [opp EXCEPT !.legs = Append(@, Answer(q, amount, q.bps, asked))]
    /\ UNCHANGED <<entries, picks, landed>>

\* price_legs under the settings of the moment.
Price ==
    /\ opp # NoOpp /\ opp.stage = "quote" /\ Len(opp.legs) = Len(opp.plan)
    /\ \E g \in Guards, policy \in TipPolicies, price \in SolPrices, floor \in Floors :
          LET o == [stage |-> "protect", plan |-> opp.plan, legs |-> opp.legs, guards |-> g,
                    policy |-> policy, price |-> price, floor |-> floor]
              v == Verdict(o, opp.legs, 0, NoOpp, 0)
          IN  opp' = IF v.status = "quoted" THEN o @@ [costs |-> v.costs] ELSE NoOpp
    /\ UNCHANGED <<entries, picks, landed>>

\* protect: the tolerance is tight enough, or the final leg is asked for again
\* with one that is; the answer may have moved, or fall short of it.
Protect ==
    /\ opp # NoOpp /\ opp.stage = "protect"
    /\ LET last == opp.legs[Len(opp.legs)]
           required == RequiredFinalOut(opp.legs, opp.costs, opp.guards)
           bps == ProtectiveBps(last.out, required)
           Kept(legs, costs) == [opp EXCEPT !.stage = "simulate", !.legs = legs, !.costs = costs]
                                @@ [held |-> CostTotal(opp.costs) - opp.costs.slippage]
       IN  \/ bps = NoOpp /\ opp' = NoOpp
           \/ bps # NoOpp /\ bps >= last.bps /\ opp' = Kept(opp.legs, opp.costs)
           \/ /\ bps # NoOpp /\ bps < last.bps
              /\ \E q \in Quotes :
                    LET new == Answer(q, last.inAmount, bps, TRUE)
                        legs == [opp.legs EXCEPT ![Len(opp.legs)] = new]
                        v == Verdict(opp, legs, 0, NoOpp, 0)
                    IN  opp' = IF new.minOut >= required /\ v.status = "quoted" THEN Kept(legs, v.costs)
                               ELSE NoOpp
    /\ UNCHANGED <<entries, picks, landed>>

\* What a leg may pay in the end: its min-out at least.
Fills(legs) ==
    {[i \in DOMAIN legs |-> IF worst[i] THEN legs[i].minOut ELSE legs[i].out] :
        worst \in [DOMAIN legs -> BOOLEAN]}

\* simulate_job: priced again with what the simulation used and left.
Simulate ==
    /\ opp # NoOpp /\ opp.stage = "simulate"
    /\ \E used \in CuUsed, atas \in 0..1, f \in Fills(opp.legs) :
          LET tip == Verdict(opp, opp.legs, used, NoOpp, atas).costs
              delta == f[Len(f)] - Amount + Drift(opp.legs, f) - LandingCost(tip)
              v == Verdict(opp, opp.legs, used, delta, atas)
          IN  opp' = IF v.status = "quoted" THEN [opp EXCEPT !.stage = "send", !.costs = v.costs] ELSE NoOpp
    /\ UNCHANGED <<entries, picks, landed>>

\* The cycle lands, every leg at its min-out or better.
Land ==
    /\ opp # NoOpp /\ opp.stage = "send"
    /\ \E f \in Fills(opp.legs) :
          landed' = [change |-> f[Len(f)] - Amount + Drift(opp.legs, f) - LandingCost(opp.costs),
                     covered |-> opp.guards.lamports + opp.held - LandingCost(opp.costs)]
    /\ opp' = NoOpp
    /\ UNCHANGED <<entries, picks>>

Next == NextPlan \/ QuoteLeg \/ Price \/ Protect \/ Simulate \/ Land

Spec == Init /\ [][Next]_vars

----------------------------------------------------------------------------
(* Properties *)

\* After every round of picks each strategy had exactly its share of them, and
\* nobody is owed anything (Scheduler::next_plan: no strategy starves, and the
\* request budget is spent in the configured proportions).
SharesAreEven ==
    Picked = Total =>
        \A i \in DOMAIN Enabled : picks[i] = Enabled[i].weight /\ entries[i].credit = 0

\* A cycle that lands with every leg at its min-out has paid back its input, the
\* inventory the legs between took, and the profit that was asked for, up to
\* what its fees and tip grew after the min-out was fixed (protect,
\* required_final_out, protective_slippage_bps: every rounding on the way).
ProtectedFillIsCovered == landed # NoOpp => landed.change >= landed.covered

=============================================================================
