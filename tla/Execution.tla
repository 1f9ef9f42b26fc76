----------------------------- MODULE Execution -----------------------------
(***************************************************************************)
(* The execution pipeline: how a fully quoted route becomes a paper fill,  *)
(* a refusal or a bundle on chain.                                         *)
(*                                                                         *)
(* Actors that interleave:                                                 *)
(*   - one evaluation task per opportunity (Pipeline::finish and submit),  *)
(*     which prices, protects, assembles and queues it;                    *)
(*   - the simulator task, which takes one job at a time from a bounded    *)
(*     queue and carries it through simulation, risk, the operator's       *)
(*     confirmation and execute_live;                                      *)
(*   - the operator's commands (kill switch, thresholds, y/n, quit);       *)
(*   - the chain and the block engine, which decide what becomes of a      *)
(*     bundle whether or not anybody still polls for it.                   *)
(*                                                                         *)
(* Money is in small integer units, net of the costs that do not change    *)
(* after pricing: "gross" is what the quoted route returns above input and *)
(* those costs, "tip" the one cost quoted again after the simulation, and  *)
(* "floor" what the on-chain minimum output still guarantees of gross.     *)
(* Time is ages in ticks that saturate one past the limit they are         *)
(* compared with, and the number of the UTC day.                           *)
(***************************************************************************)
EXTENDS Risk, Sequences, FiniteSets

CONSTANTS Opps,         \* opportunity ids handed out by new_id
          Modes,        \* the modes explored: a subset of Paper, Confirm, Live
          QueueCap,     \* capacity of the simulator's channel
          SimulateUnprofitable, \* PipelineConfig.simulate_unprofitable (the engine sets it)
          Grosses,      \* quoted results of a route
          Tolerances,   \* how far the final leg's min-out is below its quote
          TipFloors,    \* values of the tip floor stream
          MaxTip,       \* tip_policy.max_lamports
          Buffer,       \* profit.safety_buffer_lamports: required, never spent
          MinProfits,   \* values of profit.min_profit_lamports
          LossLimits,   \* values of risk.max_daily_loss_usd
          SolPrice,     \* USD units per lamport unit
          MaxDay,       \* bound: the last UTC day (the first is 1)
          MaxRestarts,  \* bound: times the process is stopped and started
          MaxChanges    \* bound: threshold changes by the operator

ASSUME ExecutionAssumption ==
    /\ IsFiniteSet(Opps)
    /\ Modes \subseteq {"Paper", "Confirm", "Live"}
    /\ QueueCap \in Nat \ {0} /\ SimulateUnprofitable \in BOOLEAN
    /\ Grosses \subseteq Int /\ Tolerances \subseteq Nat
    /\ TipFloors \subseteq Nat /\ MaxTip \in Nat /\ Buffer \in Nat
    /\ MinProfits \subseteq Int /\ LossLimits \subseteq Nat
    /\ SolPrice \in Nat \ {0}
    /\ MaxDay \in Nat /\ MaxRestarts \in Nat /\ MaxChanges \in Nat

VARIABLES
    mode,        \* PipelineConfig.mode, fixed at start
    taker,       \* PipelineConfig.taker is configured (always when sending)
    th,          \* thresholds in effect: min profit, protection, loss limit
    kill,        \* KillSwitch.engaged
    risk,        \* RiskEngine.state
    stage,       \* where each opportunity's task or job is
    status,      \* Opportunity.status in the task that owns it (all skips but
                 \* the two the operator causes are "Skipped")
    job,         \* the priced opportunity (SimJob once it is assembled)
    queue,       \* the channel sim_tx / sim_rx
    pc,          \* where the simulator task is
    cur,         \* the job it holds, a set with at most one element
    pending,     \* Confirmations.pending
    answer,      \* what the oneshot of the last confirmation was given
    outcome,     \* LiveOutcome of the current execution
    bundle,      \* the chain's side: what became of each opportunity's bundle
    today,       \* UTC day
    lossAllowed, \* history: losses were allowed (config or ALLOW LOSS)
    restarts, changes \* counters for the bounds

settings == <<mode, taker, th, kill>>
pipeline == <<stage, status, job, queue>>
simulator == <<pc, cur, pending, answer, outcome>>
world == <<bundle, today>>
history == <<lossAllowed, restarts, changes>>
vars == <<settings, risk, pipeline, simulator, world, history>>

----------------------------------------------------------------------------
Sends(m) == m \in {"Confirm", "Live"}          \* Mode::sends_transactions

Thresholds == [minProfit : MinProfits, protect : BOOLEAN, maxLoss : LossLimits]

\* thresholds::loss_possible
LossPossible(t) == ~t.protect \/ t.minProfit < 0

Stages == {"new", "priced", "requote", "built", "submit", "queued", "sim", "done"}

Statuses == {"New", "Quoted", "Skipped", "Declined", "Expired", "Executable",
             "AwaitingConfirm", "Submitted", "PaperFilled", "Landed", "Failed"}

Refusals == {"Skipped", "Declined", "Expired"}

\* Where the simulator task can be: between jobs, in an await, or between two
\* awaits at a point where another actor's step matters.
LivePcs == {"live", "finalsim", "balance", "send", "poll", "confirmed", "post", "close"}

Pcs == {"idle", "simulate", "decide", "paper", "register", "confirm", "expire", "compose"}
       \cup LivePcs

\* What execute_live returns.
Outcomes == {"None", "NotSent", "Landed", "LandedUnknown", "Failed", "TimedOut"}

NoJob == [gross |-> 0, floor |-> 0, tip |-> 0, net |-> 0, required |-> 0,
          age |-> 0, simAge |-> 0, exact |-> FALSE]

Jobs == [gross : Int, floor : Int, tip : Nat, net : Int, required : Int,
         age : 0..(MaxQuoteAge + 1), simAge : 0..(MaxSimAge + 1), exact : BOOLEAN]

BundleStates == {"none", "flying", "landed", "reverted", "dropped"}

\* A bundle on its way can realize anything from lo to hi; one that landed
\* realized lo = hi.
NoBundle == [state |-> "none", lo |-> 0, hi |-> 0, day |-> 0]

Bundles == [state : BundleStates, lo : Int, hi : Int, day : Nat]

\* engine::start_with: no key in PAPER, a permit and a wallet (so a taker) or
\* no start in the other modes.
Init ==
    /\ mode \in Modes
    /\ taker \in {t \in BOOLEAN : Sends(mode) => t}
    /\ th \in Thresholds
    /\ kill = FALSE
    /\ today = 1
    /\ risk = RiskDefault
    /\ stage = [o \in Opps |-> "new"]
    /\ status = [o \in Opps |-> "New"]
    /\ job = [o \in Opps |-> NoJob]
    /\ queue = <<>>
    /\ pc = "idle" /\ cur = {} /\ pending = {}
    /\ answer = "none" /\ outcome = "None"
    /\ bundle = [o \in Opps |-> NoBundle]
    /\ lossAllowed = LossPossible(th)
    /\ restarts = 0 /\ changes = 0

----------------------------------------------------------------------------
(* Pricing *)

\* TipPolicy::quote on the percentile policy: the tip floor, clamped.  The
\* floor is streamed, so each quote may see another one.
Tip(floor) == IF floor > MaxTip THEN MaxTip ELSE floor

\* net_of: the route's result less the tip quoted now, the safety buffer and
\* what the simulation measured worse than expected.
Net(gross, tipFloor, worse) == gross - Tip(tipFloor) - worse - Buffer

\* The costed opportunity.
Costed(gross, floor, tipFloor, worse, age, exact) ==
    [gross |-> gross, floor |-> floor, tip |-> Tip(tipFloor),
     net |-> Net(gross, tipFloor, worse), required |-> 0,
     age |-> age, simAge |-> 0, exact |-> exact]

\* The min-out that the new quote of the final leg is held against.
Requiring(j, r) == [j EXCEPT !.required = r]

\* PlanKind::SingleTx: the one plan whose simulation is exact.
InOneTx(j) == [j EXCEPT !.exact = TRUE]

\* price and reprice_after_simulation: the status of a route with this net,
\* given the tip floor.  "others" is the rest of the guards (edge, USD,
\* deposit, chained legs).
PricedStatus(net, floor, others) ==
    IF net >= th.minProfit /\ others /\ floor <= MaxTip THEN "Quoted" ELSE "Skipped"

\* Mutant of KeepSkip: the new pricing decides, whatever the first one said.
TakeNewPrice(before, priced) == priced

\* A route priced again after it was skipped keeps its first verdict
\* (prepare's and simulate_job's status_before).
KeepSkip(before, priced) == IF before = "Quoted" THEN priced ELSE before

\* The evaluation ends without a job for the simulator.
Finish(o, s) ==
    /\ stage' = [stage EXCEPT ![o] = "done"]
    /\ status' = [status EXCEPT ![o] = s]
    /\ job' = [job EXCEPT ![o] = NoJob]

----------------------------------------------------------------------------
(* The evaluation tasks *)

\* on_build_error: a leg could not be built.  Being rate limited says nothing
\* about the market, so then there is no opportunity to report.
BuildError(o) ==
    /\ stage[o] = "new"
    /\ \E s \in {"New", "Skipped"} : Finish(o, s)
    /\ UNCHANGED <<settings, risk, queue, simulator, world, history>>

\* finish: price the quoted legs.
Price(o) ==
    /\ stage[o] = "new"
    /\ \E g \in Grosses, d \in Tolerances, f \in TipFloors, others \in BOOLEAN :
          /\ status' = [status EXCEPT ![o] = PricedStatus(Net(g, f, 0), f, others)]
          /\ job' = [job EXCEPT ![o] = Costed(g, g - d, f, 0, 0, FALSE)]
    /\ stage' = [stage EXCEPT ![o] = "priced"]
    /\ UNCHANGED <<settings, risk, queue, simulator, world, history>>

\* required_final_out, in units of gross.
RequiredFinalOut(j) == j.tip + Buffer + th.minProfit

\* Mutant of NeedsRequote: the quoted output compared, not the guaranteed one.
NeedsRequoteOfQuote(j, r) == j.gross < r

\* protect: the tolerance the final leg was quoted with leaves it short.
NeedsRequote(j, r) == j.floor < r

\* prepare up to the await of protect: an unprotected or unprofitable route
\* goes on as it is; otherwise the final leg's min-out has to cover input,
\* costs and the minimum profit, by itself or after a new quote.
Protect(o) ==
    /\ stage[o] = "priced"
    /\ LET r == RequiredFinalOut(job[o]) IN
       \/ /\ ~th.protect \/ status[o] # "Quoted"
          /\ stage' = [stage EXCEPT ![o] = "built"]
          /\ UNCHANGED <<status, job>>
       \/ /\ th.protect /\ status[o] = "Quoted" /\ r > job[o].gross
          /\ stage' = [stage EXCEPT ![o] = "built"]
          /\ status' = [status EXCEPT ![o] = "Skipped"]
          /\ UNCHANGED job
       \/ /\ th.protect /\ status[o] = "Quoted" /\ r <= job[o].gross
          /\ IF NeedsRequote(job[o], r)
             THEN /\ stage' = [stage EXCEPT ![o] = "requote"]
                  /\ job' = [job EXCEPT ![o] = Requiring(@, r)]
             ELSE stage' = [stage EXCEPT ![o] = "built"] /\ UNCHANGED job
          /\ UNCHANGED status
    /\ UNCHANGED <<settings, risk, queue, simulator, world, history>>

\* protect after its await: the new quote carries the required min-out and
\* the route is priced again, or the route is refused.
Requote(o) ==
    /\ stage[o] = "requote"
    /\ stage' = [stage EXCEPT ![o] = "built"]
    /\ \/ \E g \in Grosses, d \in Tolerances, f \in TipFloors, others \in BOOLEAN :
             /\ g - d >= job[o].required
             /\ status' = [status EXCEPT ![o] = PricedStatus(Net(g, f, 0), f, others)]
             /\ job' = [job EXCEPT ![o] = Costed(g, g - d, f, 0, @.age, FALSE)]
       \/ /\ status' = [status EXCEPT ![o] = "Skipped"]  \* moved, rate limited, no build
          /\ job' = [job EXCEPT ![o] = Requiring(@, 0)]
    /\ UNCHANGED <<settings, risk, queue, simulator, world, history>>

\* prepare after protect: compose one transaction, or a bundle when it does
\* not fit; a bundle, and new token accounts, are priced again.  A route that
\* was already skipped stays skipped.
Assemble(o) ==
    /\ stage[o] = "built"
    /\ \/ Finish(o, "Skipped")                            \* too large, or no build
       \/ \E exact \in BOOLEAN :
            /\ stage' = [stage EXCEPT ![o] = "submit"]
            /\ \/ /\ exact
                  /\ job' = [job EXCEPT ![o] = InOneTx(@)]
                  /\ UNCHANGED status
               \/ \E f \in TipFloors, others \in BOOLEAN :
                    /\ status' = [status EXCEPT ![o] =
                          KeepSkip(@, PricedStatus(Net(job[o].gross, f, 0), f, others))]
                    /\ job' = [job EXCEPT ![o] = Costed(@.gross, @.floor, f, 0, @.age, exact)]
    /\ UNCHANGED <<settings, risk, queue, simulator, world, history>>

\* submit: a candidate waits for a slot, a sample takes one that is free.
Enqueue(o) ==
    /\ stage[o] = "submit"
    /\ status[o] = "Quoted" \/ SimulateUnprofitable
    /\ Len(queue) < QueueCap
    /\ queue' = Append(queue, o)
    /\ stage' = [stage EXCEPT ![o] = "queued"]
    /\ UNCHANGED <<settings, risk, status, job, simulator, world, history>>

\* Mutant of Drop: a candidate that found no slot is evaluated again.
DropRetries(o) ==
    /\ stage[o] = "submit"
    /\ status[o] = "Quoted" \/ ~SimulateUnprofitable \/ Len(queue) = QueueCap
    /\ stage' = [stage EXCEPT ![o] = "new"]
    /\ UNCHANGED <<settings, risk, status, job, queue, simulator, world, history>>

\* submit gives up: a candidate after the quote age budget, a sample at once.
\* Nothing is emitted: the opportunity keeps the status it had.
Drop(o) ==
    /\ stage[o] = "submit"
    /\ status[o] = "Quoted" \/ ~SimulateUnprofitable \/ Len(queue) = QueueCap
    /\ Finish(o, status[o])
    /\ UNCHANGED <<settings, risk, queue, simulator, world, history>>

----------------------------------------------------------------------------
(* The simulator task *)

\* The current job ends with this status and the task goes back to recv.
Done(o, s) ==
    /\ Finish(o, s)
    /\ pc' = "idle" /\ cur' = {}

\* run_simulator takes the next job; simulate_job drops it at once when its
\* quote is too old or there is no account to simulate with.
TakeJob ==
    /\ pc = "idle" /\ queue # <<>>
    /\ queue' = Tail(queue)
    /\ LET o == Head(queue) IN
       \/ /\ job[o].age > MaxQuoteAge \/ ~taker
          /\ Finish(o, KeepSkip(status[o], "Skipped"))
          /\ UNCHANGED <<pc, cur>>
       \/ /\ job[o].age <= MaxQuoteAge /\ taker
          /\ stage' = [stage EXCEPT ![o] = "sim"]
          /\ pc' = "simulate" /\ cur' = {o}
          /\ UNCHANGED <<status, job>>
    /\ UNCHANGED <<settings, risk, pending, answer, outcome, world, history>>

\* simulate_job after simulate_txs: a failed simulation refuses a candidate;
\* a good one is priced again with today's tip and what the simulation
\* measured (never more than expected counts).  A sample keeps its reason.
Simulated(o) ==
    /\ pc = "simulate" /\ o \in cur
    /\ \/ /\ Done(o, KeepSkip(status[o], "Skipped"))
       \/ \E f \in TipFloors, worse \in {0, 1}, others \in BOOLEAN :
            LET s == KeepSkip(status[o], PricedStatus(Net(job[o].gross, f, worse), f, others))
            IN  \/ /\ s # "Quoted"
                   /\ Done(o, s)
                \/ /\ s = "Quoted"
                   /\ pc' = "decide"
                   /\ job' = [job EXCEPT ![o] = Costed(@.gross, @.floor, f, worse, @.age, @.exact)]
                   /\ UNCHANGED <<cur, stage, status>>
    /\ UNCHANGED <<settings, risk, queue, pending, answer, outcome, world, history>>

\* Mutant of Facts: the quoted result judged instead of the net one.
FactsGross(o, others) ==
    [age |-> job[o].age, simAge |-> job[o].simAge, exact |-> job[o].exact,
     sends |-> Sends(mode), net |-> job[o].gross, others |-> others]

\* decide: what the risk engine is told about the freshly priced opportunity.
Facts(o, others) ==
    [age |-> job[o].age, simAge |-> job[o].simAge, exact |-> job[o].exact,
     sends |-> Sends(mode), net |-> job[o].net, others |-> others]

\* decide: the risk engine's verdict.
Decide(o) ==
    /\ pc = "decide" /\ o \in cur
    /\ risk' = RollDay(risk, today)
    /\ \E others \in BOOLEAN :
       \/ /\ ~Approved(risk', Facts(o, others), th.maxLoss, kill)
          /\ Done(o, "Skipped")
       \/ /\ Approved(risk', Facts(o, others), th.maxLoss, kill)
          /\ status' = [status EXCEPT ![o] = "Executable"]
          /\ pc' = CASE mode = "Paper"   -> "paper"
                     [] mode = "Confirm" -> "register"
                     [] mode = "Live"    -> "compose"
          /\ UNCHANGED <<cur, stage, job>>
    /\ UNCHANGED <<settings, queue, pending, answer, outcome, world, history>>

\* UsdPrice::value
UsdValue(lamports) == lamports * SolPrice

\* paper_fill: opened and closed in one go, nothing signed; without a recent
\* SOL price the result counts as zero.
PaperFill(o) ==
    /\ pc = "paper" /\ o \in cur
    /\ \E priced \in BOOLEAN :
          risk' = CloseExecution(OpenExecution(risk), today, TRUE,
                                 IF priced THEN UsdValue(job[o].net) ELSE 0)
    /\ Done(o, "PaperFilled")
    /\ UNCHANGED <<settings, queue, pending, answer, outcome, world, history>>

----------------------------------------------------------------------------
(* The operator's confirmation *)

\* confirm_then_send: ask.
RegisterConfirm(o) ==
    /\ pc = "register" /\ o \in cur
    /\ pending' = pending \cup {o}
    /\ answer' = "none"
    /\ status' = [status EXCEPT ![o] = "AwaitingConfirm"]
    /\ pc' = "confirm"
    /\ UNCHANGED <<settings, risk, stage, job, queue, cur, outcome, world, history>>

\* Command::Confirm: the sender is taken out of the map; what it sends is lost
\* when the receiver has already timed out.
Resolve(o, approve) ==
    /\ o \in pending
    /\ pending' = pending \ {o}
    /\ answer' = IF pc = "confirm" THEN (IF approve THEN "yes" ELSE "no") ELSE answer
    /\ UNCHANGED <<settings, risk, pipeline, pc, cur, outcome, world, history>>

\* confirm_then_send after its await, answered.  The quote may have aged.
Answered(o) ==
    /\ pc = "confirm" /\ o \in cur /\ answer # "none"
    /\ \/ /\ answer = "no"
          /\ Done(o, "Declined")
       \/ /\ answer = "yes" /\ job[o].age > MaxQuoteAge
          /\ Done(o, "Skipped")
       \/ /\ answer = "yes" /\ job[o].age <= MaxQuoteAge
          /\ pc' = "compose"
          /\ UNCHANGED <<cur, stage, status, job>>
    /\ UNCHANGED <<settings, risk, queue, pending, answer, outcome, world, history>>

\* Mutant of ConfirmTimeout: silence is consent.
TimeoutApproves ==
    /\ pc = "confirm" /\ answer = "none"
    /\ pc' = "compose"
    /\ UNCHANGED <<settings, risk, pipeline, cur, pending, answer, outcome, world, history>>

\* confirm_timeout passes with no answer ...
ConfirmTimeout ==
    /\ pc = "confirm" /\ answer = "none"
    /\ pc' = "expire"
    /\ UNCHANGED <<settings, risk, pipeline, cur, pending, answer, outcome, world, history>>

\* Mutant of Expire: the entry stays in the map.
ExpireKeepsEntry(o) ==
    /\ pc = "expire" /\ o \in cur
    /\ Done(o, "Expired")
    /\ UNCHANGED <<settings, risk, queue, pending, answer, outcome, world, history>>

\* ... and the entry is taken out of the map, if the operator did not just do so.
Expire(o) ==
    /\ pc = "expire" /\ o \in cur
    /\ pending' = pending \ {o}
    /\ Done(o, "Expired")
    /\ UNCHANGED <<settings, risk, queue, answer, outcome, world, history>>

----------------------------------------------------------------------------
(* send_live and execute_live *)

\* send_live before execute_live: compose the final transaction, open.
Compose(o) ==
    /\ pc = "compose" /\ o \in cur
    /\ \/ /\ Done(o, "Skipped")                            \* TX_TOO_LARGE
          /\ UNCHANGED risk
       \/ /\ risk' = OpenExecution(risk)
          /\ status' = [status EXCEPT ![o] = "Submitted"]
          /\ pc' = "live"
          /\ UNCHANGED <<cur, stage, job>>
    /\ UNCHANGED <<settings, queue, pending, answer, outcome, world, history>>

\* One step of execute_live: go on to the next one, or return an outcome.
LiveStep(from, next, result) ==
    /\ pc = from
    /\ pc' = next
    /\ outcome' = result
    /\ UNCHANGED <<settings, risk, pipeline, cur, pending, answer, history, today>>

Return(from, result) == LiveStep(from, "close", result)

\* Blockhash headroom and signature; more than one transaction is never sent.
SignLive(o) ==
    /\ o \in cur
    /\ \/ Return("live", "NotSent")
       \/ job[o].exact /\ LiveStep("live", "finalsim", "None")
    /\ UNCHANGED bundle

\* The final simulation of the signed bytes.
FinalSim ==
    /\ \/ Return("finalsim", "NotSent")
       \/ LiveStep("finalsim", "balance", "None")
    /\ UNCHANGED bundle

\* The wallet's balance before sending.
PreBalance ==
    /\ \/ Return("balance", "NotSent")
       \/ LiveStep("balance", "send", "None")
    /\ UNCHANGED bundle

\* sendBundle, once.  The call fails before or after the block engine took
\* the bundle; only an answer starts the polling.
SendBundle(o) ==
    /\ o \in cur
    /\ \/ /\ Return("send", "NotSent")
          /\ UNCHANGED bundle
       \/ /\ Return("send", "NotSent") \/ LiveStep("send", "poll", "None")
          /\ bundle' = [bundle EXCEPT ![o] =
                 [state |-> "flying", lo |-> job[o].floor - job[o].tip,
                  hi |-> job[o].gross - job[o].tip, day |-> today]]

\* One poll that changes something: getInflightBundleStatuses says Landed or
\* Failed.  Pending, Invalid and errors poll again.
PollInflight(o) ==
    /\ o \in cur
    /\ \/ /\ bundle[o].state \in {"landed", "reverted"}
          /\ LiveStep("poll", "confirmed", "None")
       \/ /\ bundle[o].state = "dropped"
          /\ Return("poll", "Failed")
    /\ UNCHANGED bundle

\* Mutant of PollStatus: landed is taken for a success.
PollStatusTrusts(o) ==
    /\ o \in cur
    /\ bundle[o].state \in {"landed", "reverted"}
    /\ LiveStep("confirmed", "post", "None")
    /\ UNCHANGED bundle

\* getBundleStatuses: landed with an error, or confirmed.
PollStatus(o) ==
    /\ o \in cur
    /\ \/ bundle[o].state = "reverted" /\ Return("confirmed", "Failed")
       \/ bundle[o].state = "landed" /\ LiveStep("confirmed", "post", "None")
    /\ UNCHANGED bundle

\* Mutant of PollTimeout: only the confirmation loop looks at the clock.
PollTimeoutLate ==
    /\ Return("confirmed", "TimedOut")
    /\ UNCHANGED bundle

\* The deadline, checked in both polling loops.
PollTimeout ==
    /\ Return("poll", "TimedOut") \/ Return("confirmed", "TimedOut")
    /\ UNCHANGED bundle

\* The balance after landing, when it can be read.
PostBalance ==
    /\ Return("post", "Landed") \/ Return("post", "LandedUnknown")
    /\ UNCHANGED bundle

\* send_live after execute_live: book the outcome and close.
Close(o) ==
    /\ pc = "close" /\ o \in cur
    /\ LET success == outcome \in {"Landed", "LandedUnknown"}
           net == IF outcome = "Landed" THEN bundle[o].lo ELSE 0
       IN  /\ \E priced \in BOOLEAN :
                risk' = CloseExecution(risk, today, success, IF priced THEN UsdValue(net) ELSE 0)
           /\ Done(o, IF success THEN "Landed" ELSE "Failed")
    /\ outcome' = "None"
    /\ UNCHANGED <<settings, queue, pending, answer, world, history>>

----------------------------------------------------------------------------
(* The operator *)

\* Command::KillSwitch
KillSwitch ==
    /\ kill' = ~kill
    /\ UNCHANGED <<mode, taker, th, risk, pipeline, simulator, world, history>>

\* Command::SetThresholds: opening losses the current settings do not allow
\* needs the operator's acknowledgement.
SetThresholds(t, allowLoss) ==
    /\ changes < MaxChanges
    /\ LossPossible(t) /\ ~LossPossible(th) => allowLoss
    /\ th' = t
    /\ lossAllowed' = (lossAllowed \/ LossPossible(t))
    /\ changes' = changes + 1
    /\ UNCHANGED <<mode, taker, kill, risk, pipeline, simulator, world, restarts>>

\* Running::stop, or a crash, and the next start: every task is aborted where
\* it is, all of the state above is in memory only, bundles are not.
Restart ==
    /\ restarts < MaxRestarts
    /\ restarts' = restarts + 1
    /\ th' \in Thresholds
    /\ lossAllowed' = (lossAllowed \/ LossPossible(th'))
    /\ kill' = FALSE
    /\ risk' = RiskDefault
    /\ stage' = [o \in Opps |-> IF stage[o] = "new" THEN "new" ELSE "done"]
    /\ job' = [o \in Opps |-> NoJob]
    /\ queue' = <<>>
    /\ pc' = "idle" /\ cur' = {} /\ pending' = {}
    /\ answer' = "none" /\ outcome' = "None"
    /\ UNCHANGED <<mode, taker, status, world, changes>>

----------------------------------------------------------------------------
(* The world *)

Older(a, max) == IF a > max THEN a ELSE a + 1

\* Time passes for every quote and simulation held.
Tick ==
    /\ job' = [o \in Opps |->
          IF stage[o] \in {"new", "done"} THEN job[o]
          ELSE [job[o] EXCEPT !.age = Older(@, MaxQuoteAge),
                              !.simAge = IF pc = "decide" /\ o \in cur THEN Older(@, MaxSimAge) ELSE @]]
    /\ job' # job
    /\ UNCHANGED <<settings, risk, stage, status, queue, simulator, world, history>>

NewDay ==
    /\ today < MaxDay
    /\ today' = today + 1
    /\ UNCHANGED <<settings, risk, pipeline, simulator, bundle, history>>

\* The chain settles a bundle: it lands, lands with an error or never lands.
Settle(o) ==
    /\ bundle[o].state = "flying"
    /\ \/ \E gain \in bundle[o].lo..bundle[o].hi :
             bundle' = [bundle EXCEPT ![o] =
                           [state |-> "landed", lo |-> gain, hi |-> gain, day |-> today]]
       \/ \E s \in {"reverted", "dropped"} :
             bundle' = [bundle EXCEPT ![o] = [NoBundle EXCEPT !.state = s]]
    /\ UNCHANGED <<settings, risk, pipeline, simulator, today, history>>

----------------------------------------------------------------------------
\* What one evaluation task does next.
Evaluation(o) ==
    BuildError(o) \/ Price(o) \/ Protect(o) \/ Requote(o) \/ Assemble(o) \/ Enqueue(o) \/ Drop(o)

\* What the simulator task does next.
Simulator ==
    \/ TakeJob \/ ConfirmTimeout
    \/ FinalSim \/ PreBalance \/ PollTimeout \/ PostBalance
    \/ \E o \in Opps :
          \/ Simulated(o) \/ Decide(o) \/ PaperFill(o)
          \/ RegisterConfirm(o) \/ Answered(o) \/ Expire(o)
          \/ Compose(o) \/ SignLive(o) \/ SendBundle(o)
          \/ PollInflight(o) \/ PollStatus(o) \/ Close(o)

Operator ==
    \/ KillSwitch \/ Restart
    \/ \E o \in Opps, approve \in BOOLEAN : Resolve(o, approve)
    \/ \E t \in Thresholds, allowLoss \in BOOLEAN : SetThresholds(t, allowLoss)

World == Tick \/ NewDay \/ \E o \in Opps : Settle(o)

Next == Simulator \/ Operator \/ World \/ \E o \in Opps : Evaluation(o)

\* Every await of the two kinds of task is bounded by a timeout, so each of
\* them keeps taking steps while it has one.  Nothing is assumed of the
\* operator, the chain or the clock.
Fairness ==
    /\ WF_vars(Simulator)
    /\ \A o \in Opps : WF_vars(Evaluation(o))

Spec == Init /\ [][Next]_vars

FairSpec == Spec /\ Fairness
----------------------------------------------------------------------------
(* Properties *)

SettingsType ==
    /\ mode \in {"Paper", "Confirm", "Live"} /\ taker \in BOOLEAN
    /\ th \in Thresholds /\ kill \in BOOLEAN

PipelineType ==
    /\ stage \in [Opps -> Stages] /\ status \in [Opps -> Statuses]
    /\ job \in [Opps -> Jobs] /\ queue \in Seq(Opps)

SimulatorType ==
    /\ pc \in Pcs /\ cur \in SUBSET Opps /\ pending \in SUBSET Opps
    /\ answer \in {"none", "yes", "no"} /\ outcome \in Outcomes

WorldType == bundle \in [Opps -> Bundles] /\ today \in Nat

HistoryType == lossAllowed \in BOOLEAN /\ restarts \in Nat /\ changes \in Nat

\* Type correctness: the state of the pipeline, the risk engine, the operator
\* commands and the chain keeps the shape of the code's types; in particular
\* the counters of the risk engine never go below zero.
TypeOK ==
    /\ SettingsType /\ risk \in RiskState /\ PipelineType
    /\ SimulatorType /\ WorldType /\ HistoryType

\* open_executions counts exactly the executions between open_execution and
\* close_execution in send_live: no error path of execute_live leaks a slot,
\* and saturating_sub never hides a missing one.
OpenMatchesInFlight == risk.open = (IF pc \in LivePcs THEN 1 ELSE 0)

\* consecutive_failures never passes its limit: the check in evaluate is still
\* true when the execution it approved is closed, however long that took.
FailuresWithinLimit == risk.fails <= MaxFailures

\* A booked loss only ever grows from below the daily limit: nothing is booked
\* between the check in evaluate and the close of the trade it approved.
LossStopsTrading ==
    [][risk'.day = risk.day /\ risk'.pnl < risk.pnl
          => \E l \in LossLimits : -risk.pnl < l]_vars

\* A skip, a refusal and an outcome are final: neither the second pricing in
\* prepare, nor the one after the simulation, nor a late answer of the
\* operator turns a skipped opportunity back into a candidate.
RefusalIsFinal ==
    [][\A o \in Opps :
          status[o] \in Refusals \cup {"PaperFilled", "Landed", "Failed"}
             => status'[o] = status[o]]_vars

\* What risk and pricing said no to stays undone: no loss is booked past the
\* daily limit that evaluate checked, and no skipped, refused or concluded
\* opportunity comes back.
NoStaysNo == LossStopsTrading /\ RefusalIsFinal

\* The confirmation map holds the opportunity on screen and nothing else: it
\* is there while the operator may still answer and gone once the wait ended.
ConfirmMapExact ==
    /\ pending \subseteq cur
    /\ pending # {} => pc \in {"confirm", "expire"}
    /\ pc = "confirm" => pending = IF answer = "none" THEN cur ELSE {}

\* In CONFIRM nothing is composed, opened or sent without the operator's yes
\* to this very opportunity, given before the timeout.
SendNeedsYes == mode = "Confirm" /\ pc \in LivePcs \cup {"compose"} => answer = "yes"

\* The simulator task holds a job exactly while it is not waiting for one, and
\* never two.
OneJobAtATime == (cur = {} <=> pc = "idle") /\ \A o, p \in cur : o = p

\* While an approved job is on its way, the failures stay as evaluate saw them.
ApprovedBelowLimit ==
    pc \in {"paper", "register", "confirm", "expire", "compose"} \cup LivePcs
       => risk.fails < MaxFailures

\* The inductive invariant behind the four invariants above it: the place of
\* the simulator task decides the risk counters and the confirmation map.
Control ==
    /\ OneJobAtATime /\ ApprovedBelowLimit
    /\ OpenMatchesInFlight /\ FailuresWithinLimit
    /\ ConfirmMapExact /\ SendNeedsYes

\* Every bundle that goes out gains at its quoted prices after the tip it
\* carries: what risk approved is what is sent, though the tip floor moves.
SentWasProfitable == \A o \in Opps : bundle[o].state = "flying" => bundle[o].hi > 0

\* Unless losses were allowed, a bundle cannot realize less than minus the
\* largest tip: the min-out floor fixed by protect covers every other cost.
LossWithinTip ==
    ~lossAllowed => \A o \in Opps : bundle[o].state \in {"flying", "landed"} => bundle[o].lo >= -MaxTip

\* What is sent is what was judged: profitable at its quoted prices with the
\* tip it carries, and protected on the chain against all but that tip.
SentIsSafe == SentWasProfitable /\ LossWithinTip

\* What the pipeline reports agrees with the chain: Landed was landed without
\* an error, and nothing ever went out for a refused or paper-filled one.
ReportsAreTrue ==
    \A o \in Opps :
       /\ status[o] = "Landed" => bundle[o].state = "landed"
       /\ status[o] \in Refusals \cup {"Quoted", "PaperFilled"} => bundle[o].state = "none"

\* The channel holds each queued job once, and the job being simulated is the
\* simulator task's.
QueueExact ==
    /\ \A i \in DOMAIN queue : stage[queue[i]] = "queued"
    /\ \A i, k \in DOMAIN queue : queue[i] = queue[k] => i = k
    /\ \A o \in Opps : stage[o] = "sim" <=> o \in cur

\* Where an opportunity is decides what its status can be.
StatusByPlace ==
    \A o \in Opps :
       /\ stage[o] = "new" => status[o] = "New"
       /\ stage[o] \in {"priced", "built", "submit", "queued"} => status[o] \in {"Quoted", "Skipped"}
       /\ stage[o] = "requote" => status[o] = "Quoted"
       /\ o \in cur =>
             /\ pc = "simulate" => status[o] \in {"Quoted", "Skipped"}
             /\ pc = "decide" => status[o] = "Quoted"
             /\ pc \in {"paper", "register"} => status[o] = "Executable"
             /\ pc \in {"confirm", "expire"} => status[o] = "AwaitingConfirm"
             /\ pc = "compose" => status[o] \in {"Executable", "AwaitingConfirm"}
             /\ pc \in LivePcs => status[o] = "Submitted"

\* Nothing is out before `send`, and what the task was told has happened.
BundleByPlace ==
    \A o \in Opps :
       /\ status[o] \in {"New", "Executable", "AwaitingConfirm"} => bundle[o].state = "none"
       /\ o \in cur =>
             /\ pc \in {"live", "finalsim", "balance", "send"} => bundle[o].state = "none"
             /\ pc = "confirmed" => bundle[o].state \in {"landed", "reverted"}
             /\ pc = "post" => bundle[o].state = "landed"
             /\ pc = "close" /\ outcome \in {"Landed", "LandedUnknown"} => bundle[o].state = "landed"

\* The inductive invariant behind ReportsAreTrue, RefusalIsFinal and
\* ImplementsOneShot.
Track == QueueExact /\ StatusByPlace /\ BundleByPlace /\ ReportsAreTrue

\* A job's net counts the tip that will be paid, which the policy bounds.
CostsCounted == \A o \in Opps : job[o].net <= job[o].gross - job[o].tip /\ job[o].tip <= MaxTip

ApprovedPcs == {"paper", "register", "confirm", "expire", "compose"} \cup LivePcs

\* An approved job gains, and the loss booked so far is below a daily limit.
ApprovedIsSound ==
    pc \in ApprovedPcs => /\ \A o \in cur : job[o].net > 0
                          /\ \E l \in LossLimits : -risk.pnl < l

\* The day of the first job is after the default one, which has booked nothing.
DaysBegin == today >= 1 /\ (risk.day = 0 => risk.pnl = 0)

\* While losses were never allowed, protection is on, and what got past it
\* guarantees its costs: the route as it was quoted, or the new quote asked for.
Protected ==
    ~lossAllowed =>
       /\ ~LossPossible(th)
       /\ \A o \in Opps :
             /\ stage[o] \in {"built", "submit", "queued", "sim"} /\ status[o] # "Skipped"
                   => job[o].floor >= 0
             /\ stage[o] = "requote" => job[o].required >= 0

\* The inductive invariant behind SentIsSafe and LossStopsTrading.
Money == CostsCounted /\ ApprovedIsSound /\ DaysBegin /\ Protected /\ SentIsSafe

\* The lifecycle of OneShot, read off the pipeline's state.
Life(o) ==
    CASE stage[o] = "new"  -> "fresh"
      [] stage[o] = "done" -> "closed"
      [] stage[o] \notin {"new", "done"} /\ status[o] = "Quoted" -> "candidate"
      [] stage[o] \notin {"new", "done"} /\ status[o] = "Skipped" -> "sample"
      [] OTHER -> "approved"

Promise == INSTANCE OneShot WITH
               life <- [o \in Opps |-> Life(o)],
               sent <- {o \in Opps : bundle[o].state # "none"}

\* The pipeline implements the one-pass lifecycle of OneShot: one execution at
\* a time, at most one bundle per opportunity, refusals final.
ImplementsOneShot == Promise!Spec

\* Every opportunity whose evaluation started is concluded, whatever the
\* operator, the block engine and the chain do: no await of submit,
\* confirm_then_send or execute_live lasts forever.
EveryJobEnds == \A o \in Opps : stage[o] # "new" ~> stage[o] = "done"

----------------------------------------------------------------------------
(* What the documentation says, and the code does not do *)

\* "The kill switch (`K`) stops new submissions immediately" (SECURITY.md).
KillStopsSubmissions ==
    [][kill => \A o \in Opps : status'[o] = "Submitted" => status[o] = "Submitted"]_vars

\* "by default a landed trade cannot lose money, because the final leg's
\* on-chain minimum output covers the input, every cost and the minimum
\* profit" (docs/USAGE.md).
\* Does not hold: the minimum output is fixed with the first tip, the tip paid is
\* quoted after the simulation.  LossWithinTip is what holds.
LandedNeverLoses ==
    ~lossAllowed => \A o \in Opps : bundle[o].state = "landed" => bundle[o].lo >= 0
=============================================================================
