------------------------------- MODULE Router -------------------------------
(***************************************************************************)
(* The event-driven quote scheduler (execution/src/router.rs): Core, and   *)
(* the loop of run around it.                                              *)
(*                                                                         *)
(* Ticks of the market trigger the routes that read them; a route is       *)
(* quoted leg by leg with requests that routes share, in flight or from a  *)
(* cache; a fully quoted route is priced in a task of its own, and its     *)
(* decision moves the reference from which the next change is measured.    *)
(*                                                                         *)
(* A route has one job at a time, so a job goes by its route's name; that  *)
(* no list keeps the name of a job that is gone is part of                 *)
(* EveryJobHasAPlace.  Prices are small integers, moves are differences.   *)
(* Time is a counter that grows where two Instants are compared: at a      *)
(* tick's receipt, at a send, at a trigger set by a decision.  Ages (cache *)
(* lifetimes, the calibration floor, the rest after a failure, the budget  *)
(* window) are events that come at any time.  The score that orders routes *)
(* is a free choice, pool mids do not grow stale, and a move below         *)
(* UNCHANGED_BP is none.                                                   *)
(***************************************************************************)
EXTENDS Integers, FiniteSets, SequencesExt

CONSTANTS
    Routes, Specs,   \* routes, leg specifications
    Pools, Oracles,  \* watched pools, oracle prices
    LegsOf,          \* RouteDef.plan.legs: Routes -> Seq(Specs)
    Obs,             \* Observes: Specs -> a set of pools, AllPools or Unobservable
    OraclesOf,       \* RouteDef.oracles: Routes -> SUBSET Oracles
    AllPools, Unobservable,
    Amounts,         \* what a leg may return: the amount of the next leg
    Base,            \* CandidatePlan.amount
    Prices,          \* prices a tick may bring
    Opening,         \* the price when a route was decided before the start
    ChangeBp,        \* RouterConfig.change_bp
    MaxInFlight, Reserve, Capacity,
    None,
    MaxEvents        \* bound: ticks, calibrations, failures, requests of others

Inputs == Pools \cup Oracles
Snapshots == [Inputs -> Prices \cup {None}]
Times == Nat \cup {None}
Keys == Specs \X Amounts

Ticks == [input : Inputs, price : Prices, received : Nat]
Mids == UNION {[ps -> Prices] : ps \in SUBSET Pools}
Quotes == [sent : Nat, mids : Mids, out : Amounts]
Jobs == [legs : Seq(Quotes), picked : Nat, trigger : Times, background : BOOLEAN, inputs : Snapshots]
Pricings == [inputs : Snapshots, started : Nat]
Requests == [jobs : Seq(Routes), index : Nat, sent : Nat, mids : Mids]

ASSUME RouterAssumption ==
    /\ IsFiniteSet(Routes)
    /\ LegsOf \in [Routes -> Seq(Specs)] /\ \A r \in Routes : LegsOf[r] # <<>>
    /\ Obs \in [Specs -> (SUBSET Pools) \cup {AllPools, Unobservable}]
    /\ OraclesOf \in [Routes -> SUBSET Oracles]
    /\ Base \in Amounts /\ Prices \subseteq Int
    /\ Opening \in Prices
    /\ ChangeBp \in Nat \ {0} /\ MaxInFlight \in Nat \ {0}
    /\ Reserve \in Nat /\ Capacity \in Nat
    /\ MaxEvents \in Nat

ASSUME NoneAssumption ==
    /\ None \notin Nat /\ None \notin Prices /\ None \notin Routes /\ None \notin Snapshots
    /\ None \notin Ticks /\ None \notin Jobs /\ None \notin Pricings

VARIABLES
    clock,
    seen, at,      \* Core.mids, Core.oracles: the price last processed, or None, its receipt
    tick,          \* the tick that waits in the channel, or None
    trigger,       \* RouteState.trigger, or None
    triggered,     \* Core.triggered
    busy,          \* routes whose RouteState.job is set
    reference,     \* RouteState.reference, or None
    lastLegs,      \* RouteState.last_legs
    due, resting,  \* routes past the floor or never decided; failed just now
    jobs,          \* Core.jobs, or None
    pricing,       \* jobs handed to a pricing task, or None
    fresh,         \* the job being started, or None
    continuations, ready,
    inflight,      \* Core.inflight: key -> request
    blocked,       \* Core.blocked_on: key -> jobs
    cache,         \* Core.cache: key -> quote
    slots,         \* WindowLimiter.available
    loop,          \* run: in next, or in select! until an event, a slot or a deadline
    events         \* counter for the bound

market == <<seen, at, tick>>
route == <<trigger, triggered, busy, reference, lastLegs>>
ages == <<due, resting>>
lists == <<continuations, ready>>
requests == <<inflight, blocked, cache>>
vars == <<clock, market, route, ages, jobs, pricing, fresh, lists, requests, slots, loop, events>>

----------------------------------------------------------------------------
(* Routes and what they read *)

Abs(n) == IF n < 0 THEN -n ELSE n

ObsOf(r) == {Obs[LegsOf[r][i]] : i \in DOMAIN LegsOf[r]}
PoolsOf(r) == UNION (ObsOf(r) \ {AllPools, Unobservable})

\* A cross-dex route: one pool for each of its two legs, and not the same.
Signal(r) ==
    /\ Len(LegsOf[r]) = 2
    /\ {AllPools, Unobservable} \cap ObsOf(r) = {}
    /\ \A i \in 1..2 : Cardinality(Obs[LegsOf[r][i]]) = 1
    /\ Obs[LegsOf[r][1]] # Obs[LegsOf[r][2]]

\* A leg reads the whole market; but a best-route round trip does not depend
\* on the price level.
AnyPool(r) == ObsOf(r) # {AllPools} /\ {AllPools, Unobservable} \cap ObsOf(r) # {}

\* The routes a tick of this input touches.
Reads(r, i) == i \in PoolsOf(r) \/ i \in OraclesOf[r] \/ (AnyPool(r) /\ i \in Pools)

Known(s, ps) == {p \in ps : s[p] # None}
Moved(s, s0, p) == s[p] # None /\ s0[p] # None /\ Abs(s[p] - s0[p]) >= ChangeBp

Gap(r, s) ==
    s[CHOOSE p \in Obs[LegsOf[r][1]] : TRUE] - s[CHOOSE p \in Obs[LegsOf[r][2]] : TRUE]

Total(s) == LET known == Known(s, Pools) IN FoldSet(LAMBDA p, sum : s[p] + sum, 0, known)

\* The mean of the known mids, compared without dividing.
MeanMoved(s, s0) ==
    LET n == Cardinality(Known(s, Pools))
        n0 == Cardinality(Known(s0, Pools))
    IN  n > 0 /\ n0 > 0 /\ Abs(Total(s) * n0 - Total(s0) * n) >= ChangeBp * n * n0

\* change_bp >= cfg.change_bp; with both pools known only the gap matters.
Changed(r, s, s0) ==
    IF Signal(r) /\ Known(s, PoolsOf(r)) = PoolsOf(r) /\ Known(s0, PoolsOf(r)) = PoolsOf(r)
    THEN Abs(Gap(r, s) - Gap(r, s0)) >= ChangeBp
    ELSE \/ \E p \in PoolsOf(r) \cup OraclesOf[r] : Moved(s, s0, p)
         \/ AnyPool(r) /\ MeanMoved(s, s0)

----------------------------------------------------------------------------
(* Jobs, requests and quotes *)

\* mids_for: the known prices of the pools a quote reads.
Observed(o) == CASE o = Unobservable -> {}
                 [] o = AllPools -> Pools
                 [] OTHER -> o
MidsFor(o, s) == [p \in Known(s, Observed(o)) |-> s[p]]

Leg0Key(r) == <<LegsOf[r][1], Base>>

\* next_req: the leg a job needs next, at the amount the last one returned.
Complete(r) == Len(jobs[r].legs) = Len(LegsOf[r])
NextKey(r) ==
    LET legs == jobs[r].legs
    IN  <<LegsOf[r][Len(legs) + 1], IF legs = <<>> THEN Base ELSE Last(legs).out>>

\* Mutant of Reflects: any quote will do.
ReflectsAny(q, o, t) == TRUE

\* Does a quote (sent, with these mids) show what a job with this trigger must see?
Reflects(q, o, t) ==
    t # None => \/ q.sent >= t
                \/ /\ o # Unobservable
                   /\ DOMAIN q.mids = IF o = AllPools THEN Known(seen, Pools) ELSE o
                   /\ \A p \in DOMAIN q.mids : seen[p] = q.mids[p]

Sends(legs) == [i \in DOMAIN legs |-> legs[i].sent]

Waiting(r) == \E k \in DOMAIN inflight : r \in ToSet(inflight[k].jobs)
Reused(r) == Leg0Key(r) \in DOMAIN cache \cup DOMAIN inflight

\* Legs not sent yet of the jobs in progress.
Owed ==
    LET left(r) == Len(LegsOf[r]) - Len(jobs[r].legs)
        open == {r \in Routes : jobs[r] # None}
    IN  FoldSet(LAMBDA r, sum : sum + left(r) - (IF Waiting(r) /\ left(r) > 0 THEN 1 ELSE 0),
                0, open)

\* requests_for and what running routes still owe.
Need(r) == Len(LegsOf[r]) - (IF Reused(r) THEN 1 ELSE 0) + Owed

\* Mutant of Available: one slot too many.
AvailableOneMore(reserve) == IF slots + 1 > reserve THEN slots + 1 - reserve ELSE 0

\* WindowLimiter::available, keeping a reserve.
Available(reserve) == IF slots > reserve THEN slots - reserve ELSE 0

Without(f, k) == [x \in DOMAIN f \ {k} |-> f[x]]
With(f, k, v) == [x \in DOMAIN f \cup {k} |-> IF x = k THEN v ELSE f[x]]
BlockedOn(k) == IF k \in DOMAIN blocked THEN blocked[k] ELSE <<>>

\* Some routes have been decided, from quotes that are long out of the cache;
\* with none of them, and no price known, it is the state of Core::new.
Start(undecided) ==
    /\ clock = 0 /\ tick = None /\ at = [i \in Inputs |-> 0]
    /\ seen = [i \in Inputs |-> IF undecided = Routes THEN None ELSE Opening]
    /\ trigger = [r \in Routes |-> None] /\ triggered = {} /\ busy = {}
    /\ reference = [r \in Routes |-> IF r \in undecided THEN None ELSE seen]
    /\ lastLegs = [r \in Routes |-> IF r \in undecided THEN <<>> ELSE [i \in DOMAIN LegsOf[r] |-> 0]]
    /\ due = undecided /\ resting = {}
    /\ jobs = [r \in Routes |-> None] /\ pricing = [r \in Routes |-> None] /\ fresh = None
    /\ continuations = <<>> /\ ready = <<>>
    /\ inflight = <<>> /\ blocked = <<>> /\ cache = <<>>
    /\ slots = Capacity /\ loop = "next"
    /\ events = Cardinality(undecided)

Init == \E undecided \in SUBSET Routes : Start(undecided)

----------------------------------------------------------------------------
(* Ticks *)

InSelect == loop # "next"
Event == events < MaxEvents /\ events' = events + 1

\* A tick arrives in the channel, stamped with its receipt; select! may take
\* other events, and next may send requests, before it is handled.
Receive(i, m) ==
    /\ InSelect /\ tick = None /\ seen[i] # m /\ Event
    /\ clock' = clock + 1
    /\ tick' = [input |-> i, price |-> m, received |-> clock + 1]
    /\ UNCHANGED <<seen, at, route, ages, jobs, pricing, fresh, lists, requests, slots, loop>>

\* touch: decided routes that read the input and differ from their reference.
Touched(s, i) == {r \in Routes : Reads(r, i) /\ reference[r] # None
                              /\ Changed(r, s, reference[r])}

\* touch: changes that reverted before anything was spent on them.
Reverted(s, i) == {r \in Routes \ busy : Reads(r, i) /\ reference[r] # None /\ trigger[r] # None
                                      /\ ~Changed(r, s, reference[r])}

\* A cached leg survives unless the tick's pool has left the price it saw.
Valid(q, i, m) == i \in DOMAIN q.mids => Abs(m - q.mids[i]) < ChangeBp

\* on_tick
OnTick ==
    /\ InSelect /\ tick # None
    /\ LET i == tick.input  m == tick.price
           s == [seen EXCEPT ![i] = m]
       IN  /\ seen' = s /\ at' = [at EXCEPT ![i] = tick.received]
           /\ cache' = [k \in {x \in DOMAIN cache : Valid(cache[x], i, m)} |-> cache[k]]
           /\ trigger' = [r \in Routes |->
                 CASE r \in Touched(s, i) /\ trigger[r] = None -> tick.received
                   [] r \in Reverted(s, i) -> None
                   [] OTHER -> trigger[r]]
           /\ triggered' = (triggered \cup Touched(s, i)) \ Reverted(s, i)
    /\ tick' = None /\ loop' = "next"
    /\ UNCHANGED <<clock, busy, reference, lastLegs, ages, jobs, pricing, fresh, lists,
                   inflight, blocked, slots, events>>

----------------------------------------------------------------------------
(* next: one call is a run of the steps below; nothing else of the        *)
(* scheduler happens in between.                                           *)

InNext == loop = "next" /\ UNCHANGED <<market, events>>

\* Mutant of Repeat: finished jobs are always priced.
NeverRepeat(r) == FALSE

\* pop_ready: exactly the quotes the route was last priced from.
Repeat(r) == Sends(jobs[r].legs) = lastLegs[r]

\* pop_ready drops a repeat.
DropRepeat ==
    /\ InNext /\ ready # <<>> /\ Repeat(Head(ready))
    /\ LET r == Head(ready) IN
       /\ jobs' = [jobs EXCEPT ![r] = None] /\ busy' = busy \ {r}
       /\ trigger' = [trigger EXCEPT ![r] = None] /\ triggered' = triggered \ {r}
    /\ ready' = Tail(ready)
    /\ UNCHANGED <<clock, reference, lastLegs, ages, pricing, fresh, continuations, requests,
                   slots, loop>>

\* Step::Finish: take_ready, and the pricing task.
Finish ==
    /\ InNext /\ ready # <<>> /\ ~Repeat(Head(ready))
    /\ LET r == Head(ready) IN
       /\ lastLegs' = [lastLegs EXCEPT ![r] = Sends(jobs[r].legs)]
       /\ pricing' = [pricing EXCEPT ![r] = [inputs |-> jobs[r].inputs, started |-> jobs[r].picked]]
       /\ jobs' = [jobs EXCEPT ![r] = None]
    /\ ready' = Tail(ready)
    /\ UNCHANGED <<clock, trigger, triggered, busy, reference, ages, fresh, continuations,
                   requests, slots, loop>>

\* The job advance works on: the one just started, or the first continuation.
Working(r) ==
    /\ InNext /\ ready = <<>>
    /\ IF fresh # None THEN r = fresh ELSE continuations # <<>> /\ r = Head(continuations)

\* It leaves the place advance found it in.
Placed ==
    IF fresh # None THEN fresh' = None /\ UNCHANGED continuations
                    ELSE continuations' = Tail(continuations) /\ UNCHANGED fresh

Cached(r) ==
    /\ NextKey(r) \in DOMAIN cache
    /\ Reflects(cache[NextKey(r)], Obs[NextKey(r)[1]], jobs[r].trigger)

InFlight(r) == ~Cached(r) /\ NextKey(r) \in DOMAIN inflight
Shares(r) == Reflects(inflight[NextKey(r)], Obs[NextKey(r)[1]], jobs[r].trigger)

\* advance: all legs are there.
BecomesReady(r) ==
    /\ Working(r) /\ Complete(r)
    /\ ready' = Append(ready, r) /\ Placed
    /\ UNCHANGED <<clock, route, ages, jobs, pricing, requests, slots, loop>>

\* advance: a cached leg.
TakesCached(r) ==
    /\ Working(r) /\ ~Complete(r) /\ Cached(r)
    /\ jobs' = [jobs EXCEPT ![r].legs = Append(@, cache[NextKey(r)])]
    /\ UNCHANGED <<clock, route, ages, pricing, fresh, lists, requests, slots, loop>>

\* advance: the same request is in flight and shows what the job must see.
Coalesces(r) ==
    /\ Working(r) /\ ~Complete(r) /\ InFlight(r) /\ Shares(r)
    /\ inflight' = [inflight EXCEPT ![NextKey(r)].jobs = Append(@, r)] /\ Placed
    /\ UNCHANGED <<clock, route, ages, jobs, pricing, ready, blocked, cache, slots, loop>>

\* advance: it was sent before the trigger; wait for it to end.
Blocks(r) ==
    /\ Working(r) /\ ~Complete(r) /\ InFlight(r) /\ ~Shares(r)
    /\ blocked' = With(blocked, NextKey(r), Append(BlockedOn(NextKey(r)), r)) /\ Placed
    /\ UNCHANGED <<clock, route, ages, jobs, pricing, ready, inflight, cache, slots, loop>>

\* advance: a request has to be sent.
MustSend(r) == ~Complete(r) /\ ~Cached(r) /\ ~InFlight(r)
Full == Cardinality(DOMAIN inflight) >= MaxInFlight

\* dispatch: with a slot, of which calibration leaves the reserve.
Dispatch(r) ==
    /\ Working(r) /\ MustSend(r) /\ ~Full
    /\ Available(IF fresh # None /\ jobs[r].background THEN Reserve ELSE 0) > 0
    /\ slots' = slots - 1 /\ clock' = clock + 1
    /\ inflight' = With(inflight, NextKey(r),
                        [jobs |-> <<r>>, index |-> Len(jobs[r].legs), sent |-> clock + 1,
                         mids |-> MidsFor(Obs[NextKey(r)[1]], seen)])
    /\ Placed
    /\ UNCHANGED <<route, ages, jobs, pricing, ready, blocked, cache, loop>>

\* A continuation waits for an answer (all requests are out) or for a slot.
ContinuationWaits(r) ==
    /\ Working(r) /\ fresh = None /\ MustSend(r)
    /\ \/ Full /\ loop' = "event"
       \/ ~Full /\ slots = 0 /\ loop' = "slot"
    /\ UNCHANGED <<clock, route, ages, jobs, pricing, fresh, lists, requests, slots>>

\* abandon: a route whose change is unanswered stays among the triggered.
StillNews(r) == IF trigger[r] # None THEN triggered \cup {r} ELSE triggered

\* abandon: the slot was taken by somebody else between the two checks.
Abandon(r) ==
    /\ Working(r) /\ fresh # None /\ MustSend(r)
    /\ Available(IF jobs[r].background THEN Reserve ELSE 0) = 0
    /\ jobs' = [jobs EXCEPT ![r] = None] /\ busy' = busy \ {r} /\ fresh' = None
    /\ triggered' = StillNews(r)
    /\ loop' = "slot"
    /\ UNCHANGED <<clock, trigger, reference, lastLegs, ages, pricing, lists, requests, slots>>

\* Triggered routes first, then calibration.
Urgent == {r \in triggered : r \notin busy /\ r \notin resting}
Calibrate == {r \in due : r \notin busy /\ r \notin resting}
Candidates == IF Urgent # {} THEN Urgent ELSE Calibrate
ReserveOf == IF Urgent # {} THEN 0 ELSE Reserve

Idle == InNext /\ ready = <<>> /\ fresh = None /\ continuations = <<>>

\* start_job, after admission.
StartJob(r) ==
    /\ Idle /\ ~Full /\ r \in Candidates
    /\ Available(ReserveOf) >= Need(r)
    /\ jobs' = [jobs EXCEPT ![r] = [legs |-> <<>>, picked |-> clock, trigger |-> trigger[r],
                                    background |-> Urgent = {}, inputs |-> seen]]
    /\ busy' = busy \cup {r} /\ triggered' = triggered \ {r} /\ fresh' = r
    /\ UNCHANGED <<clock, trigger, reference, lastLegs, ages, pricing, lists, requests, slots, loop>>

\* Nothing to do: requests all out, no candidate, or no budget for the chosen one.
NothingToDo ==
    /\ Idle
    /\ \/ Full /\ loop' = "event"
       \/ ~Full /\ Candidates = {} /\ loop' = "deadline"
       \/ ~Full /\ (\E r \in Candidates : Available(ReserveOf) < Need(r)) /\ loop' = "slot"
    /\ UNCHANGED <<clock, route, ages, jobs, pricing, fresh, lists, requests, slots>>


----------------------------------------------------------------------------
(* Answers, decisions, timers *)

\* The entries of a list that are in R, in their order.
Only(list, R) ==
    LET kept[i \in 0..Len(list)] ==
            IF i = 0 THEN <<>>
            ELSE IF list[i] \in R THEN Append(kept[i - 1], list[i]) ELSE kept[i - 1]
    IN  kept[Len(list)]

\* Mutant of Served: the quote goes to the job that asked first.
ServedFirst(f) == {Head(f.jobs)}

\* The answer's jobs that wait for this very leg.
Served(f) == {r \in ToSet(f.jobs) : Len(jobs[r].legs) = f.index}
LastLeg(f) == {r \in Routes : f.index + 1 = Len(LegsOf[r])}
Completed(f) == Only(f.jobs, Served(f) \cap LastLeg(f))
Continued(f) == Only(f.jobs, Served(f) \ LastLeg(f))

\* on_leg: the quote goes to every job that waits for it, and to the cache.
OnLegOk(k, out) ==
    /\ InSelect /\ k \in DOMAIN inflight
    /\ LET f == inflight[k]
           q == [sent |-> f.sent, mids |-> f.mids, out |-> out]
       IN  /\ cache' = With(cache, k, q)
           /\ jobs' = [r \in Routes |-> IF r \in Served(f)
                                        THEN [jobs[r] EXCEPT !.legs = Append(@, q)] ELSE jobs[r]]
           /\ ready' = ready \o Completed(f)
           /\ continuations' = continuations \o BlockedOn(k) \o Continued(f)
    /\ inflight' = Without(inflight, k) /\ blocked' = Without(blocked, k)
    /\ loop' = "next"
    /\ UNCHANGED <<clock, market, route, ages, pricing, fresh, slots, events>>

\* Mutant of Freed: the routes of a failed request keep their job.
FreedNone(rs) == busy

\* on_leg: the routes of a failed request are without a job.
Freed(rs) == busy \ rs

\* Mutant of Retried: the route waits for the next tick.
RetriedNot(rs) == triggered

\* on_leg: a change that met the rate limit is tried again.
Retried(rs) == triggered \cup {r \in rs : trigger[r] # None}

\* on_leg: the request failed; by the rate limit the budget is blocked too.
OnLegErr(k, limited) ==
    /\ InSelect /\ k \in DOMAIN inflight /\ Event
    /\ LET rs == ToSet(inflight[k].jobs) IN
       /\ jobs' = [r \in Routes |-> IF r \in rs THEN None ELSE jobs[r]]
       /\ busy' = Freed(rs) /\ resting' = resting \cup rs
       /\ IF limited
          THEN triggered' = Retried(rs) /\ slots' = 0 /\ UNCHANGED trigger
          ELSE /\ trigger' = [r \in Routes |-> IF r \in rs THEN None ELSE trigger[r]]
               /\ UNCHANGED <<triggered, slots>>
       /\ continuations' = continuations \o BlockedOn(k)
    /\ inflight' = Without(inflight, k) /\ blocked' = Without(blocked, k)
    /\ loop' = "next"
    /\ UNCHANGED <<clock, market, reference, lastLegs, due, pricing, fresh, ready, cache>>

\* on_decided: a trigger the job started after is answered, a later one
\* stays, and the market may already differ from the new reference.
OnDecided(r) ==
    /\ InSelect /\ pricing[r] # None
    /\ LET later == trigger[r] # None /\ trigger[r] > pricing[r].started
           again == ~later /\ Changed(r, seen, pricing[r].inputs)
       IN  /\ trigger' = [trigger EXCEPT ![r] = IF later THEN @ ELSE IF again THEN clock + 1 ELSE None]
           /\ triggered' = IF later \/ again THEN triggered \cup {r} ELSE triggered
           /\ clock' = IF again THEN clock + 1 ELSE clock
    /\ reference' = [reference EXCEPT ![r] = pricing[r].inputs]
    /\ busy' = busy \ {r} /\ due' = due \ {r}
    /\ pricing' = [pricing EXCEPT ![r] = None]
    /\ loop' = "next"
    /\ UNCHANGED <<market, lastLegs, resting, jobs, fresh, lists, requests, slots, events>>

\* The sleep of select!: until a slot, or until a route is due and rested.
Timer ==
    /\ \/ loop = "slot" /\ slots > 0
       \/ loop = "deadline" /\ Calibrate # {}
    /\ loop' = "next"
    /\ UNCHANGED <<clock, market, route, ages, jobs, pricing, fresh, lists, requests, slots, events>>

----------------------------------------------------------------------------
(* What time brings, and the other users of the budget.  Each of these     *)
(* happens where the scheduler looks next: before that it shows nowhere.   *)

\* cached: a leg is too old when a job comes to reuse it.
Expire(r) ==
    /\ Working(r) /\ ~Complete(r) /\ NextKey(r) \in DOMAIN cache
    /\ cache' = Without(cache, NextKey(r))
    /\ UNCHANGED <<clock, route, ages, jobs, pricing, fresh, lists, inflight, blocked, slots, loop>>

\* The floor is far longer than a cached leg lives.
Floor(r) ==
    /\ InSelect /\ r \notin due /\ reference[r] # None /\ Event
    /\ cache' = [k \in {x \in DOMAIN cache : cache[x].sent \notin ToSet(lastLegs[r])} |-> cache[k]]
    /\ due' = due \cup {r}
    /\ UNCHANGED <<clock, market, route, resting, jobs, pricing, fresh, lists, inflight, blocked,
                   slots, loop>>

Rested(r) ==
    /\ InSelect /\ r \in resting /\ resting' = resting \ {r}
    /\ UNCHANGED <<clock, market, route, due, jobs, pricing, fresh, lists, requests, slots, loop, events>>

SlotFrees ==
    /\ loop = "slot" /\ slots < Capacity /\ slots' = slots + 1
    /\ UNCHANGED <<clock, market, route, ages, jobs, pricing, fresh, lists, requests, loop, events>>

\* The pipeline's re-quotes take slots of the same window, and the gateway
\* reports those of other clients.
OtherUse ==
    /\ fresh # None /\ slots > 0 /\ slots' \in 0..(slots - 1) /\ Event
    /\ UNCHANGED <<clock, market, route, ages, jobs, pricing, fresh, lists, requests, loop>>

----------------------------------------------------------------------------
Advance(r) == \/ BecomesReady(r) \/ TakesCached(r) \/ Coalesces(r) \/ Blocks(r)
              \/ Dispatch(r) \/ ContinuationWaits(r) \/ Abandon(r)

Core == DropRepeat \/ Finish \/ NothingToDo \/ \E r \in Routes : Advance(r) \/ StartJob(r)

Answer(k) == (\E out \in Amounts : OnLegOk(k, out)) \/ (\E limited \in BOOLEAN : OnLegErr(k, limited))

OnMessage == (\E k \in Keys : Answer(k)) \/ (\E r \in Routes : OnDecided(r))

Next ==
    \/ Core \/ OnTick \/ Timer \/ SlotFrees \/ OtherUse
    \/ OnMessage
    \/ \E r \in Routes : Expire(r) \/ Floor(r) \/ Rested(r)
    \/ \E i \in Inputs, m \in Prices : Receive(i, m)

Spec == Init /\ [][Next]_vars

\* The loop runs, requests and pricing end, sends age out of the window.
\* select! takes a random ready branch, so a message is not passed over for good.
FairSpec ==
    /\ Spec /\ WF_vars(Core) /\ WF_vars(Timer) /\ WF_vars(SlotFrees)
    /\ SF_vars(OnMessage)

----------------------------------------------------------------------------
(* Properties *)

\* Type correctness: states, jobs, lists, requests and the cache.
TypeOK ==
    /\ clock \in Nat /\ seen \in Snapshots /\ at \in [Inputs -> Nat] /\ slots \in 0..Capacity
    /\ tick \in Ticks \cup {None}
    /\ trigger \in [Routes -> Times] /\ lastLegs \in [Routes -> Seq(Nat)]
    /\ triggered \subseteq Routes /\ busy \subseteq Routes
    /\ due \subseteq Routes /\ resting \subseteq Routes /\ fresh \in Routes \cup {None}
    /\ reference \in [Routes -> Snapshots \cup {None}]
    /\ jobs \in [Routes -> Jobs \cup {None}] /\ pricing \in [Routes -> Pricings \cup {None}]
    /\ continuations \in Seq(Routes) /\ ready \in Seq(Routes)
    /\ inflight \in [DOMAIN inflight -> Requests] /\ blocked \in [DOMAIN blocked -> Seq(Routes)]
    /\ DOMAIN inflight \subseteq Keys /\ Cardinality(DOMAIN inflight) <= MaxInFlight
    /\ cache \in [DOMAIN cache -> Quotes] /\ DOMAIN cache \subseteq Keys
    /\ loop \in {"next", "event", "slot", "deadline"} /\ events \in Nat

\* Where the scheduler holds jobs: each of its lists by name, and by key.
Places == ({"continuations", "ready", "fresh"} \X {None}) \cup ({"inflight", "blocked"} \X Keys)
Held == [n \in Places |->
    CASE n[1] = "continuations" -> continuations
      [] n[1] = "ready" -> ready
      [] n[1] = "fresh" -> IF fresh = None THEN <<>> ELSE <<fresh>>
      [] n[1] = "inflight" -> IF n[2] \in DOMAIN inflight THEN inflight[n[2]].jobs ELSE <<>>
      [] n[1] = "blocked" -> BlockedOn(n[2])]

\* No route is named twice, within a list or across them.
Once(held) ==
    \A m, n \in DOMAIN held : \A i \in DOMAIN held[m], j \in DOMAIN held[n] :
        held[m][i] = held[n][j] => m = n /\ i = j
Named(held) == UNION {ToSet(held[n]) : n \in DOMAIN held}

\* A route counts as having a job exactly while it is quoted or priced, and
\* none is held in two places, whatever is answered, fails or is abandoned.
NoJobTwice ==
    /\ busy = {r \in Routes : jobs[r] # None \/ pricing[r] # None}
    /\ \A r \in Routes : ~(jobs[r] # None /\ pricing[r] # None)
    /\ Named(Held) \subseteq {r \in Routes : jobs[r] # None}
    /\ Once(Held)
    /\ DOMAIN blocked \subseteq DOMAIN inflight

\* No job is lost either: each is in the lists, the requests or blocked on a
\* request that is in flight.  (A job in no list would keep its route from
\* ever being quoted again.)
EveryJobHasAPlace == NoJobTwice /\ {r \in Routes : jobs[r] # None} \subseteq Named(Held)

\* A leg has the same place in every route it is part of: so it is for routes
\* of two legs, which all begin with the base (config.rs:1340), not for cycles
\* of different lengths.
LegsHaveOnePlace ==
    \A r1, r2 \in Routes : \A i \in DOMAIN LegsOf[r1], j \in DOMAIN LegsOf[r2] :
        LegsOf[r1][i] = LegsOf[r2][j] => i = j

\* "changes that arrived while the job ran are still news": a pending change
\* of a route that has no job is among those the scheduler picks from,
\* whether its job was priced, abandoned or met the rate limit.
PendingNewsIsScheduled ==
    \A r \in Routes : trigger[r] # None /\ r \notin busy => r \in triggered

\* Nothing the scheduler was told gets lost: the state is well formed, each job
\* is in exactly one place and each change waits where next will find it (every
\* path of next, advance, abandon, on_leg and on_decided).
NothingIsLost == TypeOK /\ EveryJobHasAPlace /\ PendingNewsIsScheduled

\* Later at the first quote that differs.
Newer(s, t) == \E i \in DOMAIN s :
    /\ \A j \in 1..(i - 1) : j \in DOMAIN t /\ s[j] = t[j]
    /\ i \in DOMAIN t => s[i] > t[i]

\* "identical quotes are never priced twice", and neither are older ones: each
\* pricing of a route starts from quotes newer than those of the one before.
DecisionsAreNewer ==
    [][\A r \in Routes : pricing[r] = None /\ pricing'[r] # None
                         => Newer(lastLegs'[r], lastLegs[r])]_vars

\* A tick of this input was processed since the route's job was picked.
MovedSince(r, p) == at[p] > jobs[r].picked \/ seen[p] # jobs[r].inputs[p]

\* A quote of a triggered job was sent after the trigger, or saw the market the
\* job was picked for: each pool it reads is where the quote saw it, unless the
\* pool has moved since.
Shows(q, o, r) ==
    jobs[r].trigger # None =>
       \/ q.sent >= jobs[r].trigger
       \/ /\ o # Unobservable
          /\ \A p \in Known(seen, Observed(o)) :
                MovedSince(r, p) \/ (p \in DOMAIN q.mids /\ q.mids[p] = seen[p])

\* A triggered job is quoted, priced or dropped as a repeat from quotes that
\* show the change it was started for, however long it waited for a slot or for
\* other jobs' requests, and whatever failed on the way.
QuotesShowTheChange ==
    \A r \in Routes : jobs[r] # None =>
       \A i \in DOMAIN jobs[r].legs : Shows(jobs[r].legs[i], Obs[LegsOf[r][i]], r)

\* "a triggered route reuses a quote only if it is newer than the change or its
\* pools did not move at all": when a triggered job is ready, a quote sent
\* before the job was picked saw the price the job started from, or was sent
\* after the tick that brought it (unless a later tick hides which one did).
\* Does not hold: a route keeps the time of its first change (router.rs:598).
ReusedQuotesSeeTheChange ==
    \A r \in ToSet(ready) : jobs[r].trigger # None =>
       \A i \in DOMAIN jobs[r].legs :
          LET q == jobs[r].legs[i] IN
          q.sent <= jobs[r].picked =>
             \A p \in DOMAIN q.mids : \/ q.mids[p] = jobs[r].inputs[p]
                                      \/ q.sent >= at[p]
                                      \/ at[p] > jobs[r].picked

\* Every job that is started comes to an end: priced, dropped or failed.
EveryJobEnds == \A r \in Routes : r \in busy ~> r \notin busy
=============================================================================
