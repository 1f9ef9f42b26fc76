------------------------------ MODULE Measure ------------------------------
(***************************************************************************)
(* --research (research/mod.rs, lag.rs, ladder.rs, xchain.rs, report.rs):  *)
(* three measurements that share one Jupiter budget through the Gate.      *)
(*                                                                         *)
(*   lag      a gap between a pool and the exchange opens an episode: one  *)
(*            quote confirms it, the ways back are quoted after it         *)
(*   ladder   a route quoted leg by leg;  xchain  a buy and then a sell    *)
(*                                                                         *)
(* The machine may sleep, the run may be stopped or die at any point and a *)
(* new one started; --research-report joins the rows of all of them.       *)
(* A pool's price is its gap to the exchange; what a quote says beside     *)
(* having come is left out.  Time is not counted: a slot of the window     *)
(* ages out, a price goes stale and a timer fires when they do.            *)
(***************************************************************************)
EXTENDS Integers, Sequences, SequencesExt, FiniteSets, FiniteSetsExt, TLC

CONSTANTS Dexes,        \* the pools of [feeds]
          Capacity,     \* slots of the rate-limit window
          Trigger,      \* lag_trigger_bps
          Gaps,         \* gaps a pool may show
          Exits,        \* EXIT_AFTER_S
          Markouts,     \* lag_markouts_s: how many
          MaxMeasures,  \* bound: runs
          Budgets       \* bounds, of which a behaviour has one: episodes of a run, times the
                        \* machine sleeps, rounds of ladder and xchain, stops (a run always may die)

ASSUME MeasureAssumption ==
    /\ Capacity \in Nat /\ Capacity > 2 /\ Trigger \in Nat \ {0} /\ Exits \in Nat /\ Gaps \subseteq Int
    /\ Budgets \subseteq [sleeps : Nat, normal : Nat, episodes : Nat, stops : Nat]

VARIABLES
    gate,      \* the Gate: on, its three queues, the classes of the requests in the window
    flying,    \* requests sent, not answered
    task,      \* ladder and xchain: legs they have asked for
    lag,       \* evaluate: pools, open episodes, answers to read
    back,      \* the ways back in progress: episode -> those quoted
    episodes,  \* lag_episodes: <<run, id>> -> row
    exits,     \* lag_exit: <<run, id, after>>
    mrun,      \* the run: number, whether it is up, whether it is being stopped
    asleep,    \* the machine slept since evaluate last looked at the clock
    budget     \* what is left of the bounds

measureVars == <<gate, flying, task, lag, back, episodes, exits, mrun, asleep, budget>>

----------------------------------------------------------------------------
(* Gate *)

Class == [confirm |-> 1, scale |-> 1, exit |-> 2, ladder |-> 3, xchain |-> 3]

\* Mutant of RESERVE: every class takes the last slot.
ReserveNone == <<0, 0, 0>>

RESERVE == <<0, 1, 2>>

GateOff == [on |-> FALSE, queues |-> <<<<>>, <<>>, <<>>>>, sent |-> <<>>]

Job(who, id) == [who |-> who, id |-> id]

\* Gate::build: a job in its class's queue; refused once the gate has stopped.
Built(job) == [gate EXCEPT !.queues[Class[job.who]] = Append(@, job)]

\* The highest class with work starts when its slots are free; a lower one
\* never overtakes it.
Start(c) ==
    /\ gate.on /\ gate.queues[c] # <<>> /\ \A d \in 1..(c - 1) : gate.queues[d] = <<>>
    /\ Capacity - Len(gate.sent) > RESERVE[c]
    /\ gate' = [gate EXCEPT !.queues[c] = Tail(@), !.sent = Append(@, c)]
    /\ flying' = flying \cup {Head(gate.queues[c])}
    /\ UNCHANGED <<task, lag, back, episodes, exits, mrun, asleep, budget>>

\* The oldest request leaves the window.
AgesOut ==
    /\ gate.sent # <<>> /\ gate' = [gate EXCEPT !.sent = Tail(@)]
    /\ UNCHANGED <<flying, task, lag, back, episodes, exits, mrun, asleep, budget>>

\* The gate ends at once; what it has not sent is answered "stopped".
GateStops ==
    /\ mrun.stopping /\ gate.on
    /\ gate' = [gate EXCEPT !.on = FALSE, !.queues = GateOff.queues]
    /\ task' = [w \in DOMAIN task |-> IF Job(w, 0) \in Range(gate.queues[3]) THEN -1 ELSE task[w]]
    /\ lag' = [lag EXCEPT !.answers = @ \o SelectSeq([i \in DOMAIN gate.queues[1] |->
                    [id |-> gate.queues[1][i].id, ok |-> FALSE, who |-> gate.queues[1][i].who]],
                    LAMBDA a : a.who = "confirm")]
    /\ back' = [i \in DOMAIN back \ {gate.queues[2][k].id : k \in DOMAIN gate.queues[2]} |-> back[i]]
    /\ UNCHANGED <<flying, episodes, exits, mrun, asleep, budget>>

----------------------------------------------------------------------------
(* ladder::run and xchain::run: a request only after the answer to the one
   before; a failed leg ends the row, and so does a stop *)

Legs == 2

Round(who) ==
    /\ mrun.up /\ task[who] = 0 /\ budget.normal > 0
    /\ IF mrun.stopping \/ ~gate.on
       THEN task' = [task EXCEPT ![who] = -1] /\ UNCHANGED <<gate, budget>>
       ELSE /\ task' = [task EXCEPT ![who] = 1] /\ gate' = Built(Job(who, 0))
            /\ budget' = [budget EXCEPT !.normal = @ - 1]
    /\ UNCHANGED <<flying, lag, back, episodes, exits, mrun, asleep>>

\* The answer to a leg.
AnswerLeg(who, ok) ==
    /\ Job(who, 0) \in flying /\ flying' = flying \ {Job(who, 0)}
    /\ IF ok /\ task[who] < Legs /\ gate.on
       THEN task' = [task EXCEPT ![who] = @ + 1] /\ gate' = Built(Job(who, 0))
       ELSE /\ task' = [task EXCEPT ![who] = IF ok /\ task[who] < Legs THEN -1 ELSE 0]
            /\ UNCHANGED gate
    /\ UNCHANGED <<lag, back, episodes, exits, mrun, asleep, budget>>

LadderRound == Round("ladder")
AnswerLadder(ok) == AnswerLeg("ladder", ok)

\* xchain: the sell of what the buy would bring, with the other chains' prices
\* beside it.
XchainRound == Round("xchain")
AnswerXchain(ok) == AnswerLeg("xchain", ok)

----------------------------------------------------------------------------
(* lag: the answers of its quotes *)

\* confirm: evaluate is told; after an answer the ways back are quoted.
AnswerConfirm(id, ok) ==
    /\ Job("confirm", id) \in flying /\ flying' = flying \ {Job("confirm", id)}
    /\ lag' = [lag EXCEPT !.answers = Append(@, [id |-> id, ok |-> ok, who |-> "confirm"])]
    /\ back' = IF ok /\ gate.on THEN [i \in DOMAIN back \cup {id} |-> IF i = id THEN 0 ELSE back[i]] ELSE back
    /\ gate' = IF ok /\ gate.on /\ Exits > 0 THEN Built(Job("exit", id)) ELSE gate
    /\ UNCHANGED <<task, episodes, exits, mrun, asleep, budget>>

\* exits: the row of this delay, then the next one.
AnswerExit(id) ==
    LET k == back[id] + 1 IN
    /\ Job("exit", id) \in flying /\ flying' = flying \ {Job("exit", id)}
    /\ exits' = exits \cup {<<mrun.n, id, k>>}
    /\ IF k < Exits /\ gate.on
       THEN back' = [back EXCEPT ![id] = k] /\ gate' = Built(Job("exit", id))
       ELSE back' = [i \in DOMAIN back \ {id} |-> back[i]] /\ UNCHANGED gate
    /\ UNCHANGED <<task, lag, episodes, mrun, asleep, budget>>

\* scale: a bigger size, recorded on its own.
AnswerScale(id) ==
    /\ Job("scale", id) \in flying /\ flying' = flying \ {Job("scale", id)}
    /\ UNCHANGED <<gate, task, lag, back, episodes, exits, mrun, asleep, budget>>

----------------------------------------------------------------------------
(* evaluate *)

LagOff == [on |-> FALSE, pools |-> << >>, open |-> << >>, answers |-> <<>>, next |-> 0]

Abs(x) == IF x < 0 THEN -x ELSE x

\* upsert_episode: the row of each of the open episodes given.
Upsert(o, ids) ==
    [k \in DOMAIN episodes \cup {<<mrun.n, i>> : i \in ids} |->
        IF k[1] = mrun.n /\ k[2] \in ids THEN o[k[2]].row ELSE episodes[k]]

\* A pool's price arrives.
PoolTick(d, g) ==
    /\ lag.on
    /\ lag' = [lag EXCEPT !.pools = [x \in DOMAIN @ \cup {d} |-> IF x = d THEN g ELSE @[x]]]
    /\ UNCHANGED <<gate, flying, task, back, episodes, exits, mrun, asleep, budget>>

\* An answer is read: it counts for an episode that is still open; an
\* implausible price is an error.
Confirm(plausible) ==
    LET a == Head(lag.answers)
        ok == a.ok /\ plausible
        o == [lag.open[a.id] EXCEPT !.confirmed = TRUE,
                                    !.row.err = IF ok THEN @ ELSE "quote",
                                    !.row.mixed = @ \/ lag.open[a.id].row.epoch # budget.sleeps]
    IN /\ lag.on /\ lag.answers # <<>>
       /\ IF a.id \in DOMAIN lag.open
          THEN /\ lag' = [lag EXCEPT !.answers = Tail(@), !.open[a.id] = o]
               /\ episodes' = Upsert(lag'.open, {a.id})
          ELSE lag' = [lag EXCEPT !.answers = Tail(@)] /\ UNCHANGED episodes
       /\ UNCHANGED <<gate, flying, task, back, exits, mrun, asleep, budget>>

\* Mutant of Slept: the prices are dropped, the episodes go on.
SleptKeeps ==
    /\ lag.on /\ asleep /\ asleep' = FALSE
    /\ lag' = [lag EXCEPT !.pools = << >>]
    /\ UNCHANGED <<gate, flying, task, back, episodes, exits, mrun, budget>>

\* The first second after a sleep: every open episode is ended as interrupted,
\* every price forgotten.
Slept ==
    LET cut == [i \in DOMAIN lag.open |->
                    [lag.open[i] EXCEPT !.row.end = TRUE, !.row.err = IF @ = "none" THEN "slept" ELSE @]]
    IN /\ lag.on /\ asleep /\ asleep' = FALSE
       /\ episodes' = Upsert(cut, DOMAIN cut)
       /\ lag' = [lag EXCEPT !.open = << >>, !.pools = << >>]
       /\ UNCHANGED <<gate, flying, task, back, exits, mrun, budget>>

\* An open episode after a second: it ends when the gap closed, turned or
\* lasted too long, a control at once; marks are the markouts taken.
Aged(o, late, marks) ==
    LET here == o.row.dex \in DOMAIN lag.pools
        g == lag.pools[o.row.dex]
        over == here /\ ~o.closed /\ (o.row.kind = "control" \/ (g < 0) # (o.row.gap < 0) \/ Abs(g) * 2 < Trigger \/ late)
    IN [o EXCEPT !.closed = @ \/ over, !.row.end = @ \/ over, !.left = @ - marks,
                 !.row.mixed = @ \/ ((over \/ marks > 0) /\ o.row.epoch # budget.sleeps)]

\* No episode of the pool is under way.
MayOpen(open, d) == \A i \in DOMAIN open : open[i].row.dex = d => open[i].closed

\* Beside the episodes given those of the pools in new, numbered on; wide: the
\* pools over the trigger.
WithNew(open, new, wide) ==
    [i \in DOMAIN open \cup (lag.next + 1)..(lag.next + Len(new)) |->
        IF i \in DOMAIN open THEN open[i]
        ELSE LET d == new[i - lag.next]
             IN [row |-> [kind |-> IF d \in wide THEN "trigger" ELSE "control", dex |-> d, gap |-> lag.pools[d],
                          epoch |-> budget.sleeps, err |-> "none", end |-> FALSE, mixed |-> FALSE],
                 closed |-> FALSE, confirmed |-> FALSE, left |-> Markouts]]

\* Their quotes are asked for; of a gap over the trigger a bigger one too.
Entries(new, wide) ==
    IF gate.on
    THEN [gate EXCEPT !.queues[1] = @ \o FlattenSeq([i \in DOMAIN new |->
            IF new[i] \in wide /\ Abs(lag.pools[new[i]]) > Trigger
            THEN <<Job("confirm", lag.next + i), Job("scale", lag.next + i)>>
            ELSE <<Job("confirm", lag.next + i)>>])]
    ELSE gate

\* Those not done with.
StillOpen(aged) ==
    [i \in {j \in DOMAIN aged : ~(aged[j].closed /\ aged[j].confirmed /\ aged[j].left = 0)} |-> aged[i]]

\* Every episode is written as it now is; the pools in wide and turn open theirs.
Evaluated(aged, wide, turn) ==
    LET new == SetToSeq(wide) \o SetToSeq(turn)
        seen == WithNew(aged, new, wide)
    IN /\ lag.next + Len(new) <= budget.episodes
       /\ aged # lag.open \/ new # <<>>
       /\ lag' = [lag EXCEPT !.open = WithNew(StillOpen(aged), new, wide), !.next = @ + Len(new)]
       /\ episodes' = Upsert(seen, DOMAIN seen)
       /\ gate' = Entries(new, wide)

\* every_1s with an exchange price: the open episodes, then new ones: pools
\* over the trigger that have cooled, and a control in its turn, of those whose
\* price is fresh (ready: which have cooled and are fresh, any of them).
Second ==
    /\ lag.on /\ ~asleep
    /\ \E late \in SUBSET DOMAIN lag.open, marks \in [DOMAIN lag.open -> 0..Markouts],
          ready \in SUBSET DOMAIN lag.pools, control \in SUBSET DOMAIN lag.pools :
        LET aged == [i \in DOMAIN lag.open |-> Aged(lag.open[i], i \in late, marks[i])]
            wide == {d \in ready : Abs(lag.pools[d]) >= Trigger /\ MayOpen(StillOpen(aged), d)}
            turn == {d \in control : d \notin wide /\ MayOpen(StillOpen(aged), d)}
        IN /\ \A i \in DOMAIN marks : marks[i] <= lag.open[i].left
           /\ Cardinality(control) <= 1 /\ Evaluated(aged, wide, turn)
    /\ UNCHANGED <<flying, task, back, exits, mrun, asleep, budget>>

\* Stopping: what is open is written as it is.
LagStops ==
    /\ mrun.stopping /\ lag.on
    /\ lag' = LagOff /\ episodes' = Upsert(lag.open, DOMAIN lag.open)
    /\ UNCHANGED <<gate, flying, task, back, exits, mrun, asleep, budget>>

----------------------------------------------------------------------------
(* run *)

MeasureInit ==
    /\ gate = GateOff /\ flying = {} /\ task = [ladder |-> 0, xchain |-> 0] /\ lag = LagOff /\ back = << >>
    /\ episodes = << >> /\ exits = {} /\ asleep = FALSE
    /\ mrun = [n |-> 0, up |-> FALSE, stopping |-> FALSE]
    /\ budget \in Budgets

\* One run at a time (budget::acquire); each numbers its episodes from one.
RunStarts ==
    /\ ~mrun.up /\ mrun.n < MaxMeasures
    /\ mrun' = [n |-> mrun.n + 1, up |-> TRUE, stopping |-> FALSE]
    /\ gate' = [GateOff EXCEPT !.on = TRUE] /\ lag' = [LagOff EXCEPT !.on = TRUE]
    /\ task' = [ladder |-> 0, xchain |-> 0] /\ asleep' = FALSE
    /\ UNCHANGED <<flying, back, episodes, exits, budget>>

\* Ctrl-C, SIGTERM or the end of its time.
Stop ==
    /\ mrun.up /\ ~mrun.stopping /\ budget.stops > 0 /\ mrun' = [mrun EXCEPT !.stopping = TRUE]
    /\ UNCHANGED <<gate, flying, task, lag, back, episodes, exits, asleep, budget>>

\* The process ends: its tasks have ended or had their five seconds; or it
\* dies, at any point.
RunEnds ==
    /\ mrun.up /\ mrun' = [mrun EXCEPT !.up = FALSE, !.stopping = FALSE]
    /\ gate' = GateOff /\ lag' = LagOff /\ flying' = {} /\ back' = << >>
    /\ task' = [ladder |-> 0, xchain |-> 0] /\ asleep' = FALSE
    /\ UNCHANGED <<episodes, exits, budget>>

Sleeps ==
    /\ mrun.up /\ budget.sleeps > 0 /\ ~asleep
    /\ asleep' = TRUE /\ budget' = [budget EXCEPT !.sleeps = @ - 1]
    /\ UNCHANGED <<gate, flying, task, lag, back, episodes, exits, mrun>>

MeasureStep ==
    \/ AgesOut \/ GateStops \/ Slept \/ Second \/ LagStops \/ RunStarts \/ Stop \/ RunEnds \/ Sleeps
    \/ \E c \in 1..3 : Start(c)
    \/ LadderRound \/ XchainRound \/ (\E ok \in BOOLEAN : AnswerLadder(ok) \/ AnswerXchain(ok))
    \/ \E j \in flying : \/ \E ok \in BOOLEAN : AnswerConfirm(j.id, ok)
                         \/ AnswerExit(j.id)
                         \/ AnswerScale(j.id)
    \/ \E d \in Dexes, g \in Gaps : PoolTick(d, g)
    \/ \E p \in BOOLEAN : Confirm(p)

----------------------------------------------------------------------------
(* report::lag_exit: each way back under its episode's kind and pool, the
   episodes of every run in one map by their number *)

ByNumber(id) ==
    LET same == {k \in DOMAIN episodes : k[2] = id}
    IN episodes[CHOOSE k \in same : \A l \in same : l[1] <= k[1]]

GroupOf(x) == [kind |-> ByNumber(x[2]).kind, dex |-> ByNumber(x[2]).dex]

(* Properties *)

\* Exits never take the last slot of the window and the rest never the last
\* two, so that an entry finds one at once, whatever waits (RESERVE: "a lag
\* entry finds a slot at once even when the window is otherwise full").
EntryFindsASlot ==
    LET inWindow == Range(gate.sent)
    IN /\ 1 \notin inWindow => Len(gate.sent) <= Capacity - 1
       /\ {1, 2} \cap inWindow = {} => Len(gate.sent) <= Capacity - 2

\* A row with values from both sides of a sleep says so once evaluate has seen
\* the clock ("an open episode spans the gap. Start again from the feeds").
InterruptedIsSaid ==
    \A k \in DOMAIN episodes :
        k[1] = mrun.n /\ lag.on /\ ~asleep /\ episodes[k].mixed => episodes[k].err # "none"

\* The report counts each way back with the episode it belongs to ("grouped
\* like the episodes").
\* Does not hold: episodes of two runs have the same numbers.
ExitsUnderTheirEpisode ==
    \A x \in exits : GroupOf(x) = [kind |-> episodes[<<x[1], x[2]>>].kind, dex |-> episodes[<<x[1], x[2]>>].dex]
=============================================================================
