------------------------------ MODULE Recorder ------------------------------
(***************************************************************************)
(* The event log: the bus (telemetry/src/bus.rs), the recorder thread and  *)
(* its janitor (storage/src/recorder.rs), the store (store.rs) and         *)
(* retention (retention.rs).                                               *)
(*                                                                         *)
(* Instances of the program record into one database file, one session     *)
(* each.  The janitor of one, and the --prune of the command line, prune   *)
(* the sessions of all in small transactions between which the recorders   *)
(* write.  Sessions crash, and batches fail.                               *)
(*                                                                         *)
(* Time is the class of a session's last activity: within the hour, older, *)
(* older than keep_days, older than keep_trading_days.                     *)
(***************************************************************************)
EXTENDS Integers, SequencesExt

CONSTANTS
    Sessions,
    Queue,      \* capacity of the channel to the recorder
    Batch,      \* events per write
    Block,      \* BLOCK_EVENTS
    Emitted,    \* the kinds of events of this instance
    MaxEvents,  \* bound: events of one session
    Command     \* the --prune of the command line

\* Thinned: metrics.  Held: raw quotes of the session's opportunity.  Verdicts
\* on it: "quoted", "skipped" (terminal), "notable".
Kinds == {"metric", "raw", "quoted", "skipped", "notable", "trade", "other"}

ASSUME RecorderAssumption ==
    /\ IsFiniteSet(Sessions)
    /\ {Queue, Batch, Block} \subseteq Nat \ {0}
    /\ Emitted \subseteq Kinds
    /\ MaxEvents \in Nat /\ Command \notin Sessions

VARIABLES
    bus,      \* EventBus of each session: queue, emitted, dropped, closed
    rec,      \* its recorder thread
    thin,     \* its Store's Thinning
    db,       \* the database, by session
    janitor,  \* its janitor thread, and the command
    aged,     \* the last event of a session that is older than keep_days
    past      \* history, by session: what was written, thinned, failed, expired,
              \* and whether its deletion has begun

vars == <<bus, rec, thin, db, janitor, aged, past>>

NewBus == [queue |-> <<>>, emitted |-> 0, dropped |-> 0, closed |-> FALSE, skipped |-> FALSE]
Fresh == [quotes |-> {}, notable |-> FALSE, metric |-> FALSE]
NoRows == [row |-> "none", activity |-> 0, events |-> <<>>, blocks |-> <<>>, counted |-> 0,
           quotes |-> {}, traded |-> FALSE, total |-> 0, dropped |-> 0]
Resting == [pc |-> "rest", runs |-> 0, todo |-> <<>>, kept |-> <<>>, of |-> <<>>]
NotRunning == [Resting EXCEPT !.pc = "off"]

Init ==
    /\ bus = [s \in Sessions |-> NewBus]
    /\ rec = [s \in Sessions |-> [pc |-> "off", seq |-> 0, buf |-> <<>>, stop |-> FALSE]]
    /\ thin = [s \in Sessions |-> Fresh]
    /\ db = [s \in Sessions |-> NoRows]
    /\ janitor = [p \in Sessions \cup {Command} |-> IF p = Command THEN Resting ELSE NotRunning]
    /\ aged = [s \in Sessions |-> 0]
    /\ past = [s \in Sessions |-> [written |-> {}, thinned |-> 0, failed |-> 0, expired |-> {},
                                  deleted |-> FALSE]]

----------------------------------------------------------------------------
(* The bus *)

\* The pipeline says nothing more of an opportunity it skipped.
\* emit: the storage path never blocks, it drops and counts.  (The path to the
\* UI does the same with a queue of its own, which nothing else depends on.)
Emit(s, kind) ==
    /\ rec[s].pc # "off" /\ rec[s].pc # "crashed" /\ ~bus[s].closed
    /\ bus[s].emitted < MaxEvents /\ kind \in Emitted
    /\ bus[s].skipped => kind \notin {"raw", "quoted", "skipped", "notable"}
    /\ bus' = [bus EXCEPT ![s].emitted = @ + 1, ![s].skipped = @ \/ kind = "skipped",
                          ![s].queue = IF Len(@) < Queue THEN Append(@, kind) ELSE @,
                          ![s].dropped = IF Len(bus[s].queue) < Queue THEN @ ELSE @ + 1]
    /\ UNCHANGED <<rec, thin, db, janitor, aged, past>>

\* Running::stop aborts the tasks and drops the bus: no event comes after it.
Stop(s) ==
    /\ rec[s].pc # "off" /\ rec[s].pc # "crashed" /\ ~bus[s].closed
    /\ bus' = [bus EXCEPT ![s].closed = TRUE]
    /\ UNCHANGED <<rec, thin, db, janitor, aged, past>>

----------------------------------------------------------------------------
(* The store *)

\* Thinning::keep of one event, with the memory it leaves.  Metrics of the
\* model follow each other within a second.
Keep(t, kind) == ~(kind = "metric" /\ t.metric)

\* project: what one kept event [seq, kind] does to the tables and the memory.
\* Quotes wait for a verdict, are written with a notable one and dropped with a
\* plain terminal one.
\* Mutant of Project: a notable verdict leaves the quotes waiting.
ProjectLate(d, t, e) ==
    CASE e.kind = "raw" -> [db |-> IF t.notable THEN [d EXCEPT !.quotes = @ \cup {e.seq}] ELSE d,
                            thin |-> IF t.notable THEN t ELSE [t EXCEPT !.quotes = @ \cup {e.seq}]]
      [] e.kind = "notable" -> [db |-> d, thin |-> [t EXCEPT !.notable = TRUE]]
      [] OTHER -> [db |-> d, thin |-> t]

Project(d, t, e) ==
    CASE e.kind = "raw" -> [db |-> IF t.notable THEN [d EXCEPT !.quotes = @ \cup {e.seq}] ELSE d,
                            thin |-> IF t.notable THEN t ELSE [t EXCEPT !.quotes = @ \cup {e.seq}]]
      [] e.kind = "notable" -> [db |-> [d EXCEPT !.quotes = @ \cup t.quotes],
                                thin |-> [t EXCEPT !.notable = TRUE, !.quotes = {}]]
      [] e.kind = "skipped" -> [db |-> d, thin |-> [t EXCEPT !.quotes = {}]]
      [] e.kind = "trade" -> [db |-> [d EXCEPT !.traded = TRUE], thin |-> t]
      [] e.kind = "metric" -> [db |-> d, thin |-> [t EXCEPT !.metric = TRUE]]
      [] OTHER -> [db |-> d, thin |-> t]

\* write_batch: one transaction over the batch, in order; a kept event becomes
\* a row, is counted and projected.
Wrote(a, e) ==
    LET p == Project([a.db EXCEPT !.events = Append(@, e), !.counted = @ + 1, !.activity = 0], a.thin, e)
    IN  IF Keep(a.thin, e.kind) THEN [a EXCEPT !.db = p.db, !.thin = p.thin]
        ELSE [a EXCEPT !.thinned = @ + 1]

WriteBatch(d, t, batch) ==
    LET Written[n \in 0..Len(batch)] ==
            IF n = 0 THEN [db |-> d, thin |-> t, thinned |-> 0]
            ELSE Wrote(Written[n - 1], batch[n])
    IN  Written[Len(batch)]

\* compact: the rows taken go into blocks and leave the tail.
Chunks(rows) ==
    [i \in 1..((Len(rows) + Block - 1) \div Block) |->
        SubSeq(rows, (i - 1) * Block + 1, IF i * Block < Len(rows) THEN i * Block ELSE Len(rows))]

\* Mutant of Compact: the tail is emptied although only full blocks were taken.
CompactAll(d, take) ==
    IF take = 0 THEN d
    ELSE [d EXCEPT !.blocks = @ \o Chunks(SubSeq(d.events, 1, take)), !.events = <<>>]

Compact(d, take) ==
    [d EXCEPT !.blocks = @ \o Chunks(SubSeq(d.events, 1, take)),
              !.events = SubSeq(@, take + 1, Len(@))]

\* Full blocks, or everything once the oldest row is a minute old; nothing when
\* the transaction fails.
Takes(d) == {0, (Len(d.events) \div Block) * Block, Len(d.events)}

\* load_events: the blocks, then the tail.
Replay(d) ==
    LET Loaded[n \in 0..Len(d.blocks)] == IF n = 0 THEN <<>> ELSE Loaded[n - 1] \o d.blocks[n]
    IN  Loaded[Len(d.blocks)] \o d.events

\* event_count.  Mutant: the rows of the tail are counted, not event_counts.
TailCount(d) == Len(d.events)

EventCount(d) == d.counted

\* end_session: everything is compacted, and the session closed.
EndSession(s) ==
    LET d == Compact(db[s], Len(db[s].events))
    IN  [d EXCEPT !.row = "ended", !.dropped = @ + bus[s].dropped, !.total = EventCount(d),
                  !.activity = 0]

----------------------------------------------------------------------------
(* The recorder thread *)

\* begin_session, and the janitor is spawned.  A database that cannot be opened
\* is drained; a session whose row cannot be written is recorded all the same,
\* and none of its batches gets in.
Begin(s) ==
    /\ rec[s].pc = "off"
    /\ \E begun \in BOOLEAN : db' = IF begun THEN [db EXCEPT ![s].row = "open"] ELSE db
    /\ rec' = [rec EXCEPT ![s].pc = "run"]
    /\ thin' = [thin EXCEPT ![s] = Fresh]
    /\ janitor' = [janitor EXCEPT ![s] = Resting]
    /\ UNCHANGED <<bus, aged, past>>

Unopened(s) ==
    /\ rec[s].pc = "off"
    /\ rec' = [rec EXCEPT ![s].pc = "drain"]
    /\ UNCHANGED <<bus, thin, db, janitor, aged, past>>

Receive(s) ==
    /\ rec[s].pc \in {"run", "drain"}
    /\ bus[s].queue # <<>> /\ Len(rec[s].buf) < Batch
    /\ bus' = [bus EXCEPT ![s].queue = Tail(@)]
    /\ rec' = IF rec[s].pc = "drain" THEN rec
              ELSE [rec EXCEPT ![s].seq = @ + 1,
                               ![s].buf = Append(@, [seq |-> rec[s].seq + 1, kind |-> Head(bus[s].queue)])]
    /\ UNCHANGED <<thin, db, janitor, aged, past>>

\* flush: the batch is written, or fails after n of its events and is rolled
\* back; then the log is compacted and the batch forgotten.  The memory of a
\* failed transaction stays.  Rows of a session without a row in sessions are
\* refused.  Quotes that waited two minutes are dropped.
Flush(s) ==
    \E ok \in BOOLEAN, n \in 0..Len(rec[s].buf) :
    LET buf == rec[s].buf p == past[s]
        r == WriteBatch(db[s], thin[s], SubSeq(buf, 1, n))
        d == IF ok THEN r.db ELSE db[s]
    IN  /\ rec[s].pc = "run" /\ buf # <<>>
        /\ ok => db[s].row = "open" /\ n = Len(buf)
        /\ \E take \in Takes(d) : db' = [db EXCEPT ![s] = Compact(d, take)]
        /\ \E expired \in (IF ok THEN {{}, r.thin.quotes} ELSE {{}}) :
             /\ thin' = [thin EXCEPT ![s] = [r.thin EXCEPT !.quotes = @ \ expired]]
             /\ past' = [past EXCEPT ![s] =
                   IF ok THEN [p EXCEPT !.written = @ \cup (ToSet(r.db.events) \ ToSet(db[s].events)),
                                        !.thinned = @ + r.thinned, !.expired = @ \cup expired]
                   ELSE [p EXCEPT !.failed = @ + Len(buf)]]
        /\ rec' = [rec EXCEPT ![s].buf = <<>>]
        /\ UNCHANGED <<bus, janitor, aged>>

\* The bus is gone and the queue empty: after the last flush the janitor is
\* told to stop.
Disconnected(s) ==
    /\ rec[s].pc = "run" /\ bus[s].closed /\ bus[s].queue = <<>> /\ rec[s].buf = <<>>
    /\ rec' = [rec EXCEPT ![s].pc = "join", ![s].stop = TRUE]
    /\ UNCHANGED <<bus, thin, db, janitor, aged, past>>

Drained(s) ==
    /\ rec[s].pc = "drain" /\ bus[s].closed /\ bus[s].queue = <<>>
    /\ rec' = [rec EXCEPT ![s].pc = "done"]
    /\ UNCHANGED <<bus, thin, db, janitor, aged, past>>

Join(s) ==
    /\ rec[s].pc = "join" /\ janitor[s].pc = "off"
    /\ rec' = [rec EXCEPT ![s].pc = "done"]
    /\ db' = IF db[s].row = "open" THEN [db EXCEPT ![s] = EndSession(s)] ELSE db
    /\ thin' = [thin EXCEPT ![s] = Fresh]
    /\ UNCHANGED <<bus, janitor, aged, past>>

\* Memory is lost, the rows stay.
Crash(s) ==
    /\ rec[s].pc \in {"run", "join"}
    /\ rec' = [rec EXCEPT ![s].pc = "crashed", ![s].buf = <<>>]
    /\ bus' = [bus EXCEPT ![s] = NewBus]
    /\ thin' = [thin EXCEPT ![s] = Fresh]
    /\ janitor' = [janitor EXCEPT ![s] = NotRunning]
    /\ past' = [past EXCEPT ![s].thinned = 0, ![s].failed = 0, ![s].expired = {}]
    /\ UNCHANGED <<db, aged>>

----------------------------------------------------------------------------
(* Retention *)

Alive(s) == rec[s].pc \in {"run", "join"}

\* sessions_by_age: the sessions with a row, in an order of their starts, and
\* whether each is open and when it was last active.
Listed == {s \in Sessions : db[s].row # "none"}

\* A session is not touched while it is the janitor's own or, open, had an
\* event within the hour.
\* Mutant of RunningSession: only the janitor's own session is spared.
RunningOwn(s, of) == of.id = s

RunningSession(s, of) == of.id = s \/ (of.open /\ of.activity = 0)

Expired(of) == of.activity > IF db[of.id].traded THEN 2 ELSE 1

\* The stop flag of the recorder, for its janitor.
\* Mutant of Stopped: the flag is only looked at before the first prune.
StoppedBefore(p) == p # Command /\ rec[p].stop /\ janitor[p].runs = 0

Stopped(p) == p # Command /\ rec[p].stop

\* prune starts with a look at the sessions.  One prune in all is a bound.
PruneBegin(s) ==
    /\ janitor[s].pc = "rest" /\ ~Stopped(s)
    /\ \A p \in DOMAIN janitor : janitor[p].runs = 0
    /\ \E order \in SetToSeqs(Listed) :
          janitor' = [janitor EXCEPT ![s] =
             [Resting EXCEPT !.pc = "expire", !.runs = janitor[s].runs + 1,
                             !.todo = [i \in DOMAIN order |->
                                         [id |-> order[i], open |-> db[order[i]].row = "open",
                                          activity |-> db[order[i]].activity]]]]
    /\ UNCHANGED <<bus, rec, thin, db, aged, past>>

JanitorExit(s) ==
    /\ janitor[s].pc = "rest" /\ Stopped(s)
    /\ janitor' = [janitor EXCEPT ![s].pc = "off"]
    /\ UNCHANGED <<bus, rec, thin, db, aged, past>>

\* First pass: sessions past their age are deleted, the others kept.
PruneExpire(s) ==
    LET j == janitor[s] of == Head(j.todo)
        protected == db[of.id].traded
        runs == RunningSession(s, of)
    IN  /\ j.pc = "expire" /\ j.todo # <<>>
        /\ janitor' = [janitor EXCEPT ![s] =
              IF ~runs /\ Expired(of)
              THEN [j EXCEPT !.pc = "rows", !.of = <<of.id, "expire">>, !.todo = Tail(@)]
              ELSE [j EXCEPT !.kept = Append(@, [id |-> of.id, protected |-> protected, running |-> runs]),
                             !.todo = Tail(@)]]
        /\ UNCHANGED <<bus, rec, thin, db, aged, past>>

\* delete_session: the tables in their order, the row of sessions last; with
\* rows of events left it is refused, and the prune is over.
DeleteRows(s) ==
    LET x == janitor[s].of[1]
    IN  /\ janitor[s].pc = "rows"
        /\ db' = [db EXCEPT ![x] = [@ EXCEPT !.events = <<>>, !.blocks = <<>>, !.counted = 0,
                                             !.quotes = {}, !.traded = FALSE]]
        /\ janitor' = [janitor EXCEPT ![s].pc = "row"]
        /\ past' = [past EXCEPT ![x].deleted = TRUE]
        /\ UNCHANGED <<bus, rec, thin, aged>>

DeleteRow(s) ==
    LET x == janitor[s].of[1]
    IN  /\ janitor[s].pc = "row"
        /\ IF db[x].events = <<>>
           THEN /\ db' = [db EXCEPT ![x].row = "none", ![x].activity = 0]
                /\ janitor' = [janitor EXCEPT ![s].pc = janitor[s].of[2], ![s].of = <<>>]
           ELSE /\ janitor' = [janitor EXCEPT ![s] = [Resting EXCEPT !.runs = janitor[s].runs]]
                /\ UNCHANGED db
        /\ UNCHANGED <<bus, rec, thin, aged, past>>

\* Second pass: detail older than keep_days goes; a block goes with its newest
\* event.  Rows and blocks are in the order of their events.
AfterLast(rows, old) == SubSeq(rows, Max(old \cup {0}) + 1, Len(rows))

WithoutAged(d, seq) ==
    [d EXCEPT !.events = AfterLast(@, {i \in DOMAIN @ : @[i].seq <= seq}),
              !.blocks = AfterLast(@, {i \in DOMAIN @ : Last(@[i]).seq <= seq}),
              !.quotes = {q \in @ : q > seq}]

PruneDetail(s) ==
    LET j == janitor[s]
    IN  /\ j.pc = "expire" /\ j.todo = <<>>
        /\ db' = [x \in Sessions |->
                    IF \E i \in DOMAIN j.kept : j.kept[i].id = x /\ ~j.kept[i].protected
                    THEN WithoutAged(db[x], aged[x]) ELSE db[x]]
        /\ janitor' = [janitor EXCEPT ![s].pc = "cap"]
        /\ UNCHANGED <<bus, rec, thin, aged, past>>

\* Third pass: while the file is too large, the kept sessions go, oldest first,
\* but not a protected or a running one.
PruneCap(s) ==
    LET j == janitor[s] of == Head(j.kept)
    IN  /\ j.pc = "cap" /\ j.kept # <<>>
        /\ janitor' = [janitor EXCEPT ![s] =
              IF of.protected \/ of.running THEN [j EXCEPT !.kept = Tail(@)]
              ELSE [j EXCEPT !.pc = "rows", !.of = <<of.id, "cap">>, !.kept = Tail(@)]]
        /\ UNCHANGED <<bus, rec, thin, db, aged, past>>

\* Small enough, or nothing left to look at.
PruneEnd(s) ==
    /\ janitor[s].pc = "cap"
    /\ janitor' = [janitor EXCEPT ![s] = [Resting EXCEPT !.runs = janitor[s].runs]]
    /\ UNCHANGED <<bus, rec, thin, db, aged, past>>

----------------------------------------------------------------------------
(* The clock: a recorder that is alive writes health samples all the time *)

Beats(s) == Alive(s) /\ db[s].row = "open"

Hour ==
    /\ db' = [s \in Sessions |->
                IF s \in Listed /\ ~Beats(s) /\ db[s].activity = 0 THEN [db[s] EXCEPT !.activity = 1] ELSE db[s]]
    /\ UNCHANGED <<bus, rec, thin, janitor, aged, past>>

Days ==
    /\ db' = [s \in Sessions |->
                IF s \notin Listed \/ Beats(s) THEN db[s]
                ELSE [db[s] EXCEPT !.activity = IF @ < 2 THEN 2 ELSE 3]]
    /\ aged' = [s \in Sessions |-> rec[s].seq]
    /\ UNCHANGED <<bus, rec, thin, janitor, past>>

RecorderStep(s) ==
    \/ Receive(s) \/ Flush(s) \/ Disconnected(s) \/ Drained(s) \/ Join(s)

JanitorStep(s) ==
    \/ JanitorExit(s) \/ PruneExpire(s) \/ DeleteRows(s) \/ DeleteRow(s)
    \/ PruneDetail(s) \/ PruneCap(s) \/ PruneEnd(s)

Next ==
    \/ \E s \in Sessions :
          \/ \E kind \in Kinds : Emit(s, kind)
          \/ Stop(s) \/ Begin(s) \/ Unopened(s) \/ Crash(s) \/ RecorderStep(s)
    \/ \E p \in Sessions \cup {Command} : PruneBegin(p) \/ JanitorStep(p)
    \/ Hour \/ Days

Spec == Init /\ [][Next]_vars

\* The two threads of a session go on while they can.
FairSpec == Spec /\ \A s \in Sessions : WF_vars(RecorderStep(s)) /\ WF_vars(JanitorStep(s))

----------------------------------------------------------------------------
(* Properties *)

\* The replay of a session (load_events) is what was written of it, each event
\* once and in the order of emission, across blocks and tail, whatever was
\* compacted, rolled back or pruned around it: only detail older than keep_days
\* and sessions being deleted (prune) are missing.
ReplayIsFaithful ==
    \A s \in Sessions :
        LET r == Replay(db[s])
        IN  db[s].row # "none" /\ ~past[s].deleted =>
               /\ \A i, j \in DOMAIN r : i < j => r[i].seq < r[j].seq
               /\ ToSet(r) \subseteq past[s].written
               /\ \A e \in past[s].written : e.seq > aged[s] => e \in ToSet(r)

\* A closed session accounts for every event its bus was given (emit,
\* end_session): dropped at the full queue, recorded, thinned out or in a batch
\* that failed.
LossIsCounted ==
    \A s \in Sessions :
        db[s].row = "ended" =>
            db[s].dropped + db[s].total + past[s].thinned + past[s].failed = bus[s].emitted

\* No janitor, of whatever instance, deletes a session that is being recorded
\* (prune decides from a list made before its deletions).
LiveSessionKept == \A s \in Sessions : Alive(s) => ~past[s].deleted

\* The raw quotes of an opportunity that turned out notable are in the database,
\* those recorded before its verdict and those after (project), as long as no
\* batch of the session failed and they did not wait for two minutes.
NotableKeepsQuotes ==
    \A s \in Sessions :
        Alive(s) /\ thin[s].notable /\ past[s].failed = 0 =>
            \A e \in past[s].written :
                e.kind = "raw" /\ e.seq > aged[s] /\ e.seq \notin past[s].expired => e.seq \in db[s].quotes

\* What was recorded is there: nobody deletes a session under its recorder, its
\* replay is what was written, and a notable opportunity has its quotes
\* (project, compact, prune and the batches that fail between them).
RecordIsThere == LiveSessionKept /\ ReplayIsFaithful /\ NotableKeepsQuotes

\* Once the bus is dropped (Running::stop) the recorder ends, also when its
\* janitor is in the middle of a prune that it has to wait for.
StopEnds == \A s \in Sessions : bus[s].closed ~> rec[s].pc \in {"done", "crashed"}

=============================================================================
