------------------------------- MODULE Feeds --------------------------------
(***************************************************************************)
(* What the program knows of the chain and how it stays current:           *)
(* market/src/feed.rs (the chain WebSocket, AccountFeed, ChainState, the   *)
(* block-height poller, the text streams), rpc.rs (the seed), hermes.rs,   *)
(* telemetry/src/health.rs (the WebSocket's light) and the wiring of these *)
(* in engine.rs (the hot sink, the tip floor's two sources).               *)
(*                                                                         *)
(* A watch is an account the feed subscribes to; its data is the account   *)
(* and the slot it changed in, or Bad when it is not what was configured.  *)
(* Samples and metrics, which only go to the screen and the recorder, and  *)
(* the length of a backoff (Limiter has it) are left out.                  *)
(***************************************************************************)
EXTENDS Integers, Sequences, FiniteSets

CONSTANTS
    N,          \* watches 1..N, in the order of the configuration
    Odd,        \* external: watches whose account may turn out to be something else
    Bad,        \* data of another owner, pair or feed
    MaxHead,    \* bound of the chain's slots
    MaxWire,    \* bound of the messages on the way
    TickCap,    \* capacity of the channel of hot ticks (4096)
    Idle,       \* ticks of silence after which a socket is given up (15 s)
    QuietAfter, \* ticks after which the tip stream counts as quiet (45 s)
    DownAfter,  \* errors in a row that show a service as down (3)
    MaxFloor,   \* bound of the tip floor's versions
    None

Watches == 1..N

ASSUME FeedsAssumption ==
    /\ {N, MaxHead, MaxWire, TickCap, Idle, QuietAfter, DownAfter, MaxFloor} \subseteq Nat \ {0}
    /\ Odd \subseteq Watches

VARIABLES
    head,     \* external: the chain's head
    account,  \* external: each watched account's data
    server,   \* external: requests not yet served, and the subscriptions of the connection
    wire,     \* messages of the connection not yet read
    sock,     \* [phase, dead, quiet] of run_chain_ws
    seed,     \* what is left of get_account_datas' answer, once read
    subs,     \* AccountFeed.subs: subscription -> watch
    state,    \* AccountFeed.state: [mid, disabled]
    chain,    \* ChainState.slot
    health,   \* Stats of the WebSocket: [connected, row]
    ticks,    \* the channel to the router
    seen,     \* the router's price of each watch
    lost,     \* history: the last tick of the watch was dropped (router.ticks_dropped)
    owed,     \* history: the account changed since its subscription is live
    tips      \* the tip floor: [truth, known, stream, quiet, asked]

chainVars == <<head, account, server, wire, sock, seed, subs, state, chain, health, ticks, seen, lost, owed>>
vars == <<chainVars, tips>>

----------------------------------------------------------------------------
(* AccountFeed *)

\* subscribe_requests: the old subscriptions are forgotten.
SubscribeRequests == Watches

\* on_message_at: an acknowledgement names its watch by the request's id.
\* Mutant of AckedWatch: by the order in which acknowledgements arrive.
AckedInOrder(id) == Cardinality(DOMAIN subs) + 1

AckedWatch(id) == id

\* Mutant of Hot: the router gets what the recorder gets, changes only after a pause.
HotThrottled(st, data) == st.mid = None

\* Every decoded update is a hot tick, changed or not.
Hot(st, data) == TRUE

\* on_account_at: the state of a watch and the tick of an update.
OnAccount(st, data) ==
    IF st.disabled THEN st
    ELSE IF data = Bad THEN [st EXCEPT !.disabled = TRUE]
    ELSE [st EXCEPT !.mid = data]

Ticked(st, data) == ~st.disabled /\ data # Bad /\ Hot(st, data)

\* forward: an update [w, data] is applied and its tick handed to the router's
\* channel, which is never waited for.
Forward(u) ==
    LET fits == Len(ticks) < TickCap
    IN  /\ state' = [state EXCEPT ![u.w] = OnAccount(@, u.data)]
        /\ IF Ticked(state[u.w], u.data)
           THEN /\ ticks' = IF fits THEN Append(ticks, u) ELSE ticks
                /\ lost' = [lost EXCEPT ![u.w] = ~fits]
           ELSE UNCHANGED <<ticks, lost>>

----------------------------------------------------------------------------
(* Telemetry of a service *)

RecordOk(h) == [h EXCEPT !.row = 0]
RecordErr(h) == [h EXCEPT !.row = IF @ < DownAfter THEN @ + 1 ELSE @]
SetConnected(h, c) == [h EXCEPT !.connected = c]

\* snapshot, as far as the socket goes.
Shown == IF health.connected = "no" \/ health.row >= DownAfter THEN "down"
         ELSE IF health.connected = "yes" THEN "ok" ELSE "idle"

----------------------------------------------------------------------------
(* run_chain_ws *)

NoServer == [pending |-> {}, live |-> <<>>]

\* The ways out of a connection: an error is counted, the light goes out, the
\* socket is dropped, and the task sleeps before it tries again.
\* Mutant of GiveUp: the light is left on.
GiveUpLit == /\ health' = RecordErr(health)
             /\ sock' = [phase |-> "sleep", dead |-> FALSE, quiet |-> 0]
             /\ server' = NoServer /\ wire' = <<>>

GiveUp == /\ health' = SetConnected(RecordErr(health), "no")
          /\ sock' = [phase |-> "sleep", dead |-> FALSE, quiet |-> 0]
          /\ server' = NoServer /\ wire' = <<>>

\* No connection within ten seconds, or sending a subscription on it fails.
ConnectFails ==
    /\ sock.phase = "connect" /\ GiveUp /\ subs' \in {subs, <<>>}
    /\ UNCHANGED <<head, account, seed, state, chain, ticks, seen, lost, owed>>

\* Connected: the subscriptions are sent, and then the accounts asked for over RPC.
Connect ==
    /\ sock.phase = "connect"
    /\ health' = SetConnected(health, "yes")
    /\ sock' = [phase |-> "seed", dead |-> FALSE, quiet |-> 0]
    /\ server' = [pending |-> SubscribeRequests, live |-> <<>>]
    /\ subs' = <<>> /\ wire' = <<>> /\ seed' = None
    /\ owed' = [w \in Watches |-> FALSE]
    /\ UNCHANGED <<head, account, state, chain, ticks, seen, lost>>

\* get_account_datas reads the accounts, and answers later.
SeedRead ==
    /\ sock.phase = "seed" /\ seed = None
    /\ seed' = [w \in Watches |-> [w |-> w, data |-> account[w]]]
    /\ UNCHANGED <<head, account, server, wire, sock, subs, state, chain, health, ticks, seen, lost, owed>>

\* Its accounts one after the other, while the router takes its ticks.
SeedApply ==
    /\ sock.phase = "seed" /\ seed # None
    /\ Forward(Head(seed))
    /\ IF Tail(seed) # <<>> THEN seed' = Tail(seed) /\ UNCHANGED sock
       ELSE seed' = None /\ sock' = [sock EXCEPT !.phase = "open", !.quiet = 0]
    /\ UNCHANGED <<head, account, server, wire, subs, chain, health, seen, owed>>

SeedFails ==
    /\ sock.phase = "seed" /\ seed = None
    /\ sock' = [sock EXCEPT !.phase = "open", !.quiet = 0]
    /\ UNCHANGED <<head, account, server, wire, seed, subs, state, chain, health, ticks, seen, lost, owed>>

\* observe_slot: the highest slot seen, whoever saw it.
ObserveSlot(s) == chain' = IF s > chain THEN s ELSE chain

\* One message of the open socket.
Read ==
    /\ sock.phase = "open" /\ wire # <<>>
    /\ wire' = Tail(wire) /\ sock' = [sock EXCEPT !.quiet = 0]
    /\ LET m == Head(wire)
       IN  \/ /\ m.kind = "slot" /\ ObserveSlot(m.slot) /\ health' = RecordOk(health)
              /\ UNCHANGED <<subs, state, ticks, lost>>
           \/ /\ m.kind = "ack"
              /\ subs' = [s \in DOMAIN subs \cup {m.sub} |-> IF s = m.sub THEN AckedWatch(m.id) ELSE subs[s]]
              /\ UNCHANGED <<state, chain, health, ticks, lost>>
           \/ /\ m.kind = "note"
              /\ IF m.sub \in DOMAIN subs THEN Forward([w |-> subs[m.sub], data |-> m.data])
                 ELSE UNCHANGED <<state, ticks, lost>>
              /\ UNCHANGED <<subs, chain, health>>
    /\ UNCHANGED <<head, account, server, seed, seen, owed>>

\* Mutant of Silent: only a closed socket is given up.
NeverSilent == FALSE

Silent == sock.quiet >= Idle /\ wire = <<>>

IdleTimeout ==
    /\ sock.phase = "open" /\ Silent /\ GiveUp
    /\ UNCHANGED <<head, account, seed, subs, state, chain, ticks, seen, lost, owed>>

Closed ==
    /\ sock.phase = "open" /\ wire = <<>> /\ GiveUp
    /\ UNCHANGED <<head, account, seed, subs, state, chain, ticks, seen, lost, owed>>

Wake ==
    /\ sock.phase = "sleep" /\ sock' = [sock EXCEPT !.phase = "connect"]
    /\ UNCHANGED <<head, account, server, wire, seed, subs, state, chain, health, ticks, seen, lost, owed>>

\* Mutant of Observed: the poller only reads the block height.
ObservedHeight(s) == chain' = chain

Observed(s) == ObserveSlot(s)

\* run_block_height_poller: the slot, when the socket is silent about it.
PollEpoch ==
    /\ chain # head /\ Observed(head)
    /\ UNCHANGED <<head, account, server, wire, sock, seed, subs, state, health, ticks, seen, lost, owed>>

\* The router takes a tick.
TakeTick ==
    /\ ticks # <<>> /\ ticks' = Tail(ticks)
    /\ seen' = [seen EXCEPT ![Head(ticks).w] = Head(ticks).data]
    /\ UNCHANGED <<head, account, server, wire, sock, seed, subs, state, chain, health, lost, owed>>

----------------------------------------------------------------------------
(* The server and the chain *)

Connected == sock.phase \in {"seed", "open"} /\ ~sock.dead

\* It serves the subscriptions in any order, and numbers them.
Serve ==
    /\ Connected /\ Len(wire) < MaxWire
    /\ \E w \in server.pending :
          /\ server' = [pending |-> server.pending \ {w}, live |-> Append(server.live, w)]
          /\ wire' = Append(wire, [kind |-> "ack", id |-> w, sub |-> Len(server.live) + 1])
    /\ UNCHANGED <<head, account, sock, seed, subs, state, chain, health, ticks, seen, lost, owed>>

\* A new block changes an account, and says so to its subscriber.
Change ==
    \E w \in Watches, good \in BOOLEAN :
        LET told == {s \in DOMAIN server.live : server.live[s] = w}
            data == IF good THEN <<w, head + 1>> ELSE Bad
        IN  /\ good \/ w \in Odd
            /\ head < MaxHead /\ head' = head + 1
            /\ account' = [account EXCEPT ![w] = data]
            /\ IF Connected /\ told # {}
               THEN /\ Len(wire) < MaxWire
                    /\ wire' = Append(wire, [kind |-> "note", sub |-> CHOOSE s \in told : TRUE, data |-> data])
                    /\ owed' = [owed EXCEPT ![w] = TRUE]
               ELSE wire' = wire /\ owed' = [owed EXCEPT ![w] = FALSE]
            /\ UNCHANGED <<server, sock, seed, subs, state, chain, health, ticks, seen, lost>>

\* A block without news for us; the slot may be told.
NewSlot ==
    /\ head < MaxHead /\ head' = head + 1
    /\ \/ wire' = wire
       \/ /\ Connected /\ Len(wire) < MaxWire
          /\ wire' = Append(wire, [kind |-> "slot", slot |-> head + 1])
    /\ UNCHANGED <<account, server, sock, seed, subs, state, chain, health, ticks, seen, lost, owed>>

\* The connection is cut without a word.
Die ==
    /\ Connected /\ sock' = [sock EXCEPT !.dead = TRUE]
    /\ UNCHANGED <<head, account, server, wire, seed, subs, state, chain, health, ticks, seen, lost, owed>>

\* Time, as far as the socket waits for it.
Tick ==
    /\ sock.phase = "open" /\ sock.quiet < Idle /\ wire = <<>>
    /\ sock' = [sock EXCEPT !.quiet = @ + 1]
    /\ UNCHANGED <<head, account, server, wire, seed, subs, state, chain, health, ticks, seen, lost, owed>>

ChainInit ==
    /\ head = 0 /\ account = [w \in Watches |-> <<w, 0>>]
    /\ server = NoServer /\ wire = <<>> /\ seed = None
    /\ sock = [phase |-> "connect", dead |-> FALSE, quiet |-> 0]
    /\ subs = <<>> /\ state = [w \in Watches |-> [mid |-> None, disabled |-> FALSE]]
    /\ chain = 0 /\ health = [connected |-> "unknown", row |-> 0]
    /\ ticks = <<>> /\ seen = [w \in Watches |-> None]
    /\ lost = [w \in Watches |-> FALSE] /\ owed = [w \in Watches |-> FALSE]

ChainStep ==
    \/ Connect \/ ConnectFails \/ SeedRead \/ SeedApply \/ SeedFails
    \/ Read \/ IdleTimeout \/ Closed \/ Wake \/ PollEpoch \/ TakeTick
    \/ Serve \/ Change \/ NewSlot \/ Die \/ Tick

----------------------------------------------------------------------------
(* The tip floor: a stream, and a poll while the stream is quiet *)

TipsInit == tips = [truth |-> 0, known |-> 0, stream |-> "connect", idle |-> 0, quiet |-> QuietAfter, asked |-> None]

\* run_subscribed_stream and run_hermes: a connection, its texts, its end.
StreamOpens == tips.stream = "connect" /\ tips' = [tips EXCEPT !.stream = "open", !.idle = 0]
StreamFails == tips.stream = "connect" /\ tips' = [tips EXCEPT !.stream = "sleep"]
StreamText == /\ tips.stream = "open"
              /\ tips' = [tips EXCEPT !.known = tips.truth, !.quiet = 0, !.idle = 0]
StreamNoise == tips.stream = "open" /\ tips' = [tips EXCEPT !.idle = 0]
StreamEnds == /\ tips.stream \in {"open", "mute"}
              /\ tips.idle >= Idle \/ tips.stream = "open"
              /\ tips' = [tips EXCEPT !.stream = "sleep"]
StreamWakes == tips.stream = "sleep" /\ tips' = [tips EXCEPT !.stream = "connect"]
StreamMutes == tips.stream = "open" /\ tips' = [tips EXCEPT !.stream = "mute"]

\* Mutant of StreamIsQuiet: a stream that once spoke is believed.
StreamWasQuiet == tips.known = 0

StreamIsQuiet == tips.quiet >= QuietAfter

\* The floor's poll: nothing while the stream speaks; the answer overwrites.
AskFloor == /\ tips.asked = None /\ StreamIsQuiet /\ tips.known # tips.truth
            /\ tips' = [tips EXCEPT !.asked = tips.truth]
FloorArrives == tips.asked # None /\ tips' = [tips EXCEPT !.known = tips.asked, !.asked = None]
FloorFails == tips.asked # None /\ tips' = [tips EXCEPT !.asked = None]

TipsTime == /\ tips.quiet < QuietAfter \/ tips.idle < Idle
            /\ tips' = [tips EXCEPT !.quiet = IF @ < QuietAfter THEN @ + 1 ELSE @,
                                    !.idle = IF @ < Idle /\ tips.stream \in {"open", "mute"} THEN @ + 1 ELSE @]
NewFloor == tips.truth < MaxFloor /\ tips' = [tips EXCEPT !.truth = @ + 1]

TipsStep ==
    \/ StreamOpens \/ StreamFails \/ StreamText \/ StreamNoise \/ StreamEnds \/ StreamWakes \/ StreamMutes
    \/ AskFloor \/ FloorArrives \/ FloorFails \/ TipsTime \/ NewFloor

----------------------------------------------------------------------------

Init == ChainInit /\ TipsInit
Next == (ChainStep /\ UNCHANGED tips) \/ (TipsStep /\ UNCHANGED chainVars)

Spec == Init /\ [][Next]_vars

----------------------------------------------------------------------------
(* Properties *)

\* A price is of the account it is shown for, although subscriptions are
\* acknowledged in any order and every connection hands out the same ids
\* (AccountFeed::on_message_at, subscribe_requests).
PriceIsOfItsPool ==
    /\ \A w \in Watches : state[w].mid # None => state[w].mid[1] = w
    /\ \A w \in Watches : seen[w] # None => seen[w][1] = w

\* A change the feed was told of reaches the router, seed or no seed, and
\* whatever was on the wire before it: nothing on the way, and the last tick
\* not counted as dropped, the router has the account's price (run_chain_ws,
\* forward, the hot sink of engine.rs).
ChangesAreSeen ==
    sock.phase = "open" /\ wire = <<>> /\ ticks = <<>> =>
        \A w \in Watches : owed[w] /\ ~state[w].disabled /\ ~lost[w] => seen[w] = account[w]

\* The WebSocket's light is on only while there is a connection, and is out
\* only without one or after errors in a row (Telemetry::snapshot).
LightIsTrue ==
    /\ Shown = "ok" => sock.phase \in {"seed", "open"}
    /\ Shown = "down" => sock.phase \in {"sleep", "connect"} \/ health.row >= DownAfter

\* The feed tells the truth: prices stay with their accounts over reconnects,
\* the newest one told reaches the router, and the light says whether there is
\* a connection (run_chain_ws, AccountFeed, Telemetry::snapshot).
FeedIsTrue == PriceIsOfItsPool /\ ChangesAreSeen /\ LightIsTrue

\* What MCFeeds says has to pass: a slot the socket may say nothing of, a
\* connection that is silently dead, a tip floor whatever becomes of the stream.
Behind == chain < head
Cut == sock.phase = "open" /\ sock.dead
FloorBehind == tips.known # tips.truth

=============================================================================
