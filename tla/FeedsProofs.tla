---------------------------- MODULE FeedsProofs -----------------------------
(***************************************************************************)
(* Why the feed tells the truth (Feeds), for any number of accounts and    *)
(* whatever the server, the network and the chain do: a price stays with   *)
(* its account, the newest change told reaches the router, and the light   *)
(* says whether there is a connection.                                     *)
(***************************************************************************)
EXTENDS Feeds, TLAPS

----------------------------------------------------------------------------
(* The types *)

Facts(w) == {w} \X Nat
DataOf(w) == Facts(w) \cup {Bad}
AnyData == (Watches \X Nat) \cup {Bad}
Updates == [w : Watches, data : AnyData]
Messages ==
    [kind : {"slot"}, slot : Nat] \cup [kind : {"ack"}, id : Watches, sub : Nat]
        \cup [kind : {"note"}, sub : Nat, data : AnyData]

SocketTypes ==
    /\ head \in Nat /\ chain \in Nat
    /\ account \in [Watches -> AnyData]
    /\ server \in [pending : SUBSET Watches, live : Seq(Watches)]
    /\ wire \in Seq(Messages)
    /\ sock \in [phase : {"connect", "seed", "open", "sleep"}, dead : BOOLEAN, quiet : Nat]
    /\ subs \in [DOMAIN subs -> Watches]
    /\ health \in [connected : {"unknown", "yes", "no"}, row : Nat]

RouterTypes ==
    /\ seed \in {None} \cup (Seq(Updates) \ {<<>>})
    /\ state \in [Watches -> [mid : (Watches \X Nat) \cup {None}, disabled : BOOLEAN]]
    /\ ticks \in Seq(Updates)
    /\ seen \in [Watches -> AnyData \cup {None}]
    /\ lost \in [Watches -> BOOLEAN] /\ owed \in [Watches -> BOOLEAN]

Types == SocketTypes /\ RouterTypes

----------------------------------------------------------------------------
(* The invariant *)

\* Whatever carries data of an account says which: the account itself, the
\* answer over RPC, the ticks, and what is known.
DataIsOfItsWatch ==
    /\ \A w \in Watches : account[w] \in DataOf(w)
    /\ seed # None => \A i \in DOMAIN seed : seed[i].data \in DataOf(seed[i].w)
    /\ \A i \in DOMAIN ticks : ticks[i].data \in Facts(ticks[i].w)
    /\ \A w \in Watches : state[w].mid \in Facts(w) \cup {None} /\ seen[w] \in Facts(w) \cup {None}

\* A subscription is one of this connection, and its watch is known before its
\* first note is read.
AckOf(m, s) == m.kind = "ack" /\ m.sub = s
SubscriptionsMatch ==
    /\ sock.phase \in {"connect", "sleep"} => wire = <<>> /\ server.live = <<>>
    /\ sock.phase \in {"seed", "open"} =>
          \A s \in DOMAIN subs : s \in DOMAIN server.live /\ subs[s] = server.live[s]
    /\ \A i \in DOMAIN wire :
          /\ wire[i].kind = "ack" => wire[i].sub \in DOMAIN server.live /\ server.live[wire[i].sub] = wire[i].id
          /\ wire[i].kind = "note" =>
                /\ wire[i].sub \in DOMAIN server.live /\ wire[i].data \in DataOf(server.live[wire[i].sub])
                /\ wire[i].sub \in DOMAIN subs \/ \E j \in DOMAIN wire : j < i /\ AckOf(wire[j], wire[i].sub)
    /\ \A s \in DOMAIN server.live : s \in DOMAIN subs \/ \E j \in DOMAIN wire : AckOf(wire[j], s)

\* The last thing said of a watch, on the wire, in the channel or to the router,
\* is its account's data.
Tells(m, live, w) == m.kind = "note" /\ live[m.sub] = w
LastTold(i, w) ==
    Tells(wire[i], server.live, w) /\ \A j \in DOMAIN wire : Tells(wire[j], server.live, w) => j <= i
LastTick(i, w) == ticks[i].w = w /\ \A j \in DOMAIN ticks : ticks[j].w = w => j <= i
Handed(w) ==
    /\ \A i \in DOMAIN ticks : LastTick(i, w) => ticks[i].data = account[w]
    /\ (\A i \in DOMAIN ticks : ticks[i].w # w) => seen[w] = account[w]
OnItsWay(w) ==
    /\ \A i \in DOMAIN wire : LastTold(i, w) => wire[i].data = account[w]
    /\ (\A i \in DOMAIN wire : ~Tells(wire[i], server.live, w)) =>
          /\ sock.phase = "open"
          /\ state[w].disabled \/ lost[w] \/ Handed(w)
NewestIsOnItsWay == \A w \in Watches : owed[w] /\ sock.phase \in {"seed", "open"} => OnItsWay(w)

LightFollows ==
    /\ health.connected = "yes" => sock.phase \in {"seed", "open"}
    /\ health.connected = "no" => sock.phase \in {"sleep", "connect"}

FeedInv == Types /\ DataIsOfItsWatch /\ SubscriptionsMatch /\ NewestIsOnItsWay /\ LightFollows

----------------------------------------------------------------------------
(* Sequences *)

\* What Read, SeedApply and TakeTick take from a queue.
LEMMA Taken ==
    ASSUME NEW S, NEW s \in Seq(S), s # <<>>
    PROVE  /\ Tail(s) \in Seq(S) /\ Head(s) \in S /\ Head(s) = s[1]
           /\ 1 \in DOMAIN s
           /\ \A i \in DOMAIN Tail(s) : i + 1 \in DOMAIN s /\ Tail(s)[i] = s[i + 1]
           /\ \A i \in DOMAIN s : i \in Nat /\ i >= 1 /\ (i > 1 => i - 1 \in DOMAIN Tail(s))
  OBVIOUS

\* What the server and Forward put at the end of one.
LEMMA Put ==
    ASSUME NEW S, NEW s \in Seq(S), NEW x \in S
    PROVE  /\ Append(s, x) \in Seq(S)
           /\ Len(s) \in Nat /\ Len(s) + 1 \in DOMAIN Append(s, x) /\ Append(s, x)[Len(s) + 1] = x
           /\ \A i \in DOMAIN s : i \in Nat /\ i <= Len(s) /\ i \in DOMAIN Append(s, x) /\ Append(s, x)[i] = s[i]
           /\ \A i \in DOMAIN Append(s, x) : i \in DOMAIN s \/ i = Len(s) + 1
  OBVIOUS

----------------------------------------------------------------------------
(* The types are kept *)

LEMMA Constants ==
    N \in Nat /\ N # 0 /\ Idle \in Nat /\ DownAfter \in Nat
  BY FeedsAssumption

\* What Change does, for the watch and its data.
Changes(w, data) ==
    /\ head' = head + 1 /\ account' = [account EXCEPT ![w] = data]
    /\ \/ /\ Connected
          /\ \E s \in DOMAIN server.live :
                server.live[s] = w /\ wire' = Append(wire, [kind |-> "note", sub |-> s, data |-> data])
          /\ owed' = [owed EXCEPT ![w] = TRUE]
       \/ wire' = wire /\ owed' = [owed EXCEPT ![w] = FALSE]
    /\ UNCHANGED <<server, sock, seed, subs, state, chain, health, ticks, seen, lost>>

LEMMA InitTypes == ChainInit => Types
  BY Constants DEF ChainInit, Types, SocketTypes, RouterTypes, Watches, AnyData, NoServer

\* forward leaves every kind of thing what it is.
LEMMA ForwardTypes ==
    ASSUME RouterTypes, NEW u \in Updates, Forward(u)
    PROVE  /\ state' \in [Watches -> [mid : (Watches \X Nat) \cup {None}, disabled : BOOLEAN]]
           /\ ticks' \in Seq(Updates) /\ lost' \in [Watches -> BOOLEAN]
  <1>1. u.w \in Watches /\ u.data \in AnyData
    BY DEF Updates
  <1>2. state[u.w] \in [mid : (Watches \X Nat) \cup {None}, disabled : BOOLEAN]
    BY <1>1 DEF RouterTypes
  <1>3. OnAccount(state[u.w], u.data) \in [mid : (Watches \X Nat) \cup {None}, disabled : BOOLEAN]
    BY <1>1, <1>2 DEF OnAccount, AnyData
  <1>4. state' \in [Watches -> [mid : (Watches \X Nat) \cup {None}, disabled : BOOLEAN]]
    BY <1>1, <1>3 DEF Forward, RouterTypes
  <1>5. ticks' \in Seq(Updates)
    BY DEF Forward, RouterTypes
  <1>6. lost' \in [Watches -> BOOLEAN]
    BY <1>1 DEF Forward, RouterTypes
  <1> QED BY <1>4, <1>5, <1>6

LEMMA GiveUpTypes ==
    ASSUME Types, GiveUp
    PROVE  /\ health' \in [connected : {"unknown", "yes", "no"}, row : Nat]
           /\ sock' \in [phase : {"connect", "seed", "open", "sleep"}, dead : BOOLEAN, quiet : Nat]
           /\ server' \in [pending : SUBSET Watches, live : Seq(Watches)]
           /\ wire' \in Seq(Messages)
  <1>1. RecordErr(health) \in [connected : {"unknown", "yes", "no"}, row : Nat]
    BY DEF Types, SocketTypes, RecordErr
  <1>2. health' \in [connected : {"unknown", "yes", "no"}, row : Nat]
    BY <1>1 DEF GiveUp, SetConnected
  <1>3. sock' \in [phase : {"connect", "seed", "open", "sleep"}, dead : BOOLEAN, quiet : Nat]
    BY DEF GiveUp
  <1>4. server' \in [pending : SUBSET Watches, live : Seq(Watches)]
    BY DEF GiveUp, NoServer
  <1>5. wire' \in Seq(Messages)
    BY DEF GiveUp
  <1> QED BY <1>2, <1>3, <1>4, <1>5

LEMMA TypesKept == Types /\ [Next]_vars => Types'
  <1> SUFFICES ASSUME Types, [Next]_vars PROVE Types'
    OBVIOUS
  <1> USE DEF Types
  <1>1. CASE Connect
    <2>1. health' \in [connected : {"unknown", "yes", "no"}, row : Nat]
      BY <1>1 DEF Connect, SocketTypes, SetConnected
    <2>2. server' \in [pending : SUBSET Watches, live : Seq(Watches)] /\ subs' \in [DOMAIN subs' -> Watches]
      BY <1>1 DEF Connect, SubscribeRequests
    <2>3. wire' \in Seq(Messages)
      BY <1>1 DEF Connect
    <2>4. owed' \in [Watches -> BOOLEAN]
      BY <1>1 DEF Connect
    <2> QED BY <1>1, <2>1, <2>2, <2>3, <2>4 DEF Connect, SocketTypes, RouterTypes
  <1>2. CASE ConnectFails
    <2>1. subs' \in [DOMAIN subs' -> Watches]
      <3>1. CASE subs' = subs
        BY <3>1 DEF SocketTypes
      <3>2. CASE subs' = <<>>
        BY <3>2
      <3> QED BY <1>2, <3>1, <3>2 DEF ConnectFails
    <2> QED BY <1>2, <2>1, GiveUpTypes DEF ConnectFails, SocketTypes, RouterTypes
  <1>3. CASE SeedRead
    <2>1. \A w \in Watches : [w |-> w, data |-> account[w]] \in Updates
      BY DEF SocketTypes, Updates
    <2>2. seed' \in Seq(Updates) /\ seed' # <<>>
      BY <1>3, <2>1, Constants DEF SeedRead, Watches
    <2> QED BY <1>3, <2>2 DEF SeedRead, SocketTypes, RouterTypes
  <1>4. CASE SeedApply
    <2>1. seed \in Seq(Updates) /\ seed # <<>>
      BY <1>4 DEF SeedApply, RouterTypes
    <2>2. Head(seed) \in Updates /\ Tail(seed) \in Seq(Updates)
      BY <2>1, Taken
    <2>3. seed' \in {None} \cup (Seq(Updates) \ {<<>>})
      BY <1>4, <2>2 DEF SeedApply
    <2>4. sock' \in [phase : {"connect", "seed", "open", "sleep"}, dead : BOOLEAN, quiet : Nat]
      <3>1. CASE UNCHANGED sock
        BY <3>1 DEF SocketTypes
      <3>2. CASE sock' = [sock EXCEPT !.phase = "open", !.quiet = 0]
        BY <3>2 DEF SocketTypes
      <3> QED BY <1>4, <3>1, <3>2 DEF SeedApply
    <2> QED BY <1>4, <2>2, <2>3, <2>4, ForwardTypes DEF SeedApply, SocketTypes, RouterTypes
  <1>5. CASE SeedFails
    BY <1>5 DEF SeedFails, SocketTypes, RouterTypes
  <1>6. CASE Read
    <2>1. wire' \in Seq(Messages) /\ Head(wire) \in Messages
      BY <1>6, Taken DEF Read, SocketTypes
    <2>2. sock' \in [phase : {"connect", "seed", "open", "sleep"}, dead : BOOLEAN, quiet : Nat]
      BY <1>6 DEF Read, SocketTypes
    <2> DEFINE m == Head(wire)
    <2>3. CASE m.kind = "slot" /\ ObserveSlot(m.slot) /\ health' = RecordOk(health)
               /\ UNCHANGED <<subs, state, ticks, lost>>
      <3>1. m.slot \in Nat
        BY <2>1, <2>3 DEF Messages
      <3> QED BY <1>6, <2>1, <2>2, <2>3, <3>1 DEF Read, SocketTypes, RouterTypes, ObserveSlot, RecordOk
    <2>4. CASE /\ m.kind = "ack"
               /\ subs' = [s \in DOMAIN subs \cup {m.sub} |-> IF s = m.sub THEN AckedWatch(m.id) ELSE subs[s]]
               /\ UNCHANGED <<state, chain, health, ticks, lost>>
      <3>1. m.id \in Watches
        BY <2>1, <2>4 DEF Messages
      <3>2. subs' \in [DOMAIN subs' -> Watches]
        BY <2>4, <3>1 DEF AckedWatch, SocketTypes
      <3> QED BY <1>6, <2>1, <2>2, <2>4, <3>2 DEF Read, SocketTypes, RouterTypes
    <2>5. CASE /\ m.kind = "note"
               /\ IF m.sub \in DOMAIN subs THEN Forward([w |-> subs[m.sub], data |-> m.data])
                  ELSE UNCHANGED <<state, ticks, lost>>
               /\ UNCHANGED <<subs, chain, health>>
      <3>1. m.data \in AnyData
        BY <2>1, <2>5 DEF Messages
      <3>2. m.sub \in DOMAIN subs => [w |-> subs[m.sub], data |-> m.data] \in Updates
        BY <3>1 DEF SocketTypes, Updates
      <3>3. /\ state' \in [Watches -> [mid : (Watches \X Nat) \cup {None}, disabled : BOOLEAN]]
            /\ ticks' \in Seq(Updates) /\ lost' \in [Watches -> BOOLEAN]
        BY <2>5, <3>2, ForwardTypes DEF RouterTypes
      <3> QED BY <1>6, <2>1, <2>2, <2>5, <3>3 DEF Read, SocketTypes, RouterTypes
    <2> QED BY <1>6, <2>3, <2>4, <2>5 DEF Read
  <1>7. CASE IdleTimeout
    BY <1>7, GiveUpTypes DEF IdleTimeout, SocketTypes, RouterTypes
  <1>8. CASE Closed
    BY <1>8, GiveUpTypes DEF Closed, SocketTypes, RouterTypes
  <1>9. CASE Wake
    BY <1>9 DEF Wake, SocketTypes, RouterTypes
  <1>10. CASE PollEpoch
    BY <1>10 DEF PollEpoch, Observed, ObserveSlot, SocketTypes, RouterTypes
  <1>11. CASE TakeTick
    <2>1. ticks' \in Seq(Updates) /\ Head(ticks) \in Updates
      BY <1>11, Taken DEF TakeTick, RouterTypes
    <2>2. Head(ticks).w \in Watches /\ Head(ticks).data \in AnyData
      BY <2>1 DEF Updates
    <2> QED BY <1>11, <2>1, <2>2 DEF TakeTick, SocketTypes, RouterTypes
  <1>12. CASE Serve
    <2>1. PICK w \in server.pending :
             /\ server' = [pending |-> server.pending \ {w}, live |-> Append(server.live, w)]
             /\ wire' = Append(wire, [kind |-> "ack", id |-> w, sub |-> Len(server.live) + 1])
      BY <1>12 DEF Serve
    <2>2. w \in Watches /\ server.pending \in SUBSET Watches /\ server.live \in Seq(Watches)
      BY DEF SocketTypes
    <2>3. [kind |-> "ack", id |-> w, sub |-> Len(server.live) + 1] \in Messages
      BY <2>2 DEF Messages
    <2>4. wire' \in Seq(Messages)
      BY <2>1, <2>3 DEF SocketTypes
    <2>5. server' \in [pending : SUBSET Watches, live : Seq(Watches)]
      BY <2>1, <2>2
    <2> QED BY <1>12, <2>4, <2>5 DEF Serve, SocketTypes, RouterTypes
  <1>13. CASE Change
    <2>1. PICK w \in Watches, good \in BOOLEAN : Changes(w, IF good THEN <<w, head + 1>> ELSE Bad)
      BY <1>13 DEF Change, Changes
    <2> DEFINE data == IF good THEN <<w, head + 1>> ELSE Bad
    <2>2. data \in AnyData /\ head' \in Nat
      BY <2>1 DEF Changes, SocketTypes, AnyData
    <2>3. account' \in [Watches -> AnyData]
      BY <2>1, <2>2 DEF Changes, SocketTypes
    <2>4. owed' \in [Watches -> BOOLEAN]
      BY <2>1 DEF Changes, RouterTypes
    <2>5. wire' \in Seq(Messages)
      <3>1. CASE wire' = wire
        BY <3>1 DEF SocketTypes
      <3>2. ASSUME NEW s \in DOMAIN server.live, wire' = Append(wire, [kind |-> "note", sub |-> s, data |-> data])
            PROVE  wire' \in Seq(Messages)
        <4>1. s \in Nat
          BY DEF SocketTypes
        <4>2. [kind |-> "note", sub |-> s, data |-> data] \in Messages
          BY <2>2, <4>1 DEF Messages
        <4> QED BY <3>2, <4>2 DEF SocketTypes
      <3> QED BY <2>1, <3>1, <3>2 DEF Changes
    <2> QED BY <2>1, <2>2, <2>3, <2>4, <2>5 DEF Changes, SocketTypes, RouterTypes
  <1>14. CASE NewSlot
    <2>1. [kind |-> "slot", slot |-> head + 1] \in Messages
      BY DEF SocketTypes, Messages
    <2>2. wire' \in Seq(Messages)
      <3>1. CASE wire' = wire
        BY <3>1 DEF SocketTypes
      <3>2. CASE wire' = Append(wire, [kind |-> "slot", slot |-> head + 1])
        BY <2>1, <3>2 DEF SocketTypes
      <3> QED BY <1>14, <3>1, <3>2 DEF NewSlot
    <2> QED BY <1>14, <2>2 DEF NewSlot, SocketTypes, RouterTypes
  <1>15. CASE Die
    BY <1>15 DEF Die, SocketTypes, RouterTypes
  <1>16. CASE Tick
    <2>1. sock.quiet + 1 \in Nat
      BY DEF SocketTypes
    <2>2. sock' \in [phase : {"connect", "seed", "open", "sleep"}, dead : BOOLEAN, quiet : Nat]
      BY <1>16, <2>1 DEF Tick, SocketTypes
    <2> QED BY <1>16, <2>2 DEF Tick, SocketTypes, RouterTypes
  <1>17. CASE UNCHANGED chainVars
    BY <1>17 DEF chainVars, SocketTypes, RouterTypes
  <1> QED BY <1>1, <1>2, <1>3, <1>4, <1>5, <1>6, <1>7, <1>8, <1>9, <1>10, <1>11, <1>12, <1>13, <1>14,
             <1>15, <1>16, <1>17 DEF Next, ChainStep, vars

----------------------------------------------------------------------------
(* Data stays with its watch *)

\* When a note is read its subscription is known for what it is.
LEMMA NoteIsKnown ==
    ASSUME Types, SubscriptionsMatch, sock.phase = "open", wire # <<>>, Head(wire).kind = "note"
    PROVE  /\ Head(wire).sub \in DOMAIN subs /\ Head(wire).sub \in DOMAIN server.live
           /\ subs[Head(wire).sub] = server.live[Head(wire).sub]
           /\ Head(wire).data \in DataOf(server.live[Head(wire).sub])
  <1>1. 1 \in DOMAIN wire /\ Head(wire) = wire[1] /\ \A j \in DOMAIN wire : ~(j < 1)
    BY Taken DEF Types, SocketTypes
  <1>2. /\ wire[1].sub \in DOMAIN server.live /\ wire[1].data \in DataOf(server.live[wire[1].sub])
        /\ wire[1].sub \in DOMAIN subs \/ \E j \in DOMAIN wire : j < 1 /\ AckOf(wire[j], wire[1].sub)
    BY <1>1 DEF SubscriptionsMatch
  <1>3. wire[1].sub \in DOMAIN subs
    BY <1>1, <1>2
  <1> QED BY <1>1, <1>2, <1>3 DEF SubscriptionsMatch

LEMMA ForwardKeepsData ==
    ASSUME Types, DataIsOfItsWatch, NEW u \in Updates, u.data \in DataOf(u.w), Forward(u)
    PROVE  /\ \A i \in DOMAIN ticks' : ticks'[i].data \in Facts(ticks'[i].w)
           /\ \A w \in Watches : state'[w].mid \in Facts(w) \cup {None}
  <1>1. u.w \in Watches
    BY DEF Updates
  <1>2. \A w \in Watches : state'[w].mid \in Facts(w) \cup {None}
    <2>1. state'[u.w] = OnAccount(state[u.w], u.data)
      BY <1>1 DEF Forward, Types, RouterTypes
    <2>2. OnAccount(state[u.w], u.data).mid \in Facts(u.w) \cup {None}
      BY <1>1 DEF OnAccount, DataIsOfItsWatch, DataOf, Types, RouterTypes
    <2>3. \A w \in Watches \ {u.w} : state'[w] = state[w]
      BY <1>1 DEF Forward, Types, RouterTypes
    <2> QED BY <2>1, <2>2, <2>3 DEF DataIsOfItsWatch
  <1>3. \A i \in DOMAIN ticks' : ticks'[i].data \in Facts(ticks'[i].w)
    <2>1. CASE ticks' = ticks
      BY <2>1 DEF DataIsOfItsWatch
    <2>2. CASE ticks' = Append(ticks, u) /\ u.data # Bad
      <3>1. u.data \in Facts(u.w)
        BY <2>2 DEF DataOf
      <3> QED BY <2>2, <3>1, Put DEF DataIsOfItsWatch, Types, RouterTypes
    <2> QED BY <2>1, <2>2 DEF Forward, Ticked
  <1> QED BY <1>2, <1>3

LEMMA InitData == ChainInit => DataIsOfItsWatch
  BY DEF ChainInit, DataIsOfItsWatch, DataOf, Facts

LEMMA DataKept ==
    Types /\ DataIsOfItsWatch /\ SubscriptionsMatch /\ [Next]_vars => DataIsOfItsWatch'
  <1> SUFFICES ASSUME Types, DataIsOfItsWatch, SubscriptionsMatch, [Next]_vars PROVE DataIsOfItsWatch'
    OBVIOUS
  <1>1. CASE UNCHANGED <<account, seed, ticks, state, seen>>
    BY <1>1 DEF DataIsOfItsWatch
  <1>2. CASE Connect
    BY <1>2 DEF Connect, DataIsOfItsWatch
  <1>3. CASE SeedRead
    <2>1. \A w \in Watches : account[w] \in DataOf(w)
      BY DEF DataIsOfItsWatch
    <2>2. \A i \in DOMAIN seed' : seed'[i].data \in DataOf(seed'[i].w)
      BY <1>3, <2>1 DEF SeedRead
    <2> QED BY <1>3, <2>2 DEF SeedRead, DataIsOfItsWatch
  <1>4. CASE SeedApply
    <2>1. seed \in Seq(Updates) /\ seed # <<>> /\ seed # None
      BY <1>4 DEF SeedApply, Types, RouterTypes
    <2>2. Head(seed) \in Updates /\ Head(seed).data \in DataOf(Head(seed).w)
      BY <2>1, Taken DEF DataIsOfItsWatch
    <2>3. \A i \in DOMAIN Tail(seed) : Tail(seed)[i].data \in DataOf(Tail(seed)[i].w)
      BY <2>1, Taken DEF DataIsOfItsWatch
    <2>4. seed' # None => \A i \in DOMAIN seed' : seed'[i].data \in DataOf(seed'[i].w)
      BY <1>4, <2>3 DEF SeedApply
    <2> QED BY <1>4, <2>2, <2>4, ForwardKeepsData DEF SeedApply, DataIsOfItsWatch
  <1>5. CASE Read
    <2> DEFINE m == Head(wire)
    <2>1. CASE UNCHANGED <<state, ticks, lost>>
      BY <1>5, <2>1 DEF Read, DataIsOfItsWatch
    <2>2. CASE m.kind = "note" /\ m.sub \in DOMAIN subs /\ Forward([w |-> subs[m.sub], data |-> m.data])
      <3>1. m.data \in DataOf(subs[m.sub]) /\ m \in Messages
        BY <1>5, <2>2, NoteIsKnown, Taken DEF Read, Types, SocketTypes
      <3>2. [w |-> subs[m.sub], data |-> m.data] \in Updates
        BY <2>2, <3>1 DEF Types, SocketTypes, Updates, Messages
      <3> QED BY <1>5, <2>2, <3>1, <3>2, ForwardKeepsData DEF Read, DataIsOfItsWatch
    <2> QED BY <1>5, <2>1, <2>2 DEF Read
  <1>6. CASE TakeTick
    <2>1. ticks \in Seq(Updates) /\ ticks # <<>>
      BY <1>6 DEF TakeTick, Types, RouterTypes
    <2>2. Head(ticks).data \in Facts(Head(ticks).w) /\ Head(ticks).w \in Watches
      <3>1. Head(ticks) \in Updates /\ Head(ticks) = ticks[1] /\ 1 \in DOMAIN ticks
        BY <2>1, Taken
      <3> QED BY <3>1 DEF DataIsOfItsWatch, Updates
    <2>3. \A i \in DOMAIN ticks' : ticks'[i].data \in Facts(ticks'[i].w)
      BY <1>6, <2>1, Taken DEF TakeTick, DataIsOfItsWatch
    <2>4. \A w \in Watches : seen'[w] \in Facts(w) \cup {None}
      BY <1>6, <2>2 DEF TakeTick, DataIsOfItsWatch, Types, RouterTypes
    <2> QED BY <1>6, <2>3, <2>4 DEF TakeTick, DataIsOfItsWatch
  <1>7. CASE Change
    <2>1. PICK w \in Watches, good \in BOOLEAN : Changes(w, IF good THEN <<w, head + 1>> ELSE Bad)
      BY <1>7 DEF Change, Changes
    <2>2. (IF good THEN <<w, head + 1>> ELSE Bad) \in DataOf(w)
      BY DEF DataOf, Facts, Types, SocketTypes
    <2> QED BY <2>1, <2>2 DEF Changes, DataIsOfItsWatch, Types, SocketTypes
  <1>8. CASE ConnectFails \/ SeedFails \/ IdleTimeout \/ Closed \/ Wake \/ PollEpoch
    BY <1>1, <1>8 DEF ConnectFails, SeedFails, IdleTimeout, Closed, Wake, PollEpoch
  <1>9. CASE Serve \/ NewSlot \/ Die \/ Tick \/ UNCHANGED chainVars
    BY <1>1, <1>9 DEF Serve, NewSlot, Die, Tick, chainVars
  <1> QED BY <1>2, <1>3, <1>4, <1>5, <1>6, <1>7, <1>8, <1>9 DEF Next, ChainStep, vars

----------------------------------------------------------------------------
(* Subscriptions match *)

\* A connection that is given up leaves nothing of it behind.
LEMMA GivenUp == ASSUME GiveUp PROVE SubscriptionsMatch'
  <1>1. sock'.phase = "sleep" /\ wire' = <<>> /\ server'.live = <<>>
    BY DEF GiveUp, NoServer
  <1>2. \A i : i \notin DOMAIN wire' /\ i \notin DOMAIN server'.live
    BY <1>1
  <1> QED BY <1>1, <1>2 DEF SubscriptionsMatch

\* A message that is no acknowledgement of a subscription yet to be made.
LEMMA PutOnTheWire ==
    ASSUME Types, SubscriptionsMatch, Connected, NEW m \in Messages,
           wire' = Append(wire, m), UNCHANGED <<server, sock, subs>>,
           m.kind # "ack",
           m.kind = "note" => m.sub \in DOMAIN server.live /\ m.data \in DataOf(server.live[m.sub])
    PROVE  SubscriptionsMatch'
  <1> DEFINE n == Len(wire) + 1
  <1>1. /\ n \in DOMAIN wire' /\ wire'[n] = m
        /\ \A i \in DOMAIN wire : i < n /\ i \in DOMAIN wire' /\ wire'[i] = wire[i]
        /\ \A i \in DOMAIN wire' : i \in DOMAIN wire \/ i = n
    BY Put DEF Types, SocketTypes
  <1> HIDE DEF n
  <1>2. \A i \in DOMAIN wire : wire'[i] = wire[i]
    BY <1>1
  <1>3. \A s \in DOMAIN server.live : s \in DOMAIN subs \/ \E j \in DOMAIN wire : AckOf(wire[j], s)
    BY DEF SubscriptionsMatch
  <1>4. \A s \in DOMAIN server'.live : s \in DOMAIN subs' \/ \E j \in DOMAIN wire' : AckOf(wire'[j], s)
    BY <1>1, <1>2, <1>3
  <1>5. ASSUME NEW i \in DOMAIN wire'
        PROVE  /\ wire'[i].kind = "ack" => wire'[i].sub \in DOMAIN server'.live
                                           /\ server'.live[wire'[i].sub] = wire'[i].id
               /\ wire'[i].kind = "note" =>
                     /\ wire'[i].sub \in DOMAIN server'.live
                     /\ wire'[i].data \in DataOf(server'.live[wire'[i].sub])
                     /\ wire'[i].sub \in DOMAIN subs' \/ \E j \in DOMAIN wire' : j < i /\ AckOf(wire'[j], wire'[i].sub)
    <2>1. CASE i = n
      BY <1>1, <1>2, <1>3, <2>1
    <2>2. CASE i \in DOMAIN wire
      BY <1>1, <1>2, <2>2 DEF SubscriptionsMatch
    <2> QED BY <1>1, <2>1, <2>2
  <1>6. sock'.phase \notin {"connect", "sleep"}
    BY DEF Connected
  <1> QED BY <1>4, <1>5, <1>6 DEF SubscriptionsMatch

LEMMA InitSubscriptions == ChainInit => SubscriptionsMatch
  <1> SUFFICES ASSUME ChainInit PROVE SubscriptionsMatch
    OBVIOUS
  <1>1. \A i : i \notin DOMAIN wire /\ i \notin DOMAIN server.live
    BY DEF ChainInit, NoServer
  <1> QED BY <1>1 DEF ChainInit, NoServer, SubscriptionsMatch

LEMMA SubscriptionsKept == Types /\ SubscriptionsMatch /\ [Next]_vars => SubscriptionsMatch'
  <1> SUFFICES ASSUME Types, SubscriptionsMatch, [Next]_vars PROVE SubscriptionsMatch'
    OBVIOUS
  <1>1. CASE UNCHANGED <<server, wire, subs>>
             /\ \/ sock'.phase = sock.phase
                \/ (sock.phase \in {"seed", "open"} /\ sock'.phase \in {"seed", "open"})
                \/ (sock.phase = "sleep" /\ sock'.phase = "connect")
    BY <1>1 DEF SubscriptionsMatch, AckOf
  <1>2. CASE ConnectFails \/ IdleTimeout \/ Closed
    BY <1>2, GivenUp DEF ConnectFails, IdleTimeout, Closed
  <1>3. CASE Connect
    <2>1. \A i : i \notin DOMAIN wire' /\ i \notin DOMAIN server'.live /\ i \notin DOMAIN subs'
      BY <1>3 DEF Connect
    <2>2. sock'.phase = "seed"
      BY <1>3 DEF Connect
    <2> QED BY <2>1, <2>2 DEF SubscriptionsMatch
  <1>4. CASE SeedRead \/ SeedFails \/ SeedApply
    BY <1>1, <1>4 DEF SeedRead, SeedFails, SeedApply, Types, SocketTypes
  <1>5. CASE Wake \/ PollEpoch \/ TakeTick \/ Die \/ Tick \/ UNCHANGED chainVars
    BY <1>1, <1>5 DEF Wake, PollEpoch, TakeTick, Die, Tick, chainVars, Types, SocketTypes
  <1>6. CASE Read
    <2> DEFINE m == Head(wire)
    <2>1. /\ m = wire[1] /\ 1 \in DOMAIN wire /\ m \in Messages
          /\ \A i \in DOMAIN wire' : i + 1 \in DOMAIN wire /\ wire'[i] = wire[i + 1] /\ i \in Nat
          /\ \A i \in DOMAIN wire : i \in Nat /\ i >= 1 /\ (i > 1 => i - 1 \in DOMAIN wire')
      <3>1. wire \in Seq(Messages) /\ wire # <<>> /\ wire' = Tail(wire)
        BY <1>6 DEF Read, Types, SocketTypes
      <3> QED BY <3>1, Taken
    <2>2. sock'.phase = "open" /\ sock.phase = "open" /\ UNCHANGED server
      BY <1>6 DEF Read, Types, SocketTypes
    \* What was acknowledged is known, or the acknowledgement is still to be read.
    <2>3. ASSUME NEW s \in DOMAIN server.live, NEW j \in DOMAIN wire, AckOf(wire[j], s)
          PROVE  s \in DOMAIN subs' \/ (j > 1 /\ j - 1 \in DOMAIN wire' /\ AckOf(wire'[j - 1], s))
      <3>1. CASE j = 1
        <4>1. m.kind = "ack" /\ m.sub = s
          BY <2>1, <2>3, <3>1 DEF AckOf
        <4>2. subs' = [x \in DOMAIN subs \cup {s} |-> IF x = s THEN AckedWatch(m.id) ELSE subs[x]]
          BY <1>6, <4>1 DEF Read
        <4>3. DOMAIN subs' = DOMAIN subs \cup {s}
          BY <4>2
        <4> QED BY <4>3
      <3>2. CASE j > 1
        BY <2>1, <2>3, <3>2 DEF AckOf
      <3> QED BY <2>1, <3>1, <3>2
    <2>4. DOMAIN subs \subseteq DOMAIN subs'
      BY <1>6 DEF Read
    <2>5. \A s \in DOMAIN subs' : s \in DOMAIN server.live /\ subs'[s] = server.live[s]
      <3>1. CASE m.kind = "ack"
        <4>1. m.sub \in DOMAIN server.live /\ server.live[m.sub] = m.id
          BY <2>1, <3>1 DEF SubscriptionsMatch
        <4>2. subs' = [s \in DOMAIN subs \cup {m.sub} |-> IF s = m.sub THEN m.id ELSE subs[s]]
          BY <1>6, <3>1 DEF Read, AckedWatch
        <4> QED BY <2>2, <4>1, <4>2 DEF SubscriptionsMatch
      <3>2. CASE m.kind # "ack"
        BY <1>6, <2>2, <3>2 DEF Read, SubscriptionsMatch
      <3> QED BY <3>1, <3>2
    <2>6. \A s \in DOMAIN server.live : s \in DOMAIN subs' \/ \E j \in DOMAIN wire' : AckOf(wire'[j], s)
      BY <2>3, <2>4 DEF SubscriptionsMatch
    <2>7. ASSUME NEW i \in DOMAIN wire'
          PROVE  /\ wire'[i].kind = "ack" => wire'[i].sub \in DOMAIN server.live
                                             /\ server.live[wire'[i].sub] = wire'[i].id
                 /\ wire'[i].kind = "note" =>
                       /\ wire'[i].sub \in DOMAIN server.live
                       /\ wire'[i].data \in DataOf(server.live[wire'[i].sub])
                       /\ wire'[i].sub \in DOMAIN subs' \/ \E j \in DOMAIN wire' : j < i /\ AckOf(wire'[j], wire'[i].sub)
      <3>1. i + 1 \in DOMAIN wire /\ wire'[i] = wire[i + 1] /\ i \in Nat
        BY <2>1
      <3>2. CASE wire'[i].kind = "note"
        <4>1. /\ wire'[i].sub \in DOMAIN server.live /\ wire'[i].data \in DataOf(server.live[wire'[i].sub])
              /\ wire'[i].sub \in DOMAIN subs \/ \E j \in DOMAIN wire : j < i + 1 /\ AckOf(wire[j], wire'[i].sub)
          BY <3>1, <3>2 DEF SubscriptionsMatch
        <4>2. ASSUME NEW j \in DOMAIN wire, j < i + 1, AckOf(wire[j], wire'[i].sub)
              PROVE  wire'[i].sub \in DOMAIN subs' \/ \E k \in DOMAIN wire' : k < i /\ AckOf(wire'[k], wire'[i].sub)
          <5>1. j \in Nat /\ j - 1 < i
            BY <2>1, <3>1, <4>2
          <5> QED BY <2>3, <4>1, <4>2, <5>1
        <4> QED BY <2>4, <3>2, <4>1, <4>2
      <3>3. CASE wire'[i].kind # "note"
        BY <3>1, <3>3 DEF SubscriptionsMatch
      <3> QED BY <3>2, <3>3
    <2> QED BY <2>2, <2>5, <2>6, <2>7 DEF SubscriptionsMatch
  <1>7. CASE Serve
    <2>1. PICK w \in server.pending :
             /\ server' = [pending |-> server.pending \ {w}, live |-> Append(server.live, w)]
             /\ wire' = Append(wire, [kind |-> "ack", id |-> w, sub |-> Len(server.live) + 1])
             /\ UNCHANGED <<sock, subs>> /\ Connected
      BY <1>7 DEF Serve
    <2> DEFINE n == Len(wire) + 1  k == Len(server.live) + 1
    <2>2. /\ n \in DOMAIN wire' /\ wire'[n] = [kind |-> "ack", id |-> w, sub |-> k]
          /\ \A i \in DOMAIN wire : i < n /\ i \in DOMAIN wire' /\ wire'[i] = wire[i]
          /\ \A i \in DOMAIN wire' : i \in DOMAIN wire \/ i = n
      <3>1. wire \in Seq(Messages) /\ w \in Watches /\ k \in Nat
        BY DEF Types, SocketTypes
      <3>2. [kind |-> "ack", id |-> w, sub |-> k] \in Messages
        BY <3>1 DEF Messages
      <3> QED BY <2>1, <3>1, <3>2, Put
    <2>3. /\ server'.live[k] = w /\ k \in DOMAIN server'.live
          /\ \A s \in DOMAIN server.live : s \in DOMAIN server'.live /\ server'.live[s] = server.live[s]
          /\ \A s \in DOMAIN server'.live : s \in DOMAIN server.live \/ s = k
      <3>1. server.live \in Seq(Watches) /\ w \in Watches /\ server'.live = Append(server.live, w)
        BY <2>1 DEF Types, SocketTypes
      <3> QED BY <3>1, Put
    <2> HIDE DEF n, k
    <2>4. AckOf(wire'[n], k)
      BY <2>2 DEF AckOf
    <2>5. \A s \in DOMAIN server'.live : s \in DOMAIN subs' \/ \E j \in DOMAIN wire' : AckOf(wire'[j], s)
      BY <2>1, <2>2, <2>3, <2>4 DEF SubscriptionsMatch
    <2>6. ASSUME NEW i \in DOMAIN wire'
          PROVE  /\ wire'[i].kind = "ack" => wire'[i].sub \in DOMAIN server'.live
                                             /\ server'.live[wire'[i].sub] = wire'[i].id
                 /\ wire'[i].kind = "note" =>
                       /\ wire'[i].sub \in DOMAIN server'.live
                       /\ wire'[i].data \in DataOf(server'.live[wire'[i].sub])
                       /\ wire'[i].sub \in DOMAIN subs' \/ \E j \in DOMAIN wire' : j < i /\ AckOf(wire'[j], wire'[i].sub)
      <3>1. CASE i = n
        BY <2>2, <2>3, <3>1
      <3>2. CASE i \in DOMAIN wire
        BY <2>1, <2>2, <2>3, <2>4, <3>2 DEF SubscriptionsMatch
      <3> QED BY <2>2, <3>1, <3>2
    <2>7. sock'.phase \in {"seed", "open"} => sock.phase \in {"seed", "open"}
      BY <2>1
    <2>8. sock'.phase \notin {"connect", "sleep"}
      BY <2>1 DEF Connected
    <2>9. \A s \in DOMAIN subs' : s \in DOMAIN server'.live /\ subs'[s] = server'.live[s]
      BY <2>1, <2>3, <2>8 DEF SubscriptionsMatch, Connected
    <2> QED BY <2>5, <2>6, <2>8, <2>9 DEF SubscriptionsMatch
  <1>8. CASE Change
    <2>1. PICK w \in Watches, good \in BOOLEAN : Changes(w, IF good THEN <<w, head + 1>> ELSE Bad)
      BY <1>8 DEF Change, Changes
    <2> DEFINE data == IF good THEN <<w, head + 1>> ELSE Bad
    <2>2. data \in DataOf(w) /\ data \in AnyData
      BY DEF DataOf, Facts, AnyData, Types, SocketTypes
    <2> HIDE DEF data
    <2>3. ASSUME NEW s \in DOMAIN server.live, server.live[s] = w, Connected,
                 wire' = Append(wire, [kind |-> "note", sub |-> s, data |-> data])
          PROVE  SubscriptionsMatch'
      <3>1. s \in Nat
        BY DEF Types, SocketTypes
      <3>2. [kind |-> "note", sub |-> s, data |-> data] \in Messages
        BY <2>2, <3>1 DEF Messages
      <3>3. UNCHANGED <<server, sock, subs>>
        BY <2>1 DEF Changes
      <3> QED BY <2>2, <2>3, <3>2, <3>3, PutOnTheWire
    <2>4. CASE wire' = wire
      BY <1>1, <2>1, <2>4 DEF Changes
    <2> QED BY <2>1, <2>3, <2>4 DEF Changes, data
  <1>9. CASE NewSlot
    <2>1. [kind |-> "slot", slot |-> head + 1] \in Messages
      BY DEF Types, SocketTypes, Messages
    <2>2. CASE wire' = wire
      BY <1>1, <1>9, <2>2 DEF NewSlot
    <2>3. CASE Connected /\ wire' = Append(wire, [kind |-> "slot", slot |-> head + 1])
      BY <1>9, <2>1, <2>3, PutOnTheWire DEF NewSlot
    <2> QED BY <1>9, <2>2, <2>3 DEF NewSlot
  <1> QED BY <1>2, <1>3, <1>4, <1>5, <1>6, <1>7, <1>8, <1>9 DEF Next, ChainStep, vars

----------------------------------------------------------------------------
(* The newest is on its way *)

\* What the router has of a watch, or will have, changes only with its ticks.
LEMMA HandedStays ==
    ASSUME NEW w \in Watches, Handed(w), UNCHANGED <<ticks, seen>>, account'[w] = account[w]
    PROVE  Handed(w)'
  BY DEF Handed, LastTick

\* A tick handed over is the newest of its watch and none of another.
LEMMA HandedOn ==
    ASSUME Types, NEW u \in Updates, ticks' = Append(ticks, u), UNCHANGED <<account, seen>>,
           NEW w \in Watches, u.w = w => u.data = account[w], u.w # w => Handed(w)
    PROVE  Handed(w)'
  <1> DEFINE n == Len(ticks) + 1
  <1>1. /\ n \in DOMAIN ticks' /\ ticks'[n] = u
        /\ \A i \in DOMAIN ticks : i < n /\ i \in DOMAIN ticks' /\ ticks'[i] = ticks[i]
        /\ \A i \in DOMAIN ticks' : i \in DOMAIN ticks \/ i = n
    BY Put DEF Types, RouterTypes
  <1> HIDE DEF n
  <1>2. CASE u.w = w
    <2>1. \A i \in DOMAIN ticks' : LastTick(i, w)' => i = n
      <3> SUFFICES ASSUME NEW i \in DOMAIN ticks', LastTick(i, w)' PROVE i = n
        OBVIOUS
      <3>1. n <= i
        BY <1>1, <1>2 DEF LastTick
      <3> QED BY <1>1, <3>1
    <2> QED BY <1>1, <1>2, <2>1 DEF Handed
  <1>3. CASE u.w # w
    <2>1. ASSUME NEW i \in DOMAIN ticks', LastTick(i, w)' PROVE ticks'[i].data = account'[w]
      <3>1. i \in DOMAIN ticks /\ ticks'[i] = ticks[i] /\ ticks[i].w = w
        BY <1>1, <1>3, <2>1 DEF LastTick
      <3>2. LastTick(i, w)
        BY <1>1, <2>1, <3>1 DEF LastTick
      <3> QED BY <1>3, <3>1, <3>2 DEF Handed
    <2>2. (\A i \in DOMAIN ticks' : ticks'[i].w # w) => seen'[w] = account'[w]
      BY <1>1, <1>3 DEF Handed
    <2> QED BY <2>1, <2>2 DEF Handed
  <1> QED BY <1>2, <1>3

\* forward of a watch's newest data, or of another's.
LEMMA Forwarded ==
    ASSUME Types, NEW u \in Updates, u.data \in DataOf(u.w), Forward(u), UNCHANGED <<account, seen>>,
           NEW w \in Watches, u.w = w => u.data = account[w],
           u.w # w => state[w].disabled \/ lost[w] \/ Handed(w)
    PROVE  state'[w].disabled \/ lost'[w] \/ Handed(w)'
  <1>1. u.w \in Watches
    BY DEF Updates
  <1>2. CASE u.w = w /\ ~Ticked(state[w], u.data)
    <2>1. state[w].disabled \/ u.data = Bad
      BY <1>2 DEF Ticked, Hot
    <2>2. state'[w] = OnAccount(state[w], u.data)
      BY <1>1, <1>2 DEF Forward, Types, RouterTypes
    <2>3. state'[w].disabled
      BY <2>1, <2>2 DEF OnAccount, Types, RouterTypes
    <2> QED BY <2>3
  <1>3. CASE u.w = w /\ Ticked(state[w], u.data) /\ ~(Len(ticks) < TickCap)
    <2>1. lost'[w]
      BY <1>1, <1>3 DEF Forward, Types, RouterTypes
    <2> QED BY <2>1
  <1>4. CASE u.w = w /\ Ticked(state[w], u.data) /\ Len(ticks) < TickCap
    BY <1>4, HandedOn DEF Forward
  <1>5. CASE u.w # w
    <2>1. state'[w] = state[w] /\ lost'[w] = lost[w]
      BY <1>1, <1>5 DEF Forward, Types, RouterTypes
    <2>2. ticks' = ticks \/ ticks' = Append(ticks, u)
      BY DEF Forward
    <2>3. Handed(w) => Handed(w)'
      BY <1>5, <2>2, HandedOn, HandedStays
    <2> QED BY <1>5, <2>1, <2>3
  <1> QED BY <1>2, <1>3, <1>4, <1>5

\* A message put on the wire that says nothing of a watch.
LEMMA OtherMessage ==
    ASSUME Types, NEW m \in Messages, wire' = Append(wire, m),
           NEW w \in Watches, OnItsWay(w),
           UNCHANGED <<sock, state, lost, ticks, seen>>, account'[w] = account[w],
           \A i \in DOMAIN wire : Tells(wire[i], server'.live, w) <=> Tells(wire[i], server.live, w),
           ~Tells(m, server'.live, w)
    PROVE  OnItsWay(w)'
  <1> DEFINE n == Len(wire) + 1
  <1>1. /\ n \in DOMAIN wire' /\ wire'[n] = m
        /\ \A i \in DOMAIN wire : i < n /\ i \in DOMAIN wire' /\ wire'[i] = wire[i]
        /\ \A i \in DOMAIN wire' : i \in DOMAIN wire \/ i = n
    BY Put DEF Types, SocketTypes
  <1> HIDE DEF n
  <1>2. ASSUME NEW i \in DOMAIN wire', LastTold(i, w)' PROVE wire'[i].data = account'[w]
    <2>1. i \in DOMAIN wire /\ wire'[i] = wire[i]
      BY <1>1, <1>2 DEF LastTold
    <2>2. LastTold(i, w)
      BY <1>1, <1>2, <2>1 DEF LastTold
    <2> QED BY <2>1, <2>2 DEF OnItsWay
  <1>3. ASSUME \A i \in DOMAIN wire' : ~Tells(wire'[i], server'.live, w)
        PROVE  sock'.phase = "open" /\ (state'[w].disabled \/ lost'[w] \/ Handed(w)')
    <2>1. \A i \in DOMAIN wire : ~Tells(wire[i], server.live, w)
      BY <1>1, <1>3
    <2> QED BY <2>1, HandedStays DEF OnItsWay
  <1> QED BY <1>2, <1>3 DEF OnItsWay

LEMMA InitNewest == ChainInit => NewestIsOnItsWay
  BY DEF ChainInit, NewestIsOnItsWay

LEMMA NewestKept ==
    Types /\ DataIsOfItsWatch /\ SubscriptionsMatch /\ NewestIsOnItsWay /\ [Next]_vars => NewestIsOnItsWay'
  <1> SUFFICES ASSUME Types, DataIsOfItsWatch, SubscriptionsMatch, NewestIsOnItsWay, [Next]_vars,
                      NEW w \in Watches, owed'[w], sock'.phase \in {"seed", "open"}
               PROVE  OnItsWay(w)'
    BY DEF NewestIsOnItsWay
  <1>1. CASE UNCHANGED <<account, server, wire, state, ticks, seen, lost, owed>> /\ sock'.phase = sock.phase
    <2>1. OnItsWay(w)
      BY <1>1 DEF NewestIsOnItsWay
    <2>2. \A i \in DOMAIN wire' : LastTold(i, w)' => LastTold(i, w)
      BY <1>1 DEF LastTold
    <2>3. Handed(w) => Handed(w)'
      BY <1>1, HandedStays
    <2> QED BY <1>1, <2>1, <2>2, <2>3 DEF OnItsWay
  <1>2. CASE Connect
    BY <1>2 DEF Connect
  <1>3. CASE ConnectFails \/ IdleTimeout \/ Closed
    BY <1>3 DEF ConnectFails, IdleTimeout, Closed, GiveUp
  <1>4. CASE Wake
    BY <1>4 DEF Wake, Types, SocketTypes
  \* While the accounts are read over RPC the wire is not: what is owed is on it.
  <1>5. CASE SeedApply \/ SeedFails
    <2>1. UNCHANGED <<account, server, wire, owed>> /\ sock.phase = "seed"
      BY <1>5 DEF SeedApply, SeedFails
    <2>2. OnItsWay(w)
      BY <2>1 DEF NewestIsOnItsWay
    <2>3. \A i \in DOMAIN wire' : LastTold(i, w)' => LastTold(i, w)
      BY <2>1 DEF LastTold
    <2> QED BY <2>1, <2>2, <2>3 DEF OnItsWay
  <1>6. CASE SeedRead \/ PollEpoch \/ Die \/ Tick \/ UNCHANGED chainVars
    BY <1>1, <1>6 DEF SeedRead, PollEpoch, Die, Tick, chainVars, Types, SocketTypes
  <1>7. CASE Read
    <2> DEFINE m == Head(wire)
    <2>1. /\ m = wire[1] /\ 1 \in DOMAIN wire /\ m \in Messages
          /\ \A i \in DOMAIN wire' : i + 1 \in DOMAIN wire /\ wire'[i] = wire[i + 1] /\ i \in Nat
          /\ \A i \in DOMAIN wire : i \in Nat /\ i >= 1 /\ (i > 1 => i - 1 \in DOMAIN wire')
      <3>1. wire \in Seq(Messages) /\ wire # <<>> /\ wire' = Tail(wire)
        BY <1>7 DEF Read, Types, SocketTypes
      <3> QED BY <3>1, Taken
    <2>2. sock'.phase = "open" /\ sock.phase = "open" /\ UNCHANGED <<server, account, seen, owed>>
      BY <1>7 DEF Read, Types, SocketTypes
    <2>3. OnItsWay(w)
      BY <2>2 DEF NewestIsOnItsWay
    <2>4. ASSUME NEW i \in DOMAIN wire', LastTold(i, w)' PROVE wire'[i].data = account'[w]
      <3>1. i + 1 \in DOMAIN wire /\ wire'[i] = wire[i + 1]
        BY <2>1
      <3>2. ASSUME NEW j \in DOMAIN wire, Tells(wire[j], server.live, w) PROVE j <= i + 1
        <4>1. CASE j > 1
          <5>1. j - 1 \in DOMAIN wire' /\ wire'[j - 1] = wire[j]
            BY <2>1, <4>1
          <5>2. j - 1 <= i
            BY <2>2, <2>4, <3>2, <5>1 DEF LastTold
          <5> QED BY <2>1, <5>2
        <4> QED BY <2>1, <4>1
      <3>3. LastTold(i + 1, w)
        BY <2>2, <2>4, <3>1, <3>2 DEF LastTold
      <3> QED BY <2>2, <2>3, <3>1, <3>3 DEF OnItsWay
    <2>5. ASSUME \A i \in DOMAIN wire' : ~Tells(wire'[i], server'.live, w)
          PROVE  state'[w].disabled \/ lost'[w] \/ Handed(w)'
      <3>1. \A j \in DOMAIN wire : j > 1 => ~Tells(wire[j], server.live, w)
        BY <2>1, <2>2, <2>5
      <3>2. ~Tells(m, server.live, w) => state[w].disabled \/ lost[w] \/ Handed(w)
        BY <2>1, <2>3, <3>1 DEF OnItsWay
      <3>3. CASE ~Tells(m, server.live, w) /\ UNCHANGED <<state, ticks, lost>>
        BY <2>2, <3>2, <3>3, HandedStays
      <3>4. CASE m.kind = "note"
        <4> DEFINE u == [w |-> subs[m.sub], data |-> m.data]
        <4>1. /\ m.sub \in DOMAIN subs /\ subs[m.sub] = server.live[m.sub] /\ m.sub \in DOMAIN server.live
              /\ m.data \in DataOf(server.live[m.sub])
          BY <1>7, <2>2, <3>4, NoteIsKnown DEF Read
        <4>2. u \in Updates /\ u.data \in DataOf(u.w)
          BY <2>1, <3>4, <4>1 DEF Types, SocketTypes, Updates, Messages
        <4>3. Forward(u)
          BY <1>7, <3>4, <4>1 DEF Read
        <4>4. u.w = w => u.data = account[w]
          <5> SUFFICES ASSUME u.w = w PROVE m.data = account[w]
            OBVIOUS
          <5>1. Tells(m, server.live, w)
            BY <3>4, <4>1 DEF Tells
          <5>2. LastTold(1, w)
            BY <2>1, <3>1, <5>1 DEF LastTold
          <5> QED BY <2>1, <2>3, <5>2 DEF OnItsWay
        <4>5. u.w # w => state[w].disabled \/ lost[w] \/ Handed(w)
          BY <3>2, <4>1 DEF Tells
        <4> HIDE DEF u
        <4> QED BY <2>2, <4>2, <4>3, <4>4, <4>5, Forwarded
      <3>5. CASE m.kind # "note"
        <4>1. UNCHANGED <<state, ticks, lost>>
          BY <1>7, <3>5 DEF Read
        <4> QED BY <3>3, <3>5, <4>1 DEF Tells
      <3> QED BY <3>4, <3>5
    <2> QED BY <2>2, <2>4, <2>5 DEF OnItsWay
  <1>8. CASE TakeTick
    <2>1. ticks \in Seq(Updates) /\ ticks # <<>> /\ ticks' = Tail(ticks)
      BY <1>8 DEF TakeTick, Types, RouterTypes
    <2>2. /\ Head(ticks) = ticks[1] /\ 1 \in DOMAIN ticks /\ Head(ticks) \in Updates
          /\ \A i \in DOMAIN ticks' : i + 1 \in DOMAIN ticks /\ ticks'[i] = ticks[i + 1] /\ i \in Nat
          /\ \A i \in DOMAIN ticks : i \in Nat /\ i >= 1 /\ (i > 1 => i - 1 \in DOMAIN ticks')
      BY <2>1, Taken
    <2>3. UNCHANGED <<server, wire, account, owed, sock, state, lost>>
      BY <1>8 DEF TakeTick
    <2>4. OnItsWay(w)
      BY <2>3 DEF NewestIsOnItsWay
    <2>5. \A i \in DOMAIN wire' : LastTold(i, w)' => LastTold(i, w)
      BY <2>3 DEF LastTold
    <2>6. ASSUME Handed(w) PROVE Handed(w)'
      <3>1. ASSUME NEW i \in DOMAIN ticks', LastTick(i, w)' PROVE ticks'[i].data = account'[w]
        <4>1. i + 1 \in DOMAIN ticks /\ ticks'[i] = ticks[i + 1]
          BY <2>2
        <4>2. ASSUME NEW j \in DOMAIN ticks, ticks[j].w = w PROVE j <= i + 1
          <5>1. CASE j > 1
            <6>1. j - 1 \in DOMAIN ticks' /\ ticks'[j - 1] = ticks[j]
              BY <2>2, <5>1
            <6>2. j - 1 <= i
              BY <3>1, <4>2, <6>1 DEF LastTick
            <6> QED BY <2>2, <6>2
          <5> QED BY <2>2, <5>1
        <4>3. LastTick(i + 1, w)
          BY <3>1, <4>1, <4>2 DEF LastTick
        <4> QED BY <2>3, <2>6, <4>1, <4>3 DEF Handed
      <3>2. ASSUME \A i \in DOMAIN ticks' : ticks'[i].w # w PROVE seen'[w] = account'[w]
        <4>1. \A j \in DOMAIN ticks : j > 1 => ticks[j].w # w
          BY <2>2, <3>2
        <4>2. seen' = [seen EXCEPT ![Head(ticks).w] = Head(ticks).data]
          BY <1>8 DEF TakeTick
        <4>3. CASE Head(ticks).w = w
          <5>1. LastTick(1, w)
            BY <2>2, <4>1, <4>3 DEF LastTick
          <5> QED BY <2>2, <2>3, <2>6, <4>2, <4>3, <5>1 DEF Handed, Types, RouterTypes
        <4>4. CASE Head(ticks).w # w
          <5>1. \A j \in DOMAIN ticks : ticks[j].w # w
            BY <2>2, <4>1, <4>4
          <5> QED BY <2>3, <2>6, <4>2, <4>4, <5>1 DEF Handed, Types, RouterTypes
        <4> QED BY <4>3, <4>4
      <3> QED BY <3>1, <3>2 DEF Handed
    <2> QED BY <2>3, <2>4, <2>5, <2>6 DEF OnItsWay
  <1>9. CASE Serve
    <2>1. PICK v \in server.pending :
             /\ server' = [pending |-> server.pending \ {v}, live |-> Append(server.live, v)]
             /\ wire' = Append(wire, [kind |-> "ack", id |-> v, sub |-> Len(server.live) + 1])
             /\ UNCHANGED <<account, sock, state, ticks, seen, lost, owed>>
      BY <1>9 DEF Serve
    <2>2. /\ server.live \in Seq(Watches) /\ v \in Watches /\ server'.live = Append(server.live, v)
          /\ Len(server.live) + 1 \in Nat
      BY <2>1 DEF Types, SocketTypes
    <2>3. \A s \in DOMAIN server.live : server'.live[s] = server.live[s]
      BY <2>2, Put
    <2>4. \A i \in DOMAIN wire : Tells(wire[i], server'.live, w) <=> Tells(wire[i], server.live, w)
      BY <2>3 DEF SubscriptionsMatch, Tells
    <2>5. [kind |-> "ack", id |-> v, sub |-> Len(server.live) + 1] \in Messages
      BY <2>2 DEF Messages
    <2>6. ~Tells([kind |-> "ack", id |-> v, sub |-> Len(server.live) + 1], server'.live, w)
      BY DEF Tells
    <2>7. OnItsWay(w)
      BY <2>1 DEF NewestIsOnItsWay
    <2> QED BY <2>1, <2>4, <2>5, <2>6, <2>7, OtherMessage
  <1>10. CASE Change
    <2>1. PICK v \in Watches, good \in BOOLEAN : Changes(v, IF good THEN <<v, head + 1>> ELSE Bad)
      BY <1>10 DEF Change, Changes
    <2> DEFINE data == IF good THEN <<v, head + 1>> ELSE Bad
    <2>2. data \in AnyData
      BY DEF AnyData, Types, SocketTypes
    <2> HIDE DEF data
    <2>3. UNCHANGED <<server, sock, state, ticks, seen, lost>> /\ account' = [account EXCEPT ![v] = data]
      BY <2>1 DEF Changes, data
    <2>4. ASSUME wire' = wire, owed' = [owed EXCEPT ![v] = FALSE] PROVE OnItsWay(w)'
      <3>1. v # w
        BY <2>4 DEF Types, RouterTypes
      <3>2. OnItsWay(w) /\ account'[w] = account[w]
        BY <2>3, <2>4, <3>1 DEF NewestIsOnItsWay, Types, RouterTypes, SocketTypes
      <3>3. \A i \in DOMAIN wire' : LastTold(i, w)' => LastTold(i, w)
        BY <2>3, <2>4 DEF LastTold
      <3>4. Handed(w) => Handed(w)'
        BY <2>3, <3>2, HandedStays
      <3> QED BY <2>3, <2>4, <3>2, <3>3, <3>4 DEF OnItsWay
    <2>5. ASSUME NEW s \in DOMAIN server.live, server.live[s] = v, owed' = [owed EXCEPT ![v] = TRUE],
                 wire' = Append(wire, [kind |-> "note", sub |-> s, data |-> data])
          PROVE  OnItsWay(w)'
      <3> DEFINE m == [kind |-> "note", sub |-> s, data |-> data]  n == Len(wire) + 1
      <3>1. s \in Nat
        BY DEF Types, SocketTypes
      <3>2. m \in Messages
        BY <2>2, <3>1 DEF Messages
      <3>3. /\ n \in DOMAIN wire' /\ wire'[n] = m
            /\ \A i \in DOMAIN wire : i < n
            /\ \A i \in DOMAIN wire' : i \in DOMAIN wire \/ i = n
        BY <2>5, <3>2, Put DEF Types, SocketTypes
      <3>4. CASE v = w
        <4> HIDE DEF n
        <4>1. Tells(wire'[n], server'.live, w) /\ wire'[n].data = data
          BY <2>3, <2>5, <3>3, <3>4 DEF Tells
        <4>2. account'[w] = data
          BY <2>3, <3>4 DEF Types, SocketTypes
        <4>3. \A i \in DOMAIN wire' : LastTold(i, w)' => i = n
          <5> SUFFICES ASSUME NEW i \in DOMAIN wire', LastTold(i, w)' PROVE i = n
            OBVIOUS
          <5>1. n <= i
            BY <3>3, <4>1 DEF LastTold
          <5>2. i \in Int /\ n \in Int
            BY <2>5, <3>2, <3>3, Put DEF Types, SocketTypes
          <5> QED BY <3>3, <5>1, <5>2
        <4> QED BY <3>3, <4>1, <4>2, <4>3 DEF OnItsWay
      <3>5. CASE v # w
        <4>1. OnItsWay(w) /\ account'[w] = account[w]
          BY <2>3, <2>5, <3>5 DEF NewestIsOnItsWay, Types, RouterTypes, SocketTypes
        <4>2. ~Tells(m, server'.live, w)
          BY <2>3, <2>5, <3>5 DEF Tells
        <4> HIDE DEF m
        <4> QED BY <2>3, <2>5, <3>2, <4>1, <4>2, OtherMessage DEF m
      <3> QED BY <3>4, <3>5
    <2> QED BY <2>1, <2>4, <2>5 DEF Changes, data
  <1>11. CASE NewSlot
    <2>1. [kind |-> "slot", slot |-> head + 1] \in Messages
      BY DEF Types, SocketTypes, Messages
    <2>2. ~Tells([kind |-> "slot", slot |-> head + 1], server'.live, w)
      BY DEF Tells
    <2>3. UNCHANGED <<account, server, sock, state, ticks, seen, lost, owed>>
      BY <1>11 DEF NewSlot
    <2>4. OnItsWay(w)
      BY <2>3 DEF NewestIsOnItsWay
    <2>5. CASE wire' = wire
      BY <1>1, <2>3, <2>5
    <2>6. CASE wire' = Append(wire, [kind |-> "slot", slot |-> head + 1])
      BY <2>1, <2>2, <2>3, <2>4, <2>6, OtherMessage
    <2> QED BY <1>11, <2>5, <2>6 DEF NewSlot
  <1> QED BY <1>2, <1>3, <1>4, <1>5, <1>6, <1>7, <1>8, <1>9, <1>10, <1>11 DEF Next, ChainStep, vars

----------------------------------------------------------------------------
(* The light *)

LEMMA InitLight == ChainInit => LightFollows
  BY DEF ChainInit, LightFollows

LEMMA LightKept == Types /\ LightFollows /\ [Next]_vars => LightFollows'
  <1> SUFFICES ASSUME Types, LightFollows, [Next]_vars PROVE LightFollows'
    OBVIOUS
  <1>1. CASE UNCHANGED health /\ (sock'.phase = sock.phase \/ (sock.phase = "seed" /\ sock'.phase = "open"))
    BY <1>1 DEF LightFollows
  <1>2. CASE ConnectFails \/ IdleTimeout \/ Closed
    <2>1. RecordErr(health) \in [connected : {"unknown", "yes", "no"}, row : Nat]
      BY DEF Types, SocketTypes, RecordErr
    <2>2. health'.connected = "no" /\ sock'.phase = "sleep"
      BY <1>2, <2>1 DEF ConnectFails, IdleTimeout, Closed, GiveUp, SetConnected
    <2> QED BY <2>2 DEF LightFollows
  <1>3. CASE Connect
    <2>1. health'.connected = "yes" /\ sock'.phase = "seed"
      BY <1>3 DEF Connect, SetConnected, Types, SocketTypes
    <2> QED BY <2>1 DEF LightFollows
  <1>4. CASE Wake
    <2>1. sock'.phase = "connect" /\ sock.phase = "sleep" /\ UNCHANGED health
      BY <1>4 DEF Wake, Types, SocketTypes
    <2> QED BY <2>1 DEF LightFollows
  <1>5. CASE Read
    <2>1. health'.connected = health.connected /\ sock'.phase = sock.phase
      BY <1>5 DEF Read, RecordOk, Types, SocketTypes
    <2> QED BY <2>1 DEF LightFollows
  <1>6. CASE SeedRead \/ SeedApply \/ SeedFails
    BY <1>1, <1>6 DEF SeedRead, SeedApply, SeedFails, Types, SocketTypes
  <1>7. CASE PollEpoch \/ TakeTick \/ Serve \/ Change \/ NewSlot \/ Die \/ Tick \/ UNCHANGED chainVars
    BY <1>1, <1>7 DEF PollEpoch, TakeTick, Serve, Change, NewSlot, Die, Tick, chainVars, Types, SocketTypes
  <1> QED BY <1>2, <1>3, <1>4, <1>5, <1>6, <1>7 DEF Next, ChainStep, vars

----------------------------------------------------------------------------
(* The theorem *)

LEMMA InvTellsTheTruth == FeedInv => FeedIsTrue
  <1> SUFFICES ASSUME FeedInv PROVE FeedIsTrue
    OBVIOUS
  <1>1. PriceIsOfItsPool
    BY DEF FeedInv, DataIsOfItsWatch, PriceIsOfItsPool, Facts
  <1>2. ChangesAreSeen
    <2> SUFFICES ASSUME sock.phase = "open", wire = <<>>, ticks = <<>>,
                        NEW w \in Watches, owed[w], ~state[w].disabled, ~lost[w]
                 PROVE  seen[w] = account[w]
      BY DEF ChangesAreSeen
    <2>1. \A i : i \notin DOMAIN wire /\ i \notin DOMAIN ticks
      OBVIOUS
    <2>2. OnItsWay(w)
      BY DEF FeedInv, NewestIsOnItsWay
    <2>3. Handed(w)
      BY <2>1, <2>2 DEF OnItsWay
    <2> QED BY <2>1, <2>3 DEF Handed
  <1>3. LightIsTrue
    BY DEF FeedInv, LightFollows, LightIsTrue, Shown, Types, SocketTypes
  <1> QED BY <1>1, <1>2, <1>3 DEF FeedIsTrue

\* For any number of accounts, any bounds of wire and channel, and whatever is
\* cut, lost, refused or acknowledged out of order: prices stay with their
\* accounts over reconnects, the newest change the feed was told of reaches the
\* router, and the light says whether there is a connection (run_chain_ws,
\* AccountFeed, Telemetry::snapshot).
THEOREM FeedTellsTheTruth == Spec => []FeedIsTrue
  <1>1. Init => FeedInv
    BY InitTypes, InitData, InitSubscriptions, InitNewest, InitLight DEF Init, FeedInv
  <1>2. FeedInv /\ [Next]_vars => FeedInv'
    BY TypesKept, DataKept, SubscriptionsKept, NewestKept, LightKept DEF FeedInv
  <1> QED BY <1>1, <1>2, InvTellsTheTruth, PTL DEF Spec
=============================================================================
