---------------------------- MODULE TraderProofs ----------------------------
(***************************************************************************)
(* Proofs about Trader: a transaction that may still land is written down, *)
(* and the account of a rule in one part is what the chain did.            *)
(***************************************************************************)
EXTENDS Trader, FiniteSetTheorems, TLAPS

----------------------------------------------------------------------------
(* A transaction that may still land is written down *)

\* What the hand-over reads of the state exists.  A grid's orders may go on over
\* an open swap, so nothing is said here of what the lots and orders amount to.
Listed(q) == \E S : q \in Seq(S)
Aged(s) == /\ {"pending", "lots"} \subseteq DOMAIN s /\ {"what", "age"} \subseteq DOMAIN s.pending
           /\ s.pending.what \in {"none", "Fund", "Buy", "Sell", "Raise"}
           /\ s.pending.age \in 0..SettledAfter
           /\ Listed(s.lots)
Trades(q) == \E S : q \in Seq(S) /\ \A o \in S : o.what \in {"Buy", "Sell"}
Working == {"fund", "decide", "next", "back", "swap", "deliver", "look"}
Shape ==
    /\ Aged(st) /\ Aged(saved) /\ passAge \in 0..SettledAfter
    /\ pc \in Working => task \in {"fund", "raise", "take", "taken", "orders", "stop", "close"}
    /\ Trades(todo)
    /\ \A t \in flight : "left" \in DOMAIN t /\ t.left \in 1..Life

LEMMA TradesIn ==
    ASSUME NEW q, NEW S, q \in Seq(S), \A o \in S : o.what \in {"Buy", "Sell"}
    PROVE  Trades(q)
  BY DEF Trades

LEMMA NoTrades == Trades(<<>>)
  <1> DEFINE S == {}
  <1>1. <<>> \in Seq(S) /\ \A o \in S : o.what \in {"Buy", "Sell"}
    OBVIOUS
  <1> HIDE DEF S
  <1> QED  BY <1>1, TradesIn

LEMMA OneTrade ==
    ASSUME NEW o, o.what \in {"Buy", "Sell"}
    PROVE  Trades(<<o>>)
  <1> DEFINE S == {o}
  <1>1. <<o>> \in Seq(S) /\ \A p \in S : p.what \in {"Buy", "Sell"}
    OBVIOUS
  <1> HIDE DEF S
  <1> QED  BY <1>1, TradesIn

LEMMA NextTrade ==
    ASSUME NEW q, Trades(q), q # <<>>
    PROVE  Head(q).what \in {"Buy", "Sell"} /\ Trades(Tail(q))
  <1>1. PICK S : q \in Seq(S) /\ \A o \in S : o.what \in {"Buy", "Sell"}
    BY DEF Trades
  <1>2. Head(q) \in S /\ Tail(q) \in Seq(S)
    BY <1>1
  <1> QED  BY <1>1, <1>2 DEF Trades

\* The domain of a list is finite, and so is what is picked of it.
LEMMA ListedFinite ==
    ASSUME NEW q, Listed(q), NEW these \in SUBSET DOMAIN q
    PROVE  IsFiniteSet(these) /\ Cardinality(these) \in Nat
  <1>1. PICK S : q \in Seq(S)
    BY DEF Listed
  <1>2. Len(q) \in Nat /\ DOMAIN q = 1..Len(q)
    BY <1>1
  <1>3. IsFiniteSet(1..Len(q))
    BY <1>2, FS_Interval
  <1> QED  BY <1>2, <1>3, FS_Subset, FS_CardinalityType

LEMMA SellsTrade ==
    ASSUME Aged(st), NEW these \in SUBSET DOMAIN st.lots, NEW gain \in BOOLEAN
    PROVE  Trades(Sells(these, gain))
  <1> DEFINE n == Cardinality(these)
             sell(i) == LET lot == Highest(these, i) IN
                        [what |-> "Sell", lot |-> lot,
                         least |-> IF gain THEN st.lots[lot].usd + 1 ELSE 0]
             S == {sell(i) : i \in 1..n}
  <1>1. n \in Nat
    BY ListedFinite DEF Aged
  <1>2. \A i \in 1..n : sell(i).what = "Sell"
    OBVIOUS
  <1>3. Sells(these, gain) = [i \in 1..n |-> sell(i)]
    BY DEF Sells
  <1> HIDE DEF n, sell
  <1>4. [i \in 1..n |-> sell(i)] \in [1..n -> S]
    OBVIOUS
  <1>5. \A o \in S : o.what \in {"Buy", "Sell"}
    BY <1>2
  <1> HIDE DEF S
  <1>6. \A f \in [1..n -> S] : f \in Seq(S)
    BY <1>1
  <1>7. Sells(these, gain) \in Seq(S)
    BY <1>3, <1>4, <1>6
  <1> QED  BY <1>5, <1>7, TradesIn

LEMMA OrdersTrade ==
    ASSUME Aged(st), NEW q \in Orders
    PROVE  Trades(q)
  <1>1. CASE \E these \in SUBSET DOMAIN st.lots : q = Sells(these, FALSE)
    BY <1>1, SellsTrade
  <1>2. CASE q = <<[what |-> "Buy", lot |-> 0, least |-> 0]>>
    BY <1>2, OneTrade
  <1> QED
    BY <1>1, <1>2 DEF Orders

\* A list with one more, or with one less.
LEMMA ListedMore ==
    ASSUME NEW q, Listed(q), NEW x
    PROVE  Listed(Append(q, x))
  <1>1. PICK S : q \in Seq(S)
    BY DEF Listed
  <1>2. Append(q, x) \in Seq(S \cup {x})
    BY <1>1
  <1> QED  BY <1>2 DEF Listed

LEMMA ListedLess ==
    ASSUME NEW q, Listed(q), NEW i \in DOMAIN q
    PROVE  Listed(Without(q, i))
  <1>1. PICK S : q \in Seq(S)
    BY DEF Listed
  <1>2. i \in 1..Len(q) /\ Len(q) \in Nat
    BY <1>1
  <1>3. SubSeq(q, 1, i - 1) \in Seq(S) /\ SubSeq(q, i + 1, Len(q)) \in Seq(S)
    BY <1>1, <1>2
  <1>4. Without(q, i) \in Seq(S)
    BY <1>3 DEF Without
  <1> QED  BY <1>4 DEF Listed

\* Clearing a swap, or booking it, leaves a state aged.
LEMMA ClearedAged ==
    ASSUME NEW s, Aged(s)
    PROVE  Aged(Cleared(s)) /\ ~Open(Cleared(s))
  BY TraderAssumption DEF Aged, Cleared, Open, NoPending

LEMMA BookedAged ==
    ASSUME NEW s, Aged(s), Open(s), Shows(s)
    PROVE  Aged(Booked(s)) /\ Booked(s).pending = s.pending
  <1>1. CASE s.pending.what \in {"Fund", "Raise"}
    BY <1>1 DEF Aged, Booked
  <1>2. CASE s.pending.what = "Buy"
    BY <1>2, ListedMore DEF Aged, Booked
  <1>3. CASE s.pending.what = "Sell"
    <2>1. Listed(Without(s.lots, s.pending.lot))
      BY <1>3, ListedLess DEF Aged, Shows
    <2> QED
      BY <1>3, <2>1 DEF Aged, Booked
  <1> QED
    BY <1>1, <1>2, <1>3 DEF Aged, Open

LEMMA SealedInit == Init => Shape /\ InTheAir
  <1> USE TraderAssumption
  <1>1. Listed(<<>>)
    BY NoTrades DEF Trades, Listed
  <1> QED
    BY <1>1, NoTrades DEF Init, Shape, Aged, InTheAir, NewState, NoPending, Open, Working

\* Unless it is the one delivered, nothing is in flight while the process runs.
LEMMA NothingElse ==
    ASSUME InTheAir, pc \notin {"deliver", "off"}
    PROVE  flight = {}
  BY DEF InTheAir

\* The swap is written as old as the pass before anything is handed over.
LEMMA SealedAct ==
    ASSUME Shape, InTheAir, pc \notin {"deliver", "off"}, UNCHANGED <<flight, passAge>>,
           NEW what \in {"Fund", "Buy", "Sell", "Raise"}, NEW lot, NEW to, NEW amount, NEW least,
           Act(what, lot, to, amount, least),
           task' \in {"fund", "raise", "take", "taken", "orders", "stop", "close"},
           Trades(todo')
    PROVE  Shape' /\ InTheAir'
  BY NothingElse DEF Act, Shape, Aged, InTheAir, Open, Working, WriteAhead, memory

\* The pass goes on elsewhere, with nothing in flight.
LEMMA SealedElsewhere ==
    ASSUME Shape, InTheAir, pc \notin {"deliver", "off"}, UNCHANGED <<flight, passAge>>,
           pc' \in {"fund", "decide", "next", "back", "end"},
           Aged(st)', Aged(saved)',
           task' \in {"fund", "raise", "take", "taken", "orders", "stop", "close"},
           Trades(todo')
    PROVE  Shape' /\ InTheAir'
  BY NothingElse DEF Shape, InTheAir, Working

LEMMA SameTrades == Shape /\ UNCHANGED todo => Trades(todo')
  BY DEF Shape

LEMMA ReturnedPlace ==
    ASSUME Shape, pc \in Working, NEW ok \in BOOLEAN, Returned(ok)
    PROVE  /\ pc' \in {"decide", "next", "end"}
           /\ task' \in {"fund", "raise", "take", "taken", "orders", "stop", "close"}
  BY DEF Shape, Returned

\* The task rests: memory and database agree and nothing is in flight.
LEMMA SealedRests ==
    ASSUME Shape, InTheAir, pc \notin {"deliver", "off"}, UNCHANGED flight, st' = saved',
           pc' \in {"off", "idle"}, Aged(st)', passAge' \in 0..SettledAfter, Trades(todo')
    PROVE  Shape' /\ InTheAir'
  BY NothingElse DEF Shape, InTheAir, Working

\* Every step keeps what is in the air written down.
LEMMA SealedStep ==
    ASSUME InTime, Shape, InTheAir, [Next]_vars
    PROVE  Shape' /\ InTheAir'
  <1> USE TraderAssumption DEF Working
  <1>1. CASE Pass
    <2>1. CASE NotTried
      BY <1>1, <2>1, ReturnedPlace, SameTrades, SealedElsewhere DEF NotTried, memory, chain, Aged, Shape
    <2>2. CASE NotSent
      <3>1. Aged(st)' /\ saved' = st'
        BY <2>2, ClearedAged DEF NotSent, Shape, Aged
      <3>2. Aged(saved)'
        BY <3>1 DEF Aged
      <3> QED
        BY <2>2, <3>1, <3>2, ReturnedPlace, SameTrades, SealedElsewhere DEF NotSent, chain
    <2>3. CASE HandOver
      <3>1. /\ flight = {} /\ pc' = "deliver" /\ UNCHANGED <<st, saved, passAge, task>>
            /\ \A t \in flight' : "left" \in DOMAIN t /\ t.left = Life
        BY <2>3, NothingElse DEF HandOver, memory
      <3>2. Open(st) /\ st = saved /\ st.pending.age = passAge /\ passAge <= PassTime
        BY <2>3 DEF HandOver, InTheAir
      <3>3. st.pending.age + Life <= SettledAfter
        BY <3>2 DEF InTime, Shape
      <3>4. task \in {"fund", "raise", "take", "taken", "orders", "stop", "close"}
        BY <2>3 DEF HandOver, Shape
      <3>5. Trades(todo')
        BY <2>3, SameTrades DEF HandOver
      <3> QED
        BY <3>1, <3>2, <3>3, <3>4, <3>5 DEF Shape, InTheAir, Aged, Open
    <2>4. CASE DeliverEnds
      BY <2>4 DEF DeliverEnds, chain, memory, Shape, InTheAir, Aged, Open
    <2>5. CASE LookSettles
      <3>1. Aged(st) /\ Open(st)
        BY <2>5 DEF LookSettles, Shape, InTheAir
      <3>2. Aged(st)' /\ saved' = st'
        BY <2>5, <3>1, BookedAged, ClearedAged DEF LookSettles, Aged
      <3>3. Aged(saved)'
        BY <3>2 DEF Aged
      <3> QED
        BY <2>5, <3>2, <3>3, ReturnedPlace, SameTrades, SealedElsewhere DEF LookSettles, chain
    <2>6. CASE LooksEnd
      <3>1. Aged(st)' /\ Aged(saved)'
        BY <2>6 DEF LooksEnd, Shape, Aged
      <3> QED
        BY <2>6, <3>1, ReturnedPlace, SameTrades, SealedElsewhere DEF LooksEnd, chain
    <2>7. CASE Fund
      <3>0. pc = "fund" /\ UNCHANGED <<task, passAge, flight>> /\ Trades(todo')
        BY <2>7, SameTrades DEF Fund, chain
      <3>1. CASE pc' \in {"decide", "end"}
        <4>1. Aged(st)' /\ Aged(saved)'
          BY <2>7, <3>1 DEF Fund, Act, Shape, Aged, memory
        <4> QED
          BY <3>0, <3>1, <4>1, SealedElsewhere DEF Shape
      <3>2. CASE pc' \notin {"decide", "end"}
        <4>1. Act("Fund", 0, 0, st.budget - wallet.usdc, 0)
          BY <2>7, <3>2 DEF Fund
        <4> QED
          BY <3>0, <4>1, SealedAct DEF Shape
      <3> QED
        BY <3>1, <3>2
    <2>8. CASE Decide
      <3>1. /\ pc' \in {"next", "end"} /\ Aged(st)' /\ Aged(saved)' /\ UNCHANGED <<flight, passAge>>
            /\ task' \in {"fund", "raise", "take", "taken", "orders", "stop", "close"}
        BY <2>8 DEF Decide, Shape, Aged, chain
      <3>2. Trades(todo')
        BY <2>8, NoTrades, SellsTrade, OrdersTrade, SameTrades DEF Decide, Shape
      <3> QED
        BY <2>8, <3>1, <3>2, SealedElsewhere DEF Decide
    <2>9. CASE NextOrder
      <3>0. /\ pc = "next" /\ UNCHANGED <<task, passAge, flight>>
            /\ task \in {"fund", "raise", "take", "taken", "orders", "stop", "close"}
            /\ todo # <<>> /\ Trades(todo) /\ Trades(todo')
        BY <2>9, NextTrade DEF NextOrder, chain, Shape
      <3>1. CASE UNCHANGED <<memory, pc, call>>
        BY <3>0, <3>1, SealedElsewhere DEF memory, Shape, Aged
      <3>2. CASE ~UNCHANGED <<memory, pc, call>>
        <4> DEFINE o == Head(todo)
                   amount == IF o.what = "Sell" THEN st.lots[o.lot].sol
                             ELSE Min2(Min2(Part, st.cash), wallet.usdc)
        <4>1. Act(o.what, o.lot, 0, amount, o.least)
          BY <2>9, <3>2 DEF NextOrder
        <4> HIDE DEF o, amount
        <4>2. o.what \in {"Buy", "Sell"}
          BY <3>0, NextTrade DEF o
        <4> QED
          BY <3>0, <4>1, <4>2, SealedAct
      <3> QED
        BY <3>1, <3>2
    <2>10. CASE ListDone
      <3>1. /\ pc' \in {"next", "end"} /\ Aged(st)' /\ Aged(saved)' /\ UNCHANGED <<flight, passAge>>
            /\ task' \in {"fund", "raise", "take", "taken", "orders", "stop", "close"}
        BY <2>10 DEF ListDone, Shape, Aged, memory, chain
      <3>2. Trades(todo')
        BY <2>10, NoTrades, OrdersTrade DEF ListDone, Shape
      <3> QED
        BY <2>10, <3>1, <3>2, SealedElsewhere DEF ListDone
    <2>11. CASE SellAll
      <3>0. /\ pc = "next" /\ UNCHANGED <<task, passAge, flight>>
            /\ task \in {"fund", "raise", "take", "taken", "orders", "stop", "close"}
            /\ Trades(todo')
        BY <2>11, SameTrades DEF SellAll, chain
      <3>1. CASE st.lots = <<>>
        <4>1. Aged(st)' /\ Aged(saved)' /\ pc' = "end"
          BY <2>11, <3>1 DEF SellAll, Shape, Aged
        <4> QED
          BY <3>0, <4>1, SealedElsewhere
      <3>2. CASE st.lots # <<>>
        <4>1. Act("Sell", Len(st.lots), 0, st.lots[Len(st.lots)].sol, 0)
          BY <2>11, <3>2 DEF SellAll
        <4> QED
          BY <3>0, <4>1, SealedAct
      <3> QED
        BY <3>1, <3>2
    <2>12. CASE EndPass
      <3>1. /\ pc' \in {"off", "idle"} /\ saved' = st' /\ Aged(st)' /\ passAge' = 0
            /\ UNCHANGED flight /\ todo' = <<>>
        BY <2>12 DEF EndPass, Idle, chain, Shape, Aged
      <3> QED
        BY <2>12, <3>1, NoTrades, SealedRests DEF EndPass
    <2> QED
      BY <1>1, <2>1, <2>2, <2>3, <2>4, <2>5, <2>6, <2>7, <2>8, <2>9, <2>10, <2>11, <2>12 DEF Pass
  <1>2. CASE Reconcile
    <2>1. Aged(st)' /\ saved' = st'
      BY <1>2, BookedAged, ClearedAged DEF Reconcile, Shape, Aged
    <2> QED
      BY <1>2, <2>1, SameTrades, SealedRests DEF Reconcile, where, chain, Shape
  <1>3. CASE Begin
    <2>1. pc' \in {"fund", "decide", "next"} /\ task' \in {"close", "fund"}
      BY <1>3 DEF Begin
    <2> QED
      BY <1>3, <2>1, SameTrades, SealedElsewhere DEF Begin, memory, chain, Shape, Aged
  <1>4. CASE Stop
    BY <1>4, NoTrades DEF Stop, chain, Shape, InTheAir, Aged, Open
  <1>5. CASE CloseGivesUp
    <2>1. Aged(st)' /\ saved' = st'
      BY <1>5 DEF CloseGivesUp, Shape, Aged
    <2> QED
      BY <1>5, <2>1, SameTrades, SealedRests DEF CloseGivesUp, chain, Shape
  <1>6. CASE Tick
    <2>1. /\ Aged(st)' /\ Aged(saved)' /\ passAge' \in 0..SettledAfter
          /\ st = saved => st' = saved'
          /\ Open(st') = Open(st) /\ Open(saved') = Open(saved)
      BY <1>6 DEF Tick, OlderState, Older, Min2, Shape, Aged, Open
    <2>2. Open(saved) => saved'.pending.age <= saved.pending.age + 1
      BY <1>6 DEF Tick, OlderState, Older, Min2, Shape, Aged, Open
    <2>3. pc \in {"swap", "deliver", "look"} => st'.pending.age = passAge'
      BY <1>6 DEF Tick, OlderState, Older, Min2, Shape, Aged, Open, InTheAir
    <2>4. \A t \in flight' : \E u \in flight :
            "left" \in DOMAIN t /\ t.left = u.left - 1 /\ t.left \in 1..Life
      BY <1>6 DEF Tick, Shape
    <2>5. flight' # {} => flight # {}
      BY <2>4
    <2>6. \A t \in flight' : t.left + saved'.pending.age <= SettledAfter
      BY <2>1, <2>2, <2>4 DEF Shape, Aged, InTheAir
    <2> QED
      BY <1>6, <2>1, <2>3, <2>4, <2>5, <2>6, SameTrades DEF Tick, Shape, InTheAir, Open
  <1>7. CASE \E r \in {"trade", "close"} : Start(r)
    <2>1. flight = {}
      BY <1>7 DEF Start, LastLook, InTheAir, Shape, Aged
    <2> QED
      BY <1>7, <2>1, NoTrades DEF Start, Idle, chain, Shape, InTheAir, Aged
  <1>8. CASE \E to \in Budgets : Wish(to)
    <2> PICK to \in Budgets : Wish(to)
      BY <1>8
    <2>1. pc = "idle" /\ UNCHANGED <<todo, passAge, flight>> /\ Trades(todo')
      BY SameTrades DEF Wish, chain
    <2>2. CASE st' = saved' /\ pc' = "idle"
      <3>1. Aged(st)'
        BY <2>2 DEF Wish, Lower, Act, Shape, Aged, memory
      <3> QED
        BY <2>1, <2>2, <3>1, SealedRests DEF Shape
    <2>3. CASE ~(st' = saved' /\ pc' = "idle")
      <3>1. Act("Raise", 0, to, (to - st.budget) - Max2(wallet.usdc - st.cash, 0), 0) /\ task' = "raise"
        BY <2>1, <2>3 DEF Wish
      <3> QED
        BY <2>1, <3>1, SealedAct
    <2> QED
      BY <2>2, <2>3
  <1>9. CASE \E t \in flight : Land(t) \/ Fail(t)
    BY <1>9, SameTrades DEF Land, Fail, memory, where, Shape, InTheAir, Aged, Open
  <1>10. CASE UNCHANGED vars
    BY <1>10, SameTrades DEF vars, memory, where, chain, Shape, InTheAir, Aged, Open
  <1> QED
    BY <1>1, <1>2, <1>3, <1>4, <1>5, <1>6, <1>7, <1>8, <1>9, <1>10 DEF Next

\* Whenever every pass hands its last swap over early enough, a transaction that
\* may still land is written down as open: on_bar and the start of the program
\* wait for it, for a rule in one part and for a grid alike.
THEOREM HandOverIsWritten ==
    ASSUME InTime PROVE Spec => []OpenSwapIsWritten
  <1>1. Shape /\ InTheAir /\ [Next]_vars => (Shape /\ InTheAir)'
    BY SealedStep
  <1>2. Shape /\ InTheAir => OpenSwapIsWritten
    BY DEF InTheAir, OpenSwapIsWritten
  <1> QED
    BY SealedInit, <1>1, <1>2, PTL DEF Spec

----------------------------------------------------------------------------
(* The account of a rule in one part *)

LEMMA SumOfNone ==
    ASSUME NEW q, DOMAIN q = {}
    PROVE  SumFunction(q) = 0
  <1> DEFINE Eq(f) == f = [s \in SUBSET {} |->
                             IF s = {} THEN 0
                             ELSE q[CHOOSE y \in s : TRUE] + f[s \ {CHOOSE y \in s : TRUE}]]
             it == [s \in SUBSET {} |-> 0]
  <1>1. Eq(it)
    OBVIOUS
  <1>2. SumFunction(q) = (CHOOSE f : Eq(f))[{}]
    BY DEF SumFunction, SumFunctionOnSet, FoldFunctionOnSet, MapThenFoldSet
  <1> HIDE DEF it, Eq
  <1>3. Eq(CHOOSE f : Eq(f))
    BY <1>1
  <1> DEFINE g == CHOOSE f : Eq(f)
  <1> HIDE DEF g
  <1>4. Eq(g) /\ SumFunction(q) = g[{}]
    BY <1>2, <1>3 DEF g
  <1> QED
    BY <1>4 DEF Eq

\* The fold's function of a single amount.
LEMMA SumOfOne ==
    ASSUME NEW q, DOMAIN q = {1}, q[1] \in Int
    PROVE  SumFunction(q) = q[1]
  <1> DEFINE Eq(f) == f = [s \in SUBSET {1} |->
                             IF s = {} THEN 0
                             ELSE q[CHOOSE y \in s : TRUE] + f[s \ {CHOOSE y \in s : TRUE}]]
             it == [s \in SUBSET {1} |-> IF s = {} THEN 0 ELSE q[1]]
  <1>1. \A s \in SUBSET {1} : s = {} \/ s = {1}
    OBVIOUS
  <1>2. {1} \in SUBSET {1} /\ {} \in SUBSET {1} /\ {1} # {} /\ {1} \ {1} = {}
    OBVIOUS
  <1>3. (CHOOSE y \in {1} : TRUE) = 1
    OBVIOUS
  <1>4. it[{}] = 0 /\ it[{1}] = q[1]
    BY <1>2
  <1>5. ASSUME NEW s \in SUBSET {1}
        PROVE  it[s] = IF s = {} THEN 0
                       ELSE q[CHOOSE y \in s : TRUE] + it[s \ {CHOOSE y \in s : TRUE}]
    <2> HIDE DEF it
    <2>1. CASE s = {}
      BY <2>1, <1>4
    <2>2. CASE s = {1}
      <3>1. (CHOOSE y \in s : TRUE) = 1 /\ s \ {1} = {} /\ s # {}
        BY <2>2, <1>3
      <3>2. it[s] = q[1] + it[{}]
        BY <2>2, <1>4
      <3> QED
        BY <3>1, <3>2
    <2> QED
      BY <1>1, <2>1, <2>2
  <1>6. Eq(it)
    BY <1>5
  <1>7. SumFunction(q) = (CHOOSE f : Eq(f))[{1}]
    BY DEF SumFunction, SumFunctionOnSet, FoldFunctionOnSet, MapThenFoldSet
  <1> HIDE DEF it, Eq
  <1>8. Eq(CHOOSE f : Eq(f))
    BY <1>6
  <1> DEFINE g == CHOOSE f : Eq(f)
  <1> HIDE DEF g
  <1>9. Eq(g) /\ SumFunction(q) = g[{1}]
    BY <1>7, <1>8 DEF g
  <1>10. g[{}] = 0 /\ g[{1}] = q[1] + g[{}]
    BY <1>9, <1>1, <1>2, <1>3 DEF Eq
  <1> QED
    BY <1>9, <1>10

\* A list of one lot at most.
LEMMA OneLot ==
    ASSUME NEW s \in States, Len(s.lots) <= 1
    PROVE  /\ s.lots = <<>> \/ (s.lots # <<>> /\ s.lots[1] \in Lots /\ s.lots = <<s.lots[1]>>)
           /\ s.lots = <<>> => DOMAIN s.lots = {} /\ Len(s.lots) = 0
           /\ s.lots # <<>> => DOMAIN s.lots = {1} /\ Len(s.lots) = 1
           /\ LotSol(s) \in Nat /\ LotUsd(s) \in Nat
  <1>1. s.lots \in Seq(Lots) /\ Len(s.lots) \in Nat
    BY DEF States
  <1>2. CASE Len(s.lots) = 0
    <2>1. s.lots = <<>> /\ DOMAIN s.lots = {}
      BY <1>1, <1>2
    <2> QED
      BY <2>1, <1>2 DEF LotSol, LotUsd
  <1>3. CASE Len(s.lots) = 1
    <2>1. s.lots # <<>> /\ DOMAIN s.lots = {1} /\ s.lots[1] \in Lots /\ s.lots = <<s.lots[1]>>
      BY <1>1, <1>3
    <2> QED
      BY <2>1, <1>3 DEF LotSol, LotUsd, Lots
  <1>4. \A n \in Nat : n <= 1 => n = 0 \/ n = 1
    OBVIOUS
  <1>5. Len(s.lots) = 0 \/ Len(s.lots) = 1
    BY <1>1, <1>4, Zenon
  <1> QED
    BY <1>2, <1>3, <1>5

LEMMA SumsOfOne ==
    ASSUME NEW s \in States, Len(s.lots) <= 1
    PROVE  Sol(s) = LotSol(s) /\ Paid(s) = LotUsd(s)
  <1> DEFINE sols == [i \in DOMAIN s.lots |-> s.lots[i].sol]
             usds == [i \in DOMAIN s.lots |-> s.lots[i].usd]
  <1>1. CASE s.lots = <<>>
    <2>1. DOMAIN sols = {} /\ DOMAIN usds = {}
      BY <1>1, OneLot
    <2> HIDE DEF sols, usds
    <2>2. SumFunction(sols) = 0 /\ SumFunction(usds) = 0
      BY <2>1, SumOfNone
    <2> QED
      BY <2>2, <1>1 DEF Sol, Paid, LotSol, LotUsd, sols, usds
  <1>2. CASE s.lots # <<>>
    <2>1. /\ DOMAIN sols = {1} /\ DOMAIN usds = {1}
          /\ sols[1] = LotSol(s) /\ usds[1] = LotUsd(s) /\ LotSol(s) \in Int /\ LotUsd(s) \in Int
      BY <1>2, OneLot DEF LotSol, LotUsd
    <2> HIDE DEF sols, usds
    <2>2. SumFunction(sols) = LotSol(s) /\ SumFunction(usds) = LotUsd(s)
      BY <2>1, SumOfOne
    <2> QED
      BY <2>2 DEF Sol, Paid, sols, usds
  <1> QED
    BY <1>1, <1>2

\* The fields of a state and of a swap.
LEMMA StateFields ==
    ASSUME NEW s \in States
    PROVE  /\ s.cash \in Nat /\ s.net \in Int /\ s.budget \in Nat \ {0} /\ s.lots \in Seq(Lots)
           /\ s.funded \in BOOLEAN /\ s.ended \in BOOLEAN /\ s.frozen \in BOOLEAN
           /\ s.pending \in Pendings
  BY DEF States

LEMMA PendingFields ==
    ASSUME NEW p \in Pendings
    PROVE  /\ p.what \in {"none", "Fund", "Buy", "Sell", "Raise"} /\ p.lot \in Nat /\ p.to \in Nat
           /\ p.sol \in Int /\ p.usdc \in Int /\ p.age \in 0..SettledAfter
  BY DEF Pendings

\* An account with other numbers in it, and its swap cleared.
Rewritten(s, c, q, e, b, f) ==
    [s EXCEPT !.cash = c, !.lots = q, !.net = e, !.budget = b, !.funded = f, !.pending = NoPending]

\* A swap in the wallet shows, and one that is not does not.
LEMMA ShowsLanded ==
    ASSUME NEW s \in States, Len(s.lots) <= 1, Open(s), wallet \in [sol : Int, usdc : Int],
           s.pending.what = "Sell" => s.lots # <<>> /\ s.pending.lot = 1
    PROVE  /\ Unmoved(s, wallet) => ~Shows(s)
           /\ Landed(s, wallet) => Shows(s)
  <1>1. s.pending.what \in {"Fund", "Buy", "Sell", "Raise"}
    BY StateFields, PendingFields DEF Open
  <1>2. s.pending.what = "Sell" => s.pending.lot \in DOMAIN s.lots
    BY OneLot
  <1>3. s.pending.sol \in Int /\ s.pending.usdc \in Int
    BY StateFields, PendingFields
  <1>4. wallet.sol \in Int /\ wallet.usdc \in Int
    OBVIOUS
  <1>5. ASSUME Unmoved(s, wallet) PROVE ~Shows(s)
    <2>0. ~(wallet.usdc > s.pending.usdc) /\ ~(wallet.usdc < s.pending.usdc)
      BY <1>3, <1>5 DEF Unmoved
    <2>1. CASE s.pending.what \in {"Fund", "Raise"}
      BY <2>0, <2>1 DEF Shows
    <2>2. CASE s.pending.what = "Buy"
      BY <2>0, <2>2 DEF Shows
    <2>3. CASE s.pending.what = "Sell"
      BY <2>0, <2>3 DEF Shows
    <2> QED
      BY <1>1, <2>1, <2>2, <2>3
  <1>6. Landed(s, wallet) => Shows(s)
    <2>1. CASE s.pending.what \in {"Fund", "Raise"}
      BY <2>1 DEF Shows, Landed
    <2>2. CASE s.pending.what = "Buy"
      BY <2>2 DEF Shows, Landed
    <2>3. CASE s.pending.what = "Sell"
      BY <2>3, <1>2 DEF Shows, Landed
    <2> QED
      BY <1>1, <2>1, <2>2, <2>3
  <1> QED
    BY <1>5, <1>6

\* Booking a swap that the wallet shows: the account is the one before with what
\* the wallet gained and lost in it.
BooksTo(s, n) ==
    /\ n \in States /\ Counts(n) /\ ~Open(n) /\ n.pending = NoPending
    /\ n.ended = s.ended /\ n.frozen = s.frozen /\ (s.funded => n.funded)
    /\ LotSol(n) = LotSol(s) + (IF s.pending.what \in {"Buy", "Sell"}
                                THEN wallet.sol - s.pending.sol ELSE 0)
    /\ n.net - LotUsd(n) = s.net - LotUsd(s) + (IF s.pending.what \in {"Buy", "Sell"}
                                                THEN wallet.usdc - s.pending.usdc ELSE 0)

\* A state whose open swap is in the wallet.
Settling(s) ==
    /\ s \in States /\ Counts(s) /\ Open(s) /\ Landed(s, wallet)
    /\ wallet \in [sol : Int, usdc : Int] /\ wallet.usdc >= 0 /\ s.cash <= s.pending.usdc
    /\ s.pending.what = "Fund" => ~s.funded
    /\ s.pending.what = "Buy" => s.funded /\ s.lots = <<>>
    /\ s.pending.what = "Sell" => s.lots # <<>> /\ s.pending.lot = 1
    /\ s.pending.what = "Raise" => s.funded

LEMMA BookedFits ==
    ASSUME NEW s, Settling(s)
    PROVE  BooksTo(s, Cleared(Booked(s)))
  <1> DEFINE p == s.pending
             n == Cleared(Booked(s))
  <1>a. s.cash \in Nat /\ s.net \in Int /\ s.budget \in Nat /\ s.budget # 0
    BY StateFields DEF Settling
  <1>b. p.sol \in Int /\ p.usdc \in Int /\ p.to \in Nat
    BY StateFields, PendingFields DEF Settling
  <1>c. wallet.sol \in Int /\ wallet.usdc \in Nat
    BY DEF Settling
  <1>d. s.cash + LotUsd(s) <= s.budget + s.net
    BY DEF Counts, Settling
  <1>f. s \in States /\ s.lots \in Seq(Lots) /\ s.funded \in BOOLEAN
    BY StateFields DEF Settling
  <1>n. NoPending \in Pendings
    BY TraderAssumption DEF NoPending, Pendings
  <1>g. Len(s.lots) <= 1 /\ ~s.ended
    BY DEF Counts, Settling
  <1>e. LotSol(s) \in Nat /\ LotUsd(s) \in Nat
    BY <1>f, <1>g, OneLot
  <1> HIDE DEF p, n
  <1>1. CASE p.what = "Fund"
    <2> DEFINE c == Min2(s.budget, wallet.usdc)
    <2>1. c \in Nat /\ c <= s.budget /\ c <= wallet.usdc
      BY <1>a, <1>c DEF Min2
    <2>2. s.lots = <<>> /\ s.net = 0
      BY <1>1 DEF Counts, Settling, p
    <2>3. n = Rewritten(s, c, s.lots, s.net, s.budget, TRUE)
      BY <1>1 DEF Booked, Cleared, States, Rewritten, Settling, n, p
    <2> HIDE DEF c
    <2>4. /\ n \in States /\ n.pending = NoPending /\ ~Open(n)
          /\ n.cash = c /\ n.lots = s.lots /\ n.net = s.net /\ n.budget = s.budget /\ n.funded
          /\ n.ended = s.ended /\ n.frozen = s.frozen
      <3>1. n \in States
        BY <2>1, <2>3, <1>a, <1>f, <1>n DEF States, Rewritten
      <3>2. /\ n.pending = NoPending /\ n.ended = s.ended /\ n.frozen = s.frozen
            /\ n.net = s.net /\ n.cash = c /\ n.lots = s.lots /\ n.budget = s.budget /\ n.funded
        BY <2>1, <2>3, <1>a, <1>f, <1>n DEF States, Rewritten
      <3> QED
        BY <3>1, <3>2 DEF Open, NoPending
    <2>5. LotUsd(n) = 0 /\ LotSol(n) = 0 /\ LotUsd(s) = 0 /\ LotSol(s) = 0
      BY <2>2, <2>4 DEF LotUsd, LotSol
    <2>6. Counts(n)
      BY <2>1, <2>2, <2>4, <2>5, <1>a, <1>c, <1>d, <1>g DEF Counts
    <2> QED
      BY <1>1, <2>2, <2>4, <2>5, <2>6, <1>a DEF BooksTo, n, p
  <1>2. CASE p.what = "Raise"
    <2> DEFINE more == Added(s, p.to)
               c == s.cash + more
               b == s.budget + more
    <2>0. wallet.usdc > p.usdc /\ s.cash <= p.usdc
      BY <1>2 DEF Landed, Settling, p
    <2>1. more \in Nat /\ c \in Nat /\ b \in Nat /\ b # 0 /\ c <= wallet.usdc
      BY <2>0, <1>a, <1>b, <1>c DEF Added, Min2, Max2
    <2>2. n = Rewritten(s, c, s.lots, s.net, b, s.funded)
      BY <1>2 DEF Booked, Cleared, States, Rewritten, Settling, n, p
    <2>3. c + LotUsd(s) <= b + s.net
      BY <2>1, <1>a, <1>d, <1>e
    <2> HIDE DEF c, b, more
    <2>4. /\ n \in States /\ n.pending = NoPending /\ ~Open(n)
          /\ n.cash = c /\ n.lots = s.lots /\ n.net = s.net /\ n.budget = b /\ n.funded = s.funded
          /\ n.ended = s.ended /\ n.frozen = s.frozen
      <3>1. n \in States
        BY <2>1, <2>2, <1>a, <1>f, <1>n DEF States, Rewritten
      <3>2. /\ n.pending = NoPending /\ n.ended = s.ended /\ n.frozen = s.frozen
            /\ n.net = s.net /\ n.cash = c /\ n.lots = s.lots /\ n.budget = b /\ n.funded = s.funded
        BY <2>1, <2>2, <1>a, <1>f, <1>n DEF States, Rewritten
      <3> QED
        BY <3>1, <3>2 DEF Open, NoPending
    <2>5. LotUsd(n) = LotUsd(s) /\ LotSol(n) = LotSol(s)
      BY <2>4 DEF LotUsd, LotSol
    <2>6. Counts(n)
      BY <1>2, <2>1, <2>3, <2>4, <2>5, <1>d, <1>g DEF Counts, Settling, p
    <2> QED
      BY <1>2, <2>4, <2>5, <2>6, <1>a, <1>e DEF BooksTo, n, p
  <1>3. CASE p.what = "Buy"
    <2> DEFINE lot == [sol |-> wallet.sol - p.sol, usd |-> -(wallet.usdc - p.usdc)]
               q == Append(s.lots, lot)
               c == Max2(s.cash + (wallet.usdc - p.usdc), 0)
    <2>0. /\ wallet.usdc < p.usdc /\ wallet.sol > p.sol /\ p.usdc - s.cash <= wallet.usdc
          /\ s.lots = <<>> /\ s.funded
      BY <1>3 DEF Landed, Settling, p
    <2>1. c \in Nat /\ c = s.cash + wallet.usdc - p.usdc /\ c <= wallet.usdc
      <3>1. s.cash <= p.usdc
        BY DEF Settling, p
      <3>2. s.cash + (wallet.usdc - p.usdc) <= wallet.usdc
            /\ s.cash + (wallet.usdc - p.usdc) = s.cash + wallet.usdc - p.usdc
            /\ s.cash + (wallet.usdc - p.usdc) >= 0 /\ s.cash + (wallet.usdc - p.usdc) \in Int
        BY <3>1, <2>0, <1>a, <1>b, <1>c
      <3>3. c = s.cash + (wallet.usdc - p.usdc)
        BY <3>2 DEF Max2
      <3> QED
        BY <3>2, <3>3
    <2>2. lot \in Lots
      BY <2>0, <1>b, <1>c DEF Lots
    <2>3. q = <<lot>>
      BY <2>0
    <2>4. q \in Seq(Lots) /\ Len(q) = 1 /\ q # <<>> /\ q[1] = lot
      <3> HIDE DEF lot, q
      <3> QED
        BY <2>2, <2>3
    <2>5. n = Rewritten(s, c, q, s.net, s.budget, s.funded)
      BY <1>3 DEF Booked, Cleared, States, Rewritten, Settling, n, p
    <2> HIDE DEF c, q
    <2>6. /\ n \in States /\ n.pending = NoPending /\ ~Open(n)
          /\ n.cash = c /\ n.lots = q /\ n.net = s.net /\ n.budget = s.budget /\ n.funded = s.funded
          /\ n.ended = s.ended /\ n.frozen = s.frozen
      <3>1. n \in States
        BY <2>1, <2>4, <2>5, <1>a, <1>f, <1>n DEF States, Rewritten
      <3>2. /\ n.pending = NoPending /\ n.ended = s.ended /\ n.frozen = s.frozen
            /\ n.net = s.net /\ n.cash = c /\ n.lots = q /\ n.budget = s.budget /\ n.funded = s.funded
        BY <2>1, <2>4, <2>5, <1>a, <1>f, <1>n DEF States, Rewritten
      <3> QED
        BY <3>1, <3>2 DEF Open, NoPending
    <2>7. /\ LotUsd(n) = p.usdc - wallet.usdc /\ LotSol(n) = wallet.sol - p.sol
          /\ LotUsd(s) = 0 /\ LotSol(s) = 0
      BY <2>0, <2>4, <2>6, <1>b, <1>c DEF LotUsd, LotSol
    <2>8. n.cash + LotUsd(n) <= n.budget + n.net /\ n.cash <= wallet.usdc
      BY <2>1, <2>6, <2>7, <1>a, <1>b, <1>c, <1>d
    <2>9. Counts(n)
      <3>0. Len(q) = 1 /\ n.lots = q
        BY <2>4, <2>6
      <3>1. Len(n.lots) <= 1
        <4>1. Len(n.lots) = 1 /\ 1 <= 1
          BY <3>0
        <4> QED
          BY <4>1, Zenon
      <3>2. n.funded /\ ~n.ended
        BY <2>0, <2>6, <1>g
      <3> QED
        BY <3>1, <3>2, <2>8 DEF Counts
    <2>10. /\ LotSol(n) = LotSol(s) + (wallet.sol - p.sol)
           /\ n.net - LotUsd(n) = s.net - LotUsd(s) + (wallet.usdc - p.usdc)
      BY <2>6, <2>7, <1>a, <1>b, <1>c
    <2> QED
      BY <1>3, <2>0, <2>6, <2>9, <2>10 DEF BooksTo, n, p
  <1>4. CASE p.what = "Sell"
    <2> DEFINE c == s.cash + (wallet.usdc - p.usdc)
               e == s.net + (wallet.usdc - p.usdc) - LotUsd(s)
    <2>0. wallet.usdc > p.usdc /\ wallet.sol = p.sol - LotSol(s) /\ s.lots # <<>> /\ p.lot = 1
          /\ s.cash <= p.usdc
      BY <1>4 DEF Landed, Settling, p
    <2>1. Without(s.lots, 1) = <<>>
      <3>1. s.lots \in Seq(Lots) /\ Len(s.lots) = 1
        BY <2>0, <1>f, <1>g, OneLot
      <3>2. SubSeq(s.lots, 1, 1 - 1) = <<>> /\ SubSeq(s.lots, 1 + 1, Len(s.lots)) = <<>>
        BY <3>1
      <3> QED
        BY <3>2 DEF Without
    <2>2. s.lots[1].usd = LotUsd(s)
      BY <2>0 DEF LotUsd
    <2>g. wallet.usdc > p.usdc /\ s.cash <= p.usdc
      BY <2>0
    <2>3. c \in Nat /\ e \in Int /\ c <= wallet.usdc /\ c + 0 <= s.budget + e
      BY <2>g, <1>a, <1>b, <1>c, <1>d, <1>e
    <2>4. n = Rewritten(s, c, <<>>, e, s.budget, s.funded)
      <3>1. Booked(s) = [s EXCEPT !.cash = c, !.lots = <<>>, !.net = e]
        BY <1>4, <2>0, <2>1, <2>2 DEF Booked, p
      <3> QED
        BY <3>1 DEF Cleared, States, Rewritten, Settling, n
    <2>f. s.funded
      BY <2>0 DEF Counts, Settling
    <2>5. <<>> \in Seq(Lots) /\ Len(<<>>) = 0
      OBVIOUS
    <2> HIDE DEF c, e
    <2>6. /\ n \in States /\ n.pending = NoPending /\ ~Open(n)
          /\ n.cash = c /\ n.lots = <<>> /\ n.net = e /\ n.budget = s.budget /\ n.funded = s.funded
          /\ n.ended = s.ended /\ n.frozen = s.frozen
      <3>1. n \in States
        BY <2>3, <2>4, <2>5, <1>a, <1>f, <1>n DEF States, Rewritten
      <3>2. /\ n.pending = NoPending /\ n.ended = s.ended /\ n.frozen = s.frozen
            /\ n.net = e /\ n.cash = c /\ n.lots = <<>> /\ n.budget = s.budget /\ n.funded = s.funded
        BY <2>3, <2>4, <2>5, <1>a, <1>f, <1>n DEF States, Rewritten
      <3> QED
        BY <3>1, <3>2 DEF Open, NoPending
    <2>7. LotUsd(n) = 0 /\ LotSol(n) = 0
      BY <2>6 DEF LotUsd, LotSol
    <2>8. Counts(n)
      BY <2>3, <2>5, <2>6, <2>7, <2>f, <1>g DEF Counts
    <2> QED
      <3>1. wallet.sol = p.sol - LotSol(s)
        BY <2>0
      <3>2. /\ LotSol(n) = LotSol(s) + (wallet.sol - p.sol)
            /\ n.net - LotUsd(n) = s.net - LotUsd(s) + (wallet.usdc - p.usdc)
        <4>1. n.net = s.net + (wallet.usdc - p.usdc) - LotUsd(s)
          BY <2>6 DEF e
        <4> QED
          BY <3>1, <4>1, <2>7, <1>a, <1>b, <1>c, <1>e
      <3> QED
        BY <1>4, <2>f, <2>6, <2>8, <3>2 DEF BooksTo, n, p
  <1> QED
    <2>1. p.what \in {"Fund", "Buy", "Sell", "Raise"}
      BY StateFields, PendingFields DEF Open, Settling, p
    <2> QED
      BY <2>1, <1>1, <1>2, <1>3, <1>4 DEF n

----------------------------------------------------------------------------
(* What the steps do to the money *)

LEMMA MoneySame ==
    Money /\ UNCHANGED <<st, saved, wallet, traded, flight>> => Money'
  BY DEF Money, SwapFits, Counts, Books, Moved, OneInFlight, Open, Unmoved, Landed, LotSol, LotUsd, After

\* The numbers of the typed state.
LEMMA Numbers ==
    ASSUME TypeOK
    PROVE  /\ wallet.sol \in Int /\ wallet.usdc \in Int /\ traded.sol \in Int /\ traded.usdc \in Int
           /\ st.cash \in Nat /\ st.net \in Int /\ st.budget \in Nat
           /\ st.pending.sol \in Int /\ st.pending.usdc \in Int
           /\ passAge \in Nat /\ call.amount \in Nat
  <1>1. st \in States /\ wallet \in [sol : Int, usdc : Int] /\ traded \in [sol : Int, usdc : Int]
        /\ passAge \in 0..SettledAfter /\ call \in [amount : Nat, least : Int]
    BY DEF TypeOK
  <1> QED
    BY <1>1, StateFields, PendingFields, TraderAssumption

LEMMA LotNumbers ==
    ASSUME TypeOK, Money
    PROVE  LotSol(st) \in Nat /\ LotUsd(st) \in Nat /\ (st.lots # <<>> => LotSol(st) > 0)
  <1>1. st \in States /\ Len(st.lots) <= 1
    BY DEF TypeOK, Money, Counts
  <1> QED
    BY <1>1, OneLot DEF LotSol, Lots

\* The swap is taken off the books, and the wallet is the one before it.
LEMMA ClearedMoney ==
    ASSUME TypeOK, Money, Open(st), Unmoved(st, wallet), flight = {},
           st' = Cleared(st), saved' = st', UNCHANGED chain
    PROVE  /\ Money' /\ st' \in States /\ saved' \in States /\ ~Open(st')
           /\ st'.funded = st.funded /\ ~st'.ended /\ st'.lots = st.lots
  <1> DEFINE s == Cleared(st)
  <1>1. st \in States /\ NoPending \in Pendings
    BY TraderAssumption DEF TypeOK, NoPending, Pendings
  <1>2. /\ s \in States /\ s.cash = st.cash /\ s.lots = st.lots /\ s.net = st.net
        /\ s.budget = st.budget /\ s.funded = st.funded /\ s.ended = st.ended /\ s.pending = NoPending
    BY <1>1 DEF Cleared, States
  <1>3. ~Open(s) /\ s.pending.what = "none"
    BY <1>2 DEF Open, NoPending
  <1>4. LotSol(s) = LotSol(st) /\ LotUsd(s) = LotUsd(st)
    BY <1>2 DEF LotSol, LotUsd
  <1>5. st.cash <= wallet.usdc
    BY DEF Money, SwapFits, Unmoved
  <1> HIDE DEF s
  <1>6. st' = s /\ saved' = s /\ UNCHANGED <<wallet, flight, traded>>
    BY DEF s, chain
  <1>7. Counts(s)
    BY <1>2, <1>3, <1>4, <1>5 DEF Money, Counts
  <1>8. Counts(st)' /\ Counts(saved)'
    BY <1>6, <1>7 DEF Counts, Open, LotUsd
  <1>9. SwapFits' /\ OneInFlight'
    BY <1>3, <1>6 DEF SwapFits, OneInFlight, Open
  <1>10. traded.sol = LotSol(st) /\ traded.usdc = st.net - LotUsd(st) /\ wallet.usdc >= 0
    BY Numbers, LotNumbers DEF Money, Books, Unmoved
  <1>11. Books'
    <2>1. ~Moved'
      BY <1>3, <1>6 DEF Moved
    <2>2. traded.sol = LotSol(s) /\ traded.usdc = s.net - LotUsd(s) /\ wallet.usdc >= 0
      BY <1>2, <1>4, <1>10
    <2>3. LotSol(st)' = LotSol(s) /\ LotUsd(st)' = LotUsd(s)
      BY <1>6 DEF LotSol, LotUsd
    <2>4. LotSol(s) \in Int /\ s.net - LotUsd(s) \in Int
      BY <1>2, <1>4, LotNumbers, Numbers
    <2> QED
      BY <2>1, <2>2, <2>3, <2>4, <1>6 DEF Books
  <1>12. ~st.ended
    BY DEF Money, Counts
  <1> QED
    BY <1>2, <1>3, <1>6, <1>8, <1>9, <1>11, <1>12 DEF Money

\* The swap is in the wallet, and goes into the account.
LEMMA BookedMoney ==
    ASSUME TypeOK, Money, Open(st), Shows(st), flight = {},
           st' = Cleared(Booked(st)), saved' = st', UNCHANGED chain
    PROVE  /\ Money' /\ st' \in States /\ saved' \in States /\ ~Open(st')
           /\ (st.funded => st'.funded) /\ ~st'.ended
  <1> DEFINE s == Cleared(Booked(st))
  <1>1. Settling(st)
    <2>1. st \in States /\ wallet \in [sol : Int, usdc : Int]
      BY DEF TypeOK
    <2>2. Counts(st) /\ SwapFits /\ Books
      BY DEF Money
    <2>3. Len(st.lots) <= 1 /\ (st.pending.what = "Sell" => st.lots # <<>> /\ st.pending.lot = 1)
      BY <2>2 DEF Counts, SwapFits
    <2>4. ~Unmoved(st, wallet)
      BY <2>1, <2>3, ShowsLanded
    <2> QED
      BY <2>1, <2>2, <2>4 DEF Settling, SwapFits, Books
  <1>2. BooksTo(st, s)
    BY <1>1, BookedFits
  <1> HIDE DEF s
  <1>3. st' = s /\ saved' = s /\ UNCHANGED <<wallet, flight, traded>>
    BY DEF s, chain
  <1>4. /\ s \in States /\ Counts(s) /\ ~Open(s) /\ s.pending.what = "none"
        /\ s.ended = st.ended /\ (st.funded => s.funded)
    BY <1>2 DEF BooksTo, NoPending
  <1>5. Counts(st)' /\ Counts(saved)'
    BY <1>3, <1>4 DEF Counts, Open, LotUsd
  <1>6. SwapFits' /\ OneInFlight'
    BY <1>3, <1>4 DEF SwapFits, OneInFlight, Open
  <1>7. Books'
    <2>1. ~Moved'
      BY <1>3, <1>4 DEF Moved
    <2>2. LotSol(s) = traded.sol /\ s.net - LotUsd(s) = traded.usdc /\ wallet.usdc >= 0
      BY <1>2 DEF BooksTo, Money, Books, Moved
    <2>3. LotSol(st)' = LotSol(s) /\ LotUsd(st)' = LotUsd(s)
      BY <1>3 DEF LotSol, LotUsd
    <2> QED
      BY <2>1, <2>2, <2>3, <1>3, Numbers DEF Books
  <1>8. ~st.ended
    BY DEF Money, Counts
  <1> QED
    BY <1>3, <1>4, <1>5, <1>6, <1>7, <1>8 DEF Money

\* A swap is written down over an account without one.
LEMMA ActMoney ==
    ASSUME TypeOK, Money, ~Open(st), ~st.ended, flight = {}, UNCHANGED chain,
           NEW what \in {"Fund", "Buy", "Sell", "Raise"}, NEW lot, lot \in Nat, NEW to, to \in Nat,
           NEW amount, NEW least, Act(what, lot, to, amount, least),
           what = "Fund" => ~st.funded,
           what = "Buy" => st.funded /\ st.lots = <<>>,
           what = "Sell" => st.lots # <<>> /\ lot = 1,
           what = "Raise" => st.funded
    PROVE  /\ Money' /\ st' \in States /\ saved' \in States
           /\ \/ /\ pc' = "swap" /\ amount > 0 /\ call' = [amount |-> amount, least |-> least]
                 /\ Open(st') /\ saved' = st' /\ Unmoved(st, wallet)'
                 /\ st'.pending.what = what /\ st'.pending.age = passAge
                 /\ st'.cash = st.cash /\ st'.lots = st.lots
                 /\ st'.funded = st.funded /\ st'.ended = st.ended
              \/ pc' = "back" /\ UNCHANGED <<st, saved>> /\ call' = [amount |-> 0, least |-> 0]
  <1>1. CASE UNCHANGED memory /\ pc' = "back" /\ call' = [amount |-> 0, least |-> 0]
    BY <1>1, MoneySame DEF memory, chain, TypeOK
  <1>2. CASE ~(UNCHANGED memory /\ pc' = "back" /\ call' = [amount |-> 0, least |-> 0])
    <2> DEFINE p == [what |-> what, lot |-> lot, to |-> to,
                     sol |-> wallet.sol, usdc |-> wallet.usdc, age |-> passAge]
               s == [st EXCEPT !.pending = p]
    <2>1. /\ pc' = "swap" /\ amount > 0 /\ call' = [amount |-> amount, least |-> least]
          /\ st' = s /\ saved' = s /\ UNCHANGED <<wallet, flight, traded>>
      BY <1>2 DEF Act, WriteAhead, chain
    <2>2. p \in Pendings
      BY Numbers, TraderAssumption DEF Pendings, TypeOK
    <2>3. st \in States
      BY DEF TypeOK
    <2>4. p.what = what /\ p.age = passAge /\ p.lot = lot /\ p.sol = wallet.sol /\ p.usdc = wallet.usdc
      OBVIOUS
    <2> HIDE DEF p
    <2>5. /\ s \in States /\ s.cash = st.cash /\ s.lots = st.lots /\ s.net = st.net
          /\ s.budget = st.budget /\ s.funded = st.funded /\ s.ended = st.ended /\ s.pending = p
      BY <2>2, <2>3 DEF States
    <2>6. Open(s) /\ Unmoved(s, wallet)
      BY <2>4, <2>5 DEF Open, Unmoved
    <2>7. LotSol(s) = LotSol(st) /\ LotUsd(s) = LotUsd(st)
      BY <2>5 DEF LotSol, LotUsd
    <2> HIDE DEF s
    <2>8. Unmoved(st, wallet)' /\ Open(st')
      BY <2>1, <2>6 DEF Unmoved, Open
    <2>9. Counts(st)' /\ Counts(saved)'
      BY <2>1, <2>5, <2>6, <2>7 DEF Money, Counts, LotUsd, Open
    <2>10. SwapFits'
      BY <2>1, <2>4, <2>5, <2>8 DEF SwapFits, Money, Counts, Open
    <2>11. OneInFlight'
      BY <2>1 DEF OneInFlight
    <2>12. Books'
      <3>1. traded.sol = LotSol(st) /\ traded.usdc = st.net - LotUsd(st) /\ wallet.usdc >= 0
        <4>1. ~Moved
          BY DEF Moved, Open
        <4>2. LotSol(st) \in Int /\ st.net - LotUsd(st) \in Int
          BY Numbers, LotNumbers
        <4>3. Books
          BY DEF Money
        <4>4. /\ traded.sol = LotSol(st) + 0 /\ traded.usdc = (st.net - LotUsd(st)) + 0
              /\ wallet.usdc >= 0
          BY <4>1, <4>3, Zenon DEF Books
        <4> QED
          BY <4>2, <4>4
      <3>2. LotSol(st)' = LotSol(st) /\ LotUsd(st)' = LotUsd(st) /\ st'.net = st.net
        BY <2>1, <2>5 DEF LotSol, LotUsd
      <3>3. st'.pending.sol = wallet.sol /\ st'.pending.usdc = wallet.usdc
        BY <2>1, <2>4, <2>5
      <3> QED
        BY <2>1, <3>1, <3>2, <3>3, Numbers, LotNumbers DEF Books
    <2> QED
      BY <2>1, <2>4, <2>5, <2>8, <2>9, <2>10, <2>11, <2>12 DEF Money
  <1> QED
    BY <1>1, <1>2

\* The account changes with no swap open, and counts only what is there.
LEMMA PlainMoney ==
    ASSUME TypeOK, Money, ~Open(st), flight = {}, UNCHANGED chain,
           st'.pending = st.pending, st'.lots = st.lots, st'.net = st.net,
           Counts(st)', Counts(saved)'
    PROVE  Money'
  <1>1. ~Open(st') /\ ~Moved /\ ~Moved'
    BY DEF Open, Moved
  <1>2. LotSol(st)' = LotSol(st) /\ LotUsd(st)' = LotUsd(st)
    BY DEF LotSol, LotUsd
  <1>3. UNCHANGED <<wallet, flight, traded>>
    BY DEF chain
  <1>4. Books'
    BY <1>1, <1>2, <1>3 DEF Money, Books
  <1> QED
    BY <1>1, <1>3, <1>4 DEF Money, SwapFits, OneInFlight

\* A transaction is handed over for the swap that is open.
LEMMA HandOverMoney ==
    ASSUME TypeOK, Money, SwapByPlace, flight = {}, HandOver, Open(st)
    PROVE  /\ Money'
           /\ flight' \subseteq [what : {"Fund", "Buy", "Sell", "Raise"}, left : 1..Life, sol : Int, usdc : Int]
  <1> PICK m \in Moves :
         LET out == call.amount + m
             sells == st.pending.what # "Buy"
         IN  /\ out > 0 /\ out >= call.least
             /\ call.amount <= IF sells THEN wallet.sol ELSE wallet.usdc
             /\ flight' = flight \cup
                  {[what |-> st.pending.what, left |-> Life,
                    sol  |-> IF sells THEN -call.amount ELSE out,
                    usdc |-> IF sells THEN out ELSE -call.amount]}
    BY DEF HandOver
  <1> DEFINE out == call.amount + m
             sells == st.pending.what # "Buy"
             t == [what |-> st.pending.what, left |-> Life,
                   sol  |-> IF sells THEN -call.amount ELSE out,
                   usdc |-> IF sells THEN out ELSE -call.amount]
  <1>1. flight' = {t} /\ out > 0 /\ call.amount <= IF sells THEN wallet.sol ELSE wallet.usdc
    OBVIOUS
  <1>2. /\ UNCHANGED <<st, saved, wallet, traded>>
        /\ pc = "swap" /\ Unmoved(st, wallet) /\ call.amount > 0
        /\ st.pending.what = "Buy" => call.amount <= st.cash
        /\ st.pending.what = "Sell" => call.amount = LotSol(st)
    BY DEF HandOver, memory, SwapByPlace
  <1>3. out \in Int /\ call.amount \in Nat
    BY Numbers, TraderAssumption
  <1> HIDE DEF out
  <1>4. /\ t.what = st.pending.what /\ t.left = Life
        /\ t.sol = (IF sells THEN -call.amount ELSE out)
        /\ t.usdc = (IF sells THEN out ELSE -call.amount)
    OBVIOUS
  <1>5. st.pending.what \in {"Fund", "Buy", "Sell", "Raise"}
    BY StateFields, PendingFields DEF TypeOK, Open
  <1>6. t \in [what : {"Fund", "Buy", "Sell", "Raise"}, left : 1..Life, sol : Int, usdc : Int]
    BY <1>3, <1>5, TraderAssumption
  <1> HIDE DEF t
  <1>w. wallet.sol = st.pending.sol /\ wallet.usdc = st.pending.usdc /\ st.cash <= st.pending.usdc
    BY <1>2 DEF Money, SwapFits, Unmoved
  <1>u. wallet.usdc >= 0
    BY DEF Money, Books
  <1>7. Landed(st, After(t))
    <2>1. CASE st.pending.what \in {"Fund", "Raise"}
      <3>1. After(t).usdc = wallet.usdc + out
        BY <1>4, <2>1 DEF After
      <3>2. wallet.usdc + out > st.pending.usdc
        BY <1>1, <1>3, <1>w, Numbers
      <3> QED
        BY <2>1, <3>1, <3>2 DEF Landed
    <2>2. CASE st.pending.what = "Sell"
      <3>1. After(t).usdc = wallet.usdc + out /\ After(t).sol = wallet.sol + (-LotSol(st))
        BY <1>2, <1>4, <2>2 DEF After
      <3>2. wallet.usdc + out > st.pending.usdc
        BY <1>1, <1>3, <1>w, Numbers
      <3>3. wallet.sol + (-LotSol(st)) = st.pending.sol - LotSol(st)
        BY <1>w, LotNumbers, Numbers
      <3> QED
        BY <2>2, <3>1, <3>2, <3>3 DEF Landed
    <2>3. CASE st.pending.what = "Buy"
      <3>1. After(t).usdc = wallet.usdc + (-call.amount) /\ After(t).sol = wallet.sol + out
        BY <1>4, <2>3 DEF After
      <3>2. call.amount <= st.cash /\ call.amount > 0
        BY <1>2, <2>3
      <3>3. /\ wallet.usdc + (-call.amount) < st.pending.usdc /\ wallet.sol + out > st.pending.sol
            /\ st.pending.usdc - st.cash <= wallet.usdc + (-call.amount)
        BY <3>2, <1>1, <1>3, <1>w, Numbers
      <3> QED
        BY <2>3, <3>1, <3>3 DEF Landed
    <2> QED
      BY <1>5, <2>1, <2>2, <2>3
  <1>8. After(t).usdc >= 0
    <2>1. CASE sells
      <3>1. After(t).usdc = wallet.usdc + out
        BY <1>4, <2>1 DEF After
      <3> QED
        BY <3>1, <1>1, <1>3, <1>u, Numbers
    <2>2. CASE ~sells
      <3>1. After(t).usdc = wallet.usdc + (-call.amount) /\ call.amount <= wallet.usdc
        BY <1>1, <1>4, <2>2 DEF After
      <3> QED
        BY <3>1, <1>3, Numbers
    <2> QED
      BY <2>1, <2>2
  <1>9. ASSUME NEW u \in flight'
        PROVE  /\ flight' = {u} /\ u.what = st'.pending.what
               /\ Unmoved(st, wallet)' /\ Landed(st, After(u))' /\ After(u)'.usdc >= 0
    <2>1. u = t
      BY <1>1
    <2>2. Landed(st, After(u)) /\ After(u).usdc >= 0 /\ u.what = st.pending.what
      BY <2>1, <1>4, <1>7, <1>8
    <2> QED
      BY <2>1, <2>2, <1>1, <1>2 DEF Landed, Unmoved, After, LotSol
  <1>10. OneInFlight'
    BY <1>9 DEF OneInFlight
  <1>11. Counts(st)' /\ Counts(saved)' /\ SwapFits' /\ Books'
    BY <1>2 DEF Money, SwapFits, Counts, Books, Moved, Open, Unmoved, Landed, LotSol, LotUsd
  <1> QED
    BY <1>1, <1>6, <1>10, <1>11 DEF Money

\* What is in flight lands: the wallet shows all of the open swap.
LEMMA LandMoney ==
    ASSUME TypeOK, Money, Open(st), Open(saved), NEW t \in flight, Land(t)
    PROVE  /\ Money' /\ flight' = {}
           /\ wallet' \in [sol : Int, usdc : Int] /\ traded' \in [sol : Int, usdc : Int]
  <1>1. /\ flight = {t} /\ t.what = st.pending.what
        /\ Unmoved(st, wallet) /\ Landed(st, After(t)) /\ After(t).usdc >= 0
    BY DEF Money, OneInFlight
  <1>2. /\ flight' = {} /\ wallet' = After(t) /\ UNCHANGED <<st, saved>>
    BY <1>1 DEF Land, After, memory
  <1>3. t.sol \in Int /\ t.usdc \in Int
    BY DEF TypeOK
  <1>4. /\ wallet'.sol = wallet.sol + t.sol /\ wallet'.usdc = wallet.usdc + t.usdc
        /\ wallet' \in [sol : Int, usdc : Int]
    BY <1>2, <1>3, Numbers DEF After
  <1>5. IF Moved THEN traded' = [sol |-> traded.sol + t.sol, usdc |-> traded.usdc + t.usdc]
        ELSE traded' = traded
    BY <1>1 DEF Land, Moved
  <1>6. traded' \in [sol : Int, usdc : Int]
    <2>1. traded \in [sol : Int, usdc : Int]
      BY DEF TypeOK
    <2>2. traded.sol + t.sol \in Int /\ traded.usdc + t.usdc \in Int
      BY <1>3, <2>1
    <2>3. CASE Moved
      BY <1>5, <2>2, <2>3
    <2>4. CASE ~Moved
      BY <1>5, <2>1, <2>4
    <2> QED
      BY <2>3, <2>4
  <1>7. Books'
    <2>1. Moved' = Moved /\ LotSol(st)' = LotSol(st) /\ LotUsd(st)' = LotUsd(st)
      BY <1>2 DEF Moved, LotSol, LotUsd
    <2>2. wallet.sol = st.pending.sol /\ wallet.usdc = st.pending.usdc /\ wallet'.usdc >= 0
      BY <1>1, <1>2 DEF Unmoved
    <2>3. CASE Moved
      <3>1. traded'.sol = traded.sol + t.sol /\ traded'.usdc = traded.usdc + t.usdc
        BY <1>5, <2>3
      <3>2. /\ traded.sol = LotSol(st) + (wallet.sol - st.pending.sol)
            /\ traded.usdc = st.net - LotUsd(st) + (wallet.usdc - st.pending.usdc)
        BY <2>3 DEF Money, Books
      <3>3. /\ traded'.sol = LotSol(st) + (wallet'.sol - st.pending.sol)
            /\ traded'.usdc = st.net - LotUsd(st) + (wallet'.usdc - st.pending.usdc)
        <4>1. /\ LotSol(st) \in Int /\ LotUsd(st) \in Int /\ st.net \in Int
              /\ wallet.sol \in Int /\ wallet.usdc \in Int
              /\ st.pending.sol \in Int /\ st.pending.usdc \in Int
          BY Numbers, LotNumbers
        <4>2. wallet'.sol = wallet.sol + t.sol /\ wallet'.usdc = wallet.usdc + t.usdc
          BY <1>4
        <4>3. traded'.sol = LotSol(st) + (wallet'.sol - st.pending.sol)
          BY <3>1, <3>2, <4>1, <4>2, <1>3
        <4>4. traded'.usdc = st.net - LotUsd(st) + (wallet'.usdc - st.pending.usdc)
          BY <3>1, <3>2, <4>1, <4>2, <1>3
        <4> QED
          BY <4>3, <4>4
      <3> QED
        BY <1>2, <2>1, <2>2, <2>3, <3>3 DEF Books
    <2>4. CASE ~Moved
      BY <1>2, <1>5, <2>1, <2>2, <2>4 DEF Money, Books
    <2> QED
      BY <2>3, <2>4
  <1>8. SwapFits' /\ OneInFlight'
    BY <1>1, <1>2 DEF Money, SwapFits, OneInFlight, Open, Landed, LotSol
  <1>9. Counts(st)' /\ Counts(saved)'
    BY <1>2 DEF Money, Counts, Open, LotUsd
  <1> QED
    BY <1>2, <1>4, <1>6, <1>7, <1>8, <1>9 DEF Money

LEMMA FailMoney ==
    ASSUME Money, NEW t \in flight, Fail(t)
    PROVE  Money' /\ flight' = {}
  <1>1. flight' = {} /\ UNCHANGED <<st, saved, wallet, traded>>
    BY DEF Money, OneInFlight, Fail, memory
  <1> QED
    BY <1>1 DEF Money, SwapFits, Counts, Books, Moved, OneInFlight, Open, Unmoved, Landed, LotSol, LotUsd

\* A tick changes the age of an open swap, and nothing else of the state.
LEMMA OlderSame ==
    ASSUME NEW s \in States
    PROVE  /\ OlderState(s) \in States
           /\ OlderState(s).cash = s.cash /\ OlderState(s).lots = s.lots /\ OlderState(s).net = s.net
           /\ OlderState(s).budget = s.budget /\ OlderState(s).funded = s.funded
           /\ OlderState(s).ended = s.ended
           /\ OlderState(s).pending.what = s.pending.what /\ OlderState(s).pending.lot = s.pending.lot
           /\ OlderState(s).pending.sol = s.pending.sol /\ OlderState(s).pending.usdc = s.pending.usdc
  <1>1. CASE Open(s)
    <2> DEFINE p == [s.pending EXCEPT !.age = Older(@)]
    <2>1. s.pending \in Pendings /\ s.pending.age \in 0..SettledAfter
      BY <1>1, StateFields, PendingFields
    <2>2. Older(s.pending.age) \in 0..SettledAfter
      BY <2>1, TraderAssumption DEF Older, Min2
    <2>3. /\ p \in Pendings /\ p.what = s.pending.what /\ p.lot = s.pending.lot
          /\ p.sol = s.pending.sol /\ p.usdc = s.pending.usdc
      BY <2>1, <2>2 DEF Pendings
    <2>4. OlderState(s) = [s EXCEPT !.pending = p]
      BY <1>1 DEF OlderState, States
    <2> HIDE DEF p
    <2> QED
      BY <2>3, <2>4 DEF States
  <1>2. CASE ~Open(s)
    BY <1>2 DEF OlderState
  <1> QED
    BY <1>1, <1>2

\* Time leaves the money alone.
LEMMA TickMoney ==
    ASSUME TypeOK, Money, Tick
    PROVE  /\ Money' /\ st' \in States /\ saved' \in States
           /\ flight' \subseteq [what : {"Fund", "Buy", "Sell", "Raise"}, left : 1..Life, sol : Int, usdc : Int]
           /\ passAge' \in 0..SettledAfter
  <1>1. st \in States /\ saved \in States /\ st' = OlderState(st) /\ saved' = OlderState(saved)
        /\ UNCHANGED <<wallet, traded>>
        /\ flight' = {[t EXCEPT !.left = @ - 1] : t \in {u \in flight : u.left > 1}}
    BY DEF Tick, TypeOK
  <1>2. /\ st' \in States /\ st'.cash = st.cash /\ st'.lots = st.lots /\ st'.net = st.net
        /\ st'.budget = st.budget /\ st'.funded = st.funded /\ st'.ended = st.ended
        /\ st'.pending.what = st.pending.what /\ st'.pending.lot = st.pending.lot
        /\ st'.pending.sol = st.pending.sol /\ st'.pending.usdc = st.pending.usdc
    BY <1>1, OlderSame
  <1>3. /\ saved' \in States /\ saved'.cash = saved.cash /\ saved'.lots = saved.lots
        /\ saved'.net = saved.net /\ saved'.budget = saved.budget /\ saved'.funded = saved.funded
        /\ saved'.ended = saved.ended /\ saved'.pending.what = saved.pending.what
    BY <1>1, OlderSame
  <1>4. Counts(st)' /\ Counts(saved)'
    BY <1>1, <1>2, <1>3 DEF Money, Counts, Open, LotUsd
  <1>5. SwapFits'
    BY <1>1, <1>2 DEF Money, SwapFits, Open, Unmoved, Landed, LotSol
  <1>6. Books'
    BY <1>1, <1>2 DEF Money, Books, Moved, LotSol, LotUsd
  <1>7. ASSUME NEW u \in flight'
        PROVE  /\ flight' = {u} /\ u.what = st'.pending.what
               /\ Unmoved(st, wallet)' /\ Landed(st, After(u))' /\ After(u)'.usdc >= 0
               /\ u \in [what : {"Fund", "Buy", "Sell", "Raise"}, left : 1..Life, sol : Int, usdc : Int]
    <2>1. PICK t \in flight : t.left > 1 /\ u = [t EXCEPT !.left = @ - 1]
      BY <1>1
    <2>2. t \in [what : {"Fund", "Buy", "Sell", "Raise"}, left : 1..Life, sol : Int, usdc : Int]
      BY DEF TypeOK
    <2>3. /\ u.what = t.what /\ u.sol = t.sol /\ u.usdc = t.usdc
          /\ u \in [what : {"Fund", "Buy", "Sell", "Raise"}, left : 1..Life, sol : Int, usdc : Int]
      BY <2>1, <2>2, TraderAssumption
    <2>4. flight = {t}
      BY DEF Money, OneInFlight
    <2>5. flight' = {u}
      BY <1>1, <2>1, <2>4
    <2>6. /\ t.what = st.pending.what
          /\ Unmoved(st, wallet) /\ Landed(st, After(t)) /\ After(t).usdc >= 0
      BY DEF Money, OneInFlight
    <2>7. After(u) = After(t)
      BY <2>3 DEF After
    <2> QED
      BY <2>3, <2>5, <2>6, <2>7, <1>1, <1>2 DEF Landed, Unmoved, After, LotSol
  <1>8. OneInFlight'
    BY <1>7 DEF OneInFlight
  <1>9. passAge' \in 0..SettledAfter
    <2>1. passAge \in 0..SettledAfter /\ (passAge' = 0 \/ passAge' = Older(passAge))
      BY DEF Tick, TypeOK
    <2> QED
      BY <2>1, TraderAssumption DEF Older, Min2
  <1> QED
    BY <1>2, <1>3, <1>4, <1>5, <1>6, <1>7, <1>8, <1>9 DEF Money

----------------------------------------------------------------------------
(* The steps of the run *)

Held == TypeOK /\ Shape /\ InTheAir /\ Money /\ Places

LEMMA HeldFacts ==
    ASSUME Held
    PROVE  /\ TypeOK /\ Shape /\ InTheAir /\ Money
           /\ InStep /\ SwapByPlace /\ AccountByPlace /\ ListFits
           /\ st \in States /\ saved \in States
           /\ pc # "next" => todo = <<>>
           /\ pc \notin {"end", "off"} => ~st.ended
           /\ pc # "off" => ~saved.ended
           /\ ~st.funded => st.lots = <<>>
           /\ Counts(st) /\ Counts(saved)
  BY DEF Held, Places, Money, Counts, ListFits, AccountByPlace, TypeOK

\* act_for has answered: the pass goes on where the answer sends it.
LEMMA ReturnedPlaces ==
    ASSUME Held, pc \in {"back", "swap", "look"}, NEW ok \in BOOLEAN, Returned(ok),
           UNCHANGED todo, ~st'.ended, ~saved'.ended,
           st'.pending = saved'.pending, st'.lots = saved'.lots,
           st'.net = saved'.net, st'.budget = saved'.budget, Open(st') => st' = saved',
           st.funded => st'.funded,
           ok => ~Open(st'), task = "fund" /\ st'.funded => ~Open(st')
    PROVE  /\ Places' /\ pc' \in {"decide", "next", "end"}
           /\ task' \in {"fund", "raise", "take", "taken", "orders", "stop", "close"}
           /\ call' \in [amount : Nat, least : Int] /\ todo' = <<>>
  <1>1. /\ todo' = <<>> /\ pc' \in {"decide", "next", "end"}
        /\ task \in {"fund", "raise", "take", "taken", "orders", "stop", "close"}
        /\ task' = IF task = "take" /\ ok THEN "taken" ELSE task
        /\ call' = [amount |-> 0, least |-> 0]
        /\ pc' = "decide" => task = "fund" /\ st'.funded
        /\ pc' = "next" /\ task \in {"stop", "close"} => ok
    BY HeldFacts DEF Returned, Shape, Working
  <1>2. task' \in {"take", "taken", "orders"} => st'.funded
    BY <1>1, HeldFacts DEF AccountByPlace
  <1>3. InStep'
    BY <1>1 DEF InStep, Open
  <1>4. SwapByPlace'
    BY <1>1 DEF SwapByPlace, Open
  <1>5. AccountByPlace'
    BY <1>1, <1>2 DEF AccountByPlace
  <1>6. ListFits'
    BY <1>1 DEF ListFits
  <1> QED
    BY <1>1, <1>3, <1>4, <1>5, <1>6 DEF Places

\* A swap has been written down, or was not tried.
LEMMA ActPlaces ==
    ASSUME Held, pc \in {"fund", "next", "idle"}, ~Open(st), UNCHANGED <<passAge, chain>>,
           NEW what \in {"Fund", "Buy", "Sell", "Raise"}, NEW lot, lot \in Nat, NEW to, to \in Nat,
           NEW amount, amount \in Int, NEW least, least \in Int, Act(what, lot, to, amount, least),
           what = "Fund" => ~st.funded,
           what = "Buy" => st.funded /\ st.lots = <<>> /\ amount <= st.cash,
           what = "Sell" => st.lots # <<>> /\ lot = 1 /\ amount = LotSol(st),
           what = "Raise" => st.funded,
           task' \in {"fund", "raise", "take", "taken", "orders", "stop", "close"},
           task' = "fund" => what = "Fund",
           task' \in {"take", "taken", "orders"} => st.funded,
           todo' = <<>>
    PROVE  /\ Money' /\ Places' /\ pc' \in {"swap", "back"} /\ st' \in States /\ saved' \in States
           /\ call' \in [amount : Nat, least : Int]
  <1>0. flight = {} /\ ~st.ended /\ ~saved.ended
    BY HeldFacts, NothingElse
  <1>1. /\ Money' /\ st' \in States /\ saved' \in States
        /\ \/ /\ pc' = "swap" /\ amount > 0 /\ call' = [amount |-> amount, least |-> least]
              /\ Open(st') /\ saved' = st' /\ Unmoved(st, wallet)'
              /\ st'.pending.what = what /\ st'.pending.age = passAge
              /\ st'.cash = st.cash /\ st'.lots = st.lots
              /\ st'.funded = st.funded /\ st'.ended = st.ended
           \/ pc' = "back" /\ UNCHANGED <<st, saved>> /\ call' = [amount |-> 0, least |-> 0]
    BY <1>0, HeldFacts, ActMoney
  <1>2. CASE pc' = "back"
    <2>1. UNCHANGED <<st, saved>> /\ call' = [amount |-> 0, least |-> 0]
      BY <1>1, <1>2
    <2>2. InStep' /\ SwapByPlace'
      BY <1>2, <2>1, HeldFacts DEF InStep, SwapByPlace, Open
    <2>3. AccountByPlace' /\ ListFits'
      BY <1>0, <1>2, <2>1 DEF AccountByPlace, ListFits
    <2>4. call' \in [amount : Nat, least : Int]
      BY <2>1
    <2> QED
      BY <1>1, <1>2, <2>2, <2>3, <2>4 DEF Places
  <1>3. CASE pc' = "swap"
    <2>1. /\ amount > 0 /\ call' = [amount |-> amount, least |-> least]
          /\ Open(st') /\ saved' = st' /\ Unmoved(st, wallet)'
          /\ st'.pending.what = what /\ st'.pending.age = passAge
          /\ st'.cash = st.cash /\ st'.lots = st.lots
          /\ st'.funded = st.funded /\ st'.ended = st.ended
      BY <1>1, <1>3
    <2>2. call' \in [amount : Nat, least : Int] /\ call'.amount = amount
      BY <2>1
    <2>3. LotSol(st)' = LotSol(st)
      BY <2>1 DEF LotSol
    <2>4. InStep' /\ SwapByPlace'
      BY <1>3, <2>1, <2>2, <2>3 DEF InStep, SwapByPlace
    <2>5. AccountByPlace' /\ ListFits'
      BY <1>0, <1>3, <2>1 DEF AccountByPlace, ListFits
    <2> QED
      BY <1>1, <1>3, <2>2, <2>4, <2>5 DEF Places
  <1> QED
    BY <1>1, <1>2, <1>3

\* What a rule in one part wants is one swap at most.
Swaps == [what : {"Buy", "Sell"}, lot : Nat, least : Int]
OneSwap(q) ==
    /\ q \in Seq(Swaps)
    /\ q # <<>> => Len(q) = 1 /\ (q[1].what = "Buy" => st.lots = <<>>)

LEMMA OneSale ==
    ASSUME Held, NEW these \in SUBSET DOMAIN st.lots, NEW gain \in BOOLEAN
    PROVE  OneSwap(Sells(these, gain))
  <1>1. /\ DOMAIN st.lots = {} \/ DOMAIN st.lots = {1}
        /\ st.lots # <<>> => st.lots[1].usd \in Nat
    BY HeldFacts, OneLot DEF Counts, Lots
  <1> DEFINE sell(i) == LET lot == Highest(these, i) IN
                        [what |-> "Sell", lot |-> lot,
                         least |-> IF gain THEN st.lots[lot].usd + 1 ELSE 0]
  <1>2. Sells(these, gain) = [i \in 1..Cardinality(these) |-> sell(i)]
    BY DEF Sells
  <1>3. CASE these = {}
    <2>1. Cardinality(these) = 0
      BY <1>3, FS_EmptySet
    <2> HIDE DEF sell
    <2>2. Sells(these, gain) = <<>>
      BY <1>2, <2>1
    <2> QED
      BY <2>2 DEF OneSwap
  <1>4. CASE these = {1}
    <2>1. Cardinality(these) = 1
      BY <1>4, FS_Singleton
    <2>2. Cardinality({l \in these : l > 1}) = 0
      <3>1. {l \in these : l > 1} = {}
        BY <1>4
      <3> QED
        BY <3>1, FS_EmptySet
    <2>3. Highest(these, 1) = 1
      <3>1. \E lot \in these : Cardinality({l \in these : l > lot}) = 1 - 1
        BY <1>4, <2>2
      <3> QED
        BY <1>4, <3>1 DEF Highest
    <2>4. DOMAIN st.lots = {1} /\ st.lots # <<>>
      BY <1>1, <1>4
    <2>5. sell(1) \in Swaps /\ sell(1).what = "Sell"
      BY <1>1, <2>3, <2>4 DEF Swaps
    <2> HIDE DEF sell
    <2>6. Sells(these, gain) = <<sell(1)>>
      BY <1>2, <2>1
    <2> QED
      BY <2>5, <2>6 DEF OneSwap
  <1> QED
    BY <1>1, <1>3, <1>4

LEMMA OneOrder ==
    ASSUME Held, OnePart, NEW q \in Orders
    PROVE  OneSwap(q)
  <1>1. CASE \E these \in SUBSET DOMAIN st.lots : q = Sells(these, FALSE)
    BY <1>1, OneSale
  <1>2. CASE q = <<[what |-> "Buy", lot |-> 0, least |-> 0]>> /\ Len(st.lots) < MaxLots
    <2> DEFINE o == [what |-> "Buy", lot |-> 0, least |-> 0]
    <2>1. o \in Swaps /\ q = <<o>>
      BY <1>2 DEF Swaps
    <2>2. st.lots = <<>>
      <3>1. st.lots # <<>> => Len(st.lots) = 1
        BY HeldFacts, OneLot DEF Counts
      <3>2. ~(1 < MaxLots)
        BY DEF OnePart
      <3> QED
        BY <1>2, <3>1, <3>2
    <2> HIDE DEF o
    <2> QED
      BY <2>1, <2>2 DEF OneSwap
  <1> QED
    BY <1>1, <1>2 DEF Orders

LEMMA NoSwap == OneSwap(<<>>)
  BY DEF OneSwap

----------------------------------------------------------------------------
(* ... one by one *)

Holds == TypeOK' /\ Money' /\ Places'

LEMMA HeldNotTried == Held /\ NotTried => Holds
  <1> SUFFICES ASSUME Held, NotTried PROVE Holds
    OBVIOUS
  <1>1. pc = "back" /\ UNCHANGED <<st, saved, run, todo, passAge, wallet, flight, traded, swaps, wishes, stops>>
        /\ Returned(FALSE)
    BY DEF NotTried, memory, chain, counts
  <1>2. /\ Places' /\ pc' \in {"decide", "next", "end"}
        /\ task' \in {"fund", "raise", "take", "taken", "orders", "stop", "close"}
        /\ call' \in [amount : Nat, least : Int] /\ todo' = <<>>
    BY <1>1, ReturnedPlaces, HeldFacts DEF InStep, SwapByPlace
  <1> QED
    BY <1>1, <1>2, MoneySame, HeldFacts DEF Holds, TypeOK

LEMMA HeldNotSent == Held /\ NotSent => Holds
  <1> SUFFICES ASSUME Held, NotSent PROVE Holds
    OBVIOUS
  <1>1. pc = "swap" /\ UNCHANGED <<run, todo, passAge, wallet, flight, traded, swaps, wishes, stops>>
        /\ Returned(FALSE) /\ st' = Cleared(st) /\ saved' = st' /\ UNCHANGED chain
    BY DEF NotSent, chain, counts
  <1>2. Open(st) /\ Unmoved(st, wallet) /\ flight = {}
    BY <1>1, HeldFacts, NothingElse DEF InTheAir, SwapByPlace
  <1>3. /\ Money' /\ st' \in States /\ saved' \in States /\ ~Open(st')
        /\ st'.funded = st.funded /\ ~st'.ended /\ st'.lots = st.lots
    BY <1>1, <1>2, ClearedMoney, HeldFacts
  <1>4. /\ Places' /\ pc' \in {"decide", "next", "end"}
        /\ task' \in {"fund", "raise", "take", "taken", "orders", "stop", "close"}
        /\ call' \in [amount : Nat, least : Int] /\ todo' = <<>>
    BY <1>1, <1>3, ReturnedPlaces
  <1> QED
    BY <1>1, <1>3, <1>4, HeldFacts DEF Holds, TypeOK

LEMMA HeldLookSettles == Held /\ LookSettles => Holds
  <1> SUFFICES ASSUME Held, LookSettles PROVE Holds
    OBVIOUS
  <1>1. pc = "look" /\ UNCHANGED <<run, todo, passAge, wallet, flight, traded, swaps, wishes, stops>>
        /\ Returned(TRUE) /\ Shows(st) /\ st' = Cleared(Booked(st)) /\ saved' = st' /\ UNCHANGED chain
    BY DEF LookSettles, chain, counts
  <1>2. Open(st) /\ flight = {}
    BY <1>1, HeldFacts, NothingElse DEF InTheAir
  <1>3. /\ Money' /\ st' \in States /\ saved' \in States /\ ~Open(st')
        /\ (st.funded => st'.funded) /\ ~st'.ended
    BY <1>1, <1>2, BookedMoney, HeldFacts
  <1>4. /\ Places' /\ pc' \in {"decide", "next", "end"}
        /\ task' \in {"fund", "raise", "take", "taken", "orders", "stop", "close"}
        /\ call' \in [amount : Nat, least : Int] /\ todo' = <<>>
    BY <1>1, <1>3, ReturnedPlaces
  <1> QED
    BY <1>1, <1>3, <1>4, HeldFacts DEF Holds, TypeOK

\* No look saw the swap: it stays open, and the pass ends with it.
LEMMA HeldLooksEnd == Held /\ LooksEnd => Holds
  <1> SUFFICES ASSUME Held, LooksEnd PROVE Holds
    OBVIOUS
  <1>1. pc = "look" /\ UNCHANGED <<st, run, todo, passAge, wallet, flight, traded, swaps, wishes, stops>>
        /\ Returned(FALSE) /\ saved' = st
    BY DEF LooksEnd, chain, counts
  <1>2. Open(st) /\ st = saved /\ UNCHANGED saved
    BY <1>1, HeldFacts DEF InTheAir
  <1>3. task = "fund" => ~st.funded
    BY <1>1, <1>2, HeldFacts DEF SwapByPlace, Money, SwapFits
  <1>4. /\ Places' /\ pc' \in {"decide", "next", "end"}
        /\ task' \in {"fund", "raise", "take", "taken", "orders", "stop", "close"}
        /\ call' \in [amount : Nat, least : Int] /\ todo' = <<>>
    BY <1>1, <1>2, <1>3, ReturnedPlaces, HeldFacts
  <1> QED
    BY <1>1, <1>2, <1>4, MoneySame, HeldFacts DEF Holds, TypeOK

LEMMA HeldHandOver == Held /\ HandOver => Holds
  <1> SUFFICES ASSUME Held, HandOver PROVE Holds
    OBVIOUS
  <1>1. /\ pc = "swap" /\ pc' = "deliver" /\ swaps' = swaps + 1
        /\ UNCHANGED <<st, saved, run, task, todo, call, passAge, wallet, traded, wishes, stops>>
    BY DEF HandOver, memory
  <1>2. Open(st) /\ flight = {}
    BY <1>1, HeldFacts, NothingElse DEF InTheAir
  <1>3. /\ Money'
        /\ flight' \subseteq [what : {"Fund", "Buy", "Sell", "Raise"}, left : 1..Life, sol : Int, usdc : Int]
    BY <1>2, HandOverMoney, HeldFacts
  <1>4. Places'
    BY <1>1, <1>2, HeldFacts DEF Places, InStep, SwapByPlace, AccountByPlace, ListFits, Open
  <1> QED
    BY <1>1, <1>3, <1>4, HeldFacts DEF Holds, TypeOK

LEMMA HeldDeliverEnds == Held /\ DeliverEnds => Holds
  <1> SUFFICES ASSUME Held, DeliverEnds PROVE Holds
    OBVIOUS
  <1>1. /\ pc = "deliver" /\ pc' = "look"
        /\ UNCHANGED <<st, saved, run, task, todo, call, passAge, wallet, flight, traded, swaps, wishes, stops>>
    BY DEF DeliverEnds, memory, chain, counts
  <1>2. Open(st)
    BY <1>1, HeldFacts DEF InTheAir
  <1>3. Places'
    BY <1>1, <1>2, HeldFacts DEF Places, InStep, SwapByPlace, AccountByPlace, ListFits, Open
  <1> QED
    BY <1>1, <1>3, MoneySame, HeldFacts DEF Holds, TypeOK

LEMMA HeldFund == Held /\ Fund => Holds
  <1> SUFFICES ASSUME Held, Fund PROVE Holds
    OBVIOUS
  <1>0. /\ pc = "fund" /\ UNCHANGED <<run, task, todo, passAge, wallet, flight, traded, swaps, wishes, stops>>
        /\ UNCHANGED chain /\ ~Open(st) /\ ~st.funded /\ todo = <<>> /\ flight = {} /\ ~st.ended /\ ~saved.ended
        /\ task \in {"fund", "raise", "stop", "close"}
    BY HeldFacts, NothingElse DEF Fund, chain, counts, SwapByPlace, AccountByPlace, Shape, Working
  <1>1. CASE UNCHANGED memory /\ pc' = "end" /\ UNCHANGED call
    <2>1. Places'
      BY <1>0, <1>1, HeldFacts DEF memory, Places, InStep, SwapByPlace, AccountByPlace, ListFits, Open
    <2> QED
      BY <1>0, <1>1, <2>1, MoneySame, HeldFacts DEF memory, Holds, TypeOK
  <1>2. CASE /\ st' = [st EXCEPT !.funded = TRUE, !.cash = Min2(wallet.usdc, st.budget)]
             /\ pc' = "decide" /\ UNCHANGED <<saved, call>>
    <2> DEFINE c == Min2(wallet.usdc, st.budget)
    <2>1. c \in Nat /\ c <= wallet.usdc /\ c <= st.budget
      BY HeldFacts, Numbers DEF Min2, Money, Books
    <2> HIDE DEF c
    <2>2. st' = [st EXCEPT !.funded = TRUE, !.cash = c]
      BY <1>2 DEF c
    <2>3. /\ st' \in States /\ st'.funded /\ st'.cash = c /\ st'.lots = st.lots /\ st'.net = st.net
          /\ st'.budget = st.budget /\ st'.ended = st.ended /\ st'.pending = st.pending
      BY <2>1, <2>2, HeldFacts DEF States
    <2>4. st.lots = <<>> /\ st.net = 0
      BY <1>0, HeldFacts DEF Counts
    <2>5. Counts(st)' /\ Counts(saved)'
      <3>1. LotUsd(st)' = 0
        BY <2>3, <2>4 DEF LotUsd
      <3>2. c + 0 <= st.budget + 0
        BY <2>1, HeldFacts, Numbers
      <3>3. Len(st.lots) <= 1
        BY HeldFacts DEF Counts
      <3> QED
        BY <1>0, <1>2, <2>1, <2>3, <2>4, <3>1, <3>2, <3>3, HeldFacts DEF Counts, Open, LotUsd
    <2>6. Money'
      BY <1>0, <2>3, <2>5, PlainMoney, HeldFacts
    <2>7. Places'
      BY <1>0, <1>2, <2>3, HeldFacts DEF Places, InStep, SwapByPlace, AccountByPlace, ListFits, Open
    <2> QED
      BY <1>0, <1>2, <2>3, <2>6, <2>7, HeldFacts DEF Holds, TypeOK
  <1>3. CASE Act("Fund", 0, 0, st.budget - wallet.usdc, 0)
    <2>1. st.budget - wallet.usdc \in Int
      BY HeldFacts, Numbers
    <2>2. /\ Money' /\ Places' /\ pc' \in {"swap", "back"} /\ st' \in States /\ saved' \in States
          /\ call' \in [amount : Nat, least : Int]
      BY <1>0, <1>3, <2>1, ActPlaces
    <2> QED
      BY <1>0, <2>2, HeldFacts DEF Holds, TypeOK
  <1> QED
    BY <1>1, <1>2, <1>3 DEF Fund

LEMMA HeldDecide == OnePart /\ Held /\ Decide => Holds
  <1> SUFFICES ASSUME OnePart, Held, Decide PROVE Holds
    OBVIOUS
  <1>0. /\ pc = "decide" /\ UNCHANGED <<saved, run, call, passAge, wallet, flight, traded, swaps, wishes, stops>>
        /\ UNCHANGED chain /\ ~Open(st) /\ st.funded /\ todo = <<>> /\ flight = {} /\ ~st.ended /\ ~saved.ended
    BY HeldFacts, NothingElse DEF Decide, chain, counts, SwapByPlace, AccountByPlace
  <1>1. CASE /\ st' = [st EXCEPT !.frozen = TRUE]
             /\ task' = "stop" /\ pc' = "next" /\ todo' = <<>>
    <2>1. /\ st' \in States /\ st'.funded = st.funded /\ st'.cash = st.cash /\ st'.lots = st.lots
          /\ st'.net = st.net /\ st'.budget = st.budget /\ st'.ended = st.ended
          /\ st'.pending = st.pending
      BY <1>1, HeldFacts DEF States
    <2>2. Counts(st)' /\ Counts(saved)'
      BY <1>0, <2>1, HeldFacts DEF Counts, Open, LotUsd
    <2>3. Money'
      BY <1>0, <2>1, <2>2, PlainMoney, HeldFacts
    <2>4. Places'
      BY <1>0, <1>1, <2>1, HeldFacts DEF Places, InStep, SwapByPlace, AccountByPlace, ListFits, Open
    <2> QED
      BY <1>0, <1>1, <2>1, <2>3, <2>4, HeldFacts DEF Holds, TypeOK
  <1>2. CASE /\ task' \in {"take", "orders"} /\ OneSwap(todo') /\ pc' = "next" /\ UNCHANGED st
    <2>1. ListFits'
      BY <1>0, <1>2 DEF ListFits, OneSwap, Open
    <2>2. Places'
      BY <1>0, <1>2, <2>1, HeldFacts DEF Places, InStep, SwapByPlace, AccountByPlace, Open
    <2>3. todo' \in Seq([what : {"Buy", "Sell"}, lot : Nat, least : Int])
      BY <1>2 DEF OneSwap, Swaps
    <2> QED
      BY <1>0, <1>2, <2>2, <2>3, MoneySame, HeldFacts DEF Holds, TypeOK
  <1>3. CASE pc' = "end" /\ UNCHANGED <<st, task, todo>>
    <2>1. Places'
      BY <1>0, <1>3, HeldFacts DEF Places, InStep, SwapByPlace, AccountByPlace, ListFits, Open
    <2> QED
      BY <1>0, <1>3, <2>1, MoneySame, HeldFacts DEF Holds, TypeOK
  <1> QED
    BY <1>1, <1>2, <1>3, OneSale, OneOrder DEF Decide

LEMMA HeldNextOrder == OnePart /\ Held /\ NextOrder => Holds
  <1> SUFFICES ASSUME OnePart, Held, NextOrder PROVE Holds
    OBVIOUS
  <1> DEFINE o == Head(todo)
             amount == IF o.what = "Sell" THEN st.lots[o.lot].sol
                       ELSE Min2(Min2(Part, st.cash), wallet.usdc)
  <1>0. /\ pc = "next" /\ todo # <<>> /\ todo' = Tail(todo)
        /\ UNCHANGED <<run, task, passAge, wallet, flight, traded, swaps, wishes, stops>>
        /\ UNCHANGED chain /\ flight = {} /\ ~st.ended /\ ~saved.ended
        /\ todo \in Seq(Swaps)
    BY HeldFacts, NothingElse DEF NextOrder, chain, counts, TypeOK, Swaps
  <1>1. /\ Len(todo) = 1 /\ task \in {"take", "orders"} /\ ~Open(st)
        /\ todo[1].what = "Buy" => st.lots = <<>>
    BY <1>0, HeldFacts DEF ListFits
  <1>2. o \in Swaps /\ todo' = <<>> /\ o = todo[1]
    BY <1>0, <1>1
  <1>3. st.funded
    BY <1>1, HeldFacts DEF AccountByPlace
  <1>4. \/ (o.what = "Sell" /\ o.lot \notin DOMAIN st.lots /\ UNCHANGED <<memory, pc, call>>)
        \/ (~(o.what = "Sell" /\ o.lot \notin DOMAIN st.lots) /\ Act(o.what, o.lot, 0, amount, o.least))
    BY DEF NextOrder
  <1>5. o.what \in {"Buy", "Sell"} /\ o.lot \in Nat /\ o.least \in Int
        /\ (o.what = "Buy" => st.lots = <<>>)
    BY <1>1, <1>2 DEF Swaps
  <1> HIDE DEF o
  <1>6. CASE UNCHANGED <<memory, pc, call>>
    <2>1. Places'
      BY <1>0, <1>1, <1>2, <1>6, HeldFacts DEF memory, Places, InStep, SwapByPlace, AccountByPlace, ListFits, Open
    <2>2. todo' \in Seq([what : {"Buy", "Sell"}, lot : Nat, least : Int])
      BY <1>2
    <2> QED
      BY <1>0, <1>6, <2>1, <2>2, MoneySame, HeldFacts DEF memory, Holds, TypeOK
  <1>7. CASE ~(o.what = "Sell" /\ o.lot \notin DOMAIN st.lots) /\ Act(o.what, o.lot, 0, amount, o.least)
    <2>1. amount \in Int
          /\ (o.what = "Buy" => amount <= st.cash)
          /\ (o.what = "Sell" => st.lots # <<>> /\ o.lot = 1 /\ amount = LotSol(st))
      <3>1. CASE o.what = "Buy"
        <4>1. amount = Min2(Min2(st.cash, st.cash), wallet.usdc)
          BY <3>1 DEF Part, OnePart
        <4> QED
          BY <3>1, <4>1, HeldFacts, Numbers DEF Min2
      <3>2. CASE o.what = "Sell"
        <4>1. st.lots # <<>> /\ o.lot = 1
          BY <1>7, <3>2, HeldFacts, OneLot DEF Counts
        <4>2. amount = LotSol(st)
          BY <3>2, <4>1 DEF LotSol
        <4> QED
          BY <3>2, <4>1, <4>2, HeldFacts, LotNumbers
      <3> QED
        BY <1>5, <3>1, <3>2
    <2> HIDE DEF amount
    <2>2. /\ Money' /\ Places' /\ pc' \in {"swap", "back"} /\ st' \in States /\ saved' \in States
          /\ call' \in [amount : Nat, least : Int]
      <3>1. /\ o.what \in {"Fund", "Buy", "Sell", "Raise"} /\ 0 \in Nat
            /\ o.what = "Fund" => ~st.funded
            /\ o.what = "Raise" => st.funded
            /\ o.what = "Buy" => st.funded /\ st.lots = <<>> /\ amount <= st.cash
            /\ task' \in {"fund", "raise", "take", "taken", "orders", "stop", "close"}
            /\ task' = "fund" => o.what = "Fund"
            /\ task' \in {"take", "taken", "orders"} => st.funded
        BY <1>0, <1>1, <1>3, <1>5, <2>1
      <3> QED
        BY <1>0, <1>1, <1>2, <1>5, <1>7, <2>1, <3>1, ActPlaces
    <2>3. todo' \in Seq([what : {"Buy", "Sell"}, lot : Nat, least : Int])
      BY <1>2
    <2> QED
      BY <1>0, <2>2, <2>3, HeldFacts DEF Holds, TypeOK
  <1> QED
    BY <1>4, <1>6, <1>7

LEMMA HeldListDone == OnePart /\ Held /\ ListDone => Holds
  <1> SUFFICES ASSUME OnePart, Held, ListDone PROVE Holds
    OBVIOUS
  <1>0. /\ pc = "next" /\ task \in {"take", "taken", "orders"} /\ st.funded
        /\ UNCHANGED <<st, saved, run, call, passAge, wallet, flight, traded, swaps, wishes, stops>>
        /\ ~st.ended /\ ~saved.ended
    BY HeldFacts DEF ListDone, memory, chain, counts, AccountByPlace
  <1>1. CASE task' = "orders" /\ OneSwap(todo') /\ ~Open(st) /\ pc' = pc
    <2>1. ListFits'
      BY <1>0, <1>1 DEF ListFits, OneSwap, Open
    <2>2. Places'
      BY <1>0, <1>1, <2>1, HeldFacts DEF Places, InStep, SwapByPlace, AccountByPlace, Open
    <2>3. todo' \in Seq([what : {"Buy", "Sell"}, lot : Nat, least : Int])
      BY <1>1 DEF OneSwap, Swaps
    <2> QED
      BY <1>0, <1>1, <2>2, <2>3, MoneySame, HeldFacts DEF Holds, TypeOK
  <1>2. CASE pc' = "end" /\ todo' = <<>> /\ UNCHANGED task
    <2>1. Places'
      BY <1>0, <1>2, HeldFacts DEF Places, InStep, SwapByPlace, AccountByPlace, ListFits, Open
    <2> QED
      BY <1>0, <1>2, <2>1, MoneySame, HeldFacts DEF Holds, TypeOK
  <1> QED
    BY <1>1, <1>2, OneOrder DEF ListDone

\* sell_all ends a run only with no lot and no open swap.
LEMMA HeldSellAll == Held /\ SellAll => Holds
  <1> SUFFICES ASSUME Held, SellAll PROVE Holds
    OBVIOUS
  <1>0. /\ pc = "next" /\ task \in {"stop", "close"}
        /\ UNCHANGED <<run, task, todo, passAge, wallet, flight, traded, swaps, wishes, stops>>
        /\ UNCHANGED chain /\ ~Open(st) /\ flight = {} /\ ~st.ended /\ ~saved.ended /\ todo = <<>>
    BY HeldFacts, NothingElse DEF SellAll, chain, counts, SwapByPlace, ListFits
  <1>1. CASE st.lots = <<>> /\ st' = [st EXCEPT !.ended = TRUE] /\ pc' = "end" /\ UNCHANGED <<saved, call>>
    <2>1. /\ st' \in States /\ st'.funded = st.funded /\ st'.cash = st.cash /\ st'.lots = st.lots
          /\ st'.net = st.net /\ st'.budget = st.budget /\ st'.ended
          /\ st'.pending = st.pending
      BY <1>1, HeldFacts DEF States
    <2>2. Counts(st)' /\ Counts(saved)'
      BY <1>0, <1>1, <2>1, HeldFacts DEF Counts, Open, LotUsd
    <2>3. Money'
      BY <1>0, <2>1, <2>2, PlainMoney, HeldFacts
    <2>4. Places'
      BY <1>0, <1>1, <2>1, HeldFacts DEF Places, InStep, SwapByPlace, AccountByPlace, ListFits, Open
    <2> QED
      BY <1>0, <1>1, <2>1, <2>3, <2>4, HeldFacts DEF Holds, TypeOK
  <1>2. CASE st.lots # <<>> /\ Act("Sell", Len(st.lots), 0, st.lots[Len(st.lots)].sol, 0)
    <2>1. Len(st.lots) = 1
      BY <1>2, HeldFacts, OneLot DEF Counts
    <2>2. Act("Sell", 1, 0, LotSol(st), 0) /\ LotSol(st) \in Int
      BY <1>2, <2>1, HeldFacts, LotNumbers DEF LotSol
    <2>3. /\ Money' /\ Places' /\ pc' \in {"swap", "back"} /\ st' \in States /\ saved' \in States
          /\ call' \in [amount : Nat, least : Int]
      <3>1. 1 \in Nat /\ 0 \in Nat /\ 0 \in Int /\ "Sell" \in {"Fund", "Buy", "Sell", "Raise"}
        OBVIOUS
      <3>2. pc \in {"fund", "next", "idle"} /\ UNCHANGED <<passAge, chain>> /\ todo' = <<>>
        BY <1>0
      <3>3. /\ task' \in {"fund", "raise", "take", "taken", "orders", "stop", "close"}
            /\ task' # "fund" /\ task' \notin {"take", "taken", "orders"}
        BY <1>0
      <3>4. ~Open(st) /\ st.lots # <<>>
        BY <1>0, <1>2
      <3> QED
        BY <2>2, <3>1, <3>2, <3>3, <3>4, ActPlaces
    <2> QED
      BY <1>0, <2>3, HeldFacts DEF Holds, TypeOK
  <1> QED
    BY <1>1, <1>2 DEF SellAll

LEMMA HeldEndPass == Held /\ EndPass => Holds
  <1> SUFFICES ASSUME Held, EndPass PROVE Holds
    OBVIOUS
  <1>0. /\ pc = "end" /\ saved' = st
        /\ UNCHANGED <<st, run, wallet, flight, traded, swaps, wishes, stops>>
        /\ UNCHANGED chain /\ flight = {}
        /\ task' = "none" /\ todo' = <<>> /\ passAge' = 0
        /\ pc' \in {"off", "idle"} /\ (st.ended => pc' = "off")
        /\ call' \in [amount : Nat, least : Int]
    BY HeldFacts, NothingElse DEF EndPass, Idle, chain, counts, TypeOK
  <1>1. Money'
    BY <1>0, HeldFacts DEF Money, SwapFits, Counts, Books, Moved, OneInFlight, Open, Unmoved, Landed,
       LotSol, LotUsd
  <1>2. Places'
    BY <1>0, HeldFacts DEF Places, InStep, SwapByPlace, AccountByPlace, ListFits, Open
  <1> QED
    BY <1>0, <1>1, <1>2, HeldFacts, TraderAssumption DEF Holds, TypeOK

LEMMA HeldReconcile == Held /\ Reconcile => Holds
  <1> SUFFICES ASSUME Held, Reconcile PROVE Holds
    OBVIOUS
  <1>0. /\ pc = "idle" /\ Open(st) /\ saved' = st' /\ flight = {} /\ UNCHANGED chain /\ todo = <<>>
        /\ UNCHANGED <<run, pc, task, todo, call, passAge, wallet, flight, traded, swaps, wishes, stops>>
    BY HeldFacts, NothingElse DEF Reconcile, where, chain, counts
  <1>1. /\ Money' /\ st' \in States /\ saved' \in States /\ ~Open(st')
        /\ (st.funded => st'.funded) /\ ~st'.ended
    <2>1. CASE Shows(st) /\ st' = Cleared(Booked(st))
      BY <1>0, <2>1, BookedMoney, HeldFacts
    <2>2. CASE ~Shows(st) /\ st' = Cleared(st)
      <3>1. Unmoved(st, wallet)
        <4>1. /\ st \in States /\ Len(st.lots) <= 1 /\ wallet \in [sol : Int, usdc : Int]
              /\ st.pending.what = "Sell" => st.lots # <<>> /\ st.pending.lot = 1
              /\ Unmoved(st, wallet) \/ Landed(st, wallet)
          BY <1>0, HeldFacts DEF Money, SwapFits, Counts, TypeOK
        <4> QED
          BY <1>0, <2>2, <4>1, ShowsLanded
      <3> QED
        BY <1>0, <2>2, <3>1, ClearedMoney, HeldFacts
    <2> QED
      BY <2>1, <2>2 DEF Reconcile
  <1>2. Places'
    BY <1>0, <1>1, HeldFacts DEF Places, InStep, SwapByPlace, AccountByPlace, ListFits, Open
  <1> QED
    BY <1>0, <1>1, <1>2, HeldFacts DEF Holds, TypeOK

LEMMA HeldBegin == Held /\ Begin => Holds
  <1> SUFFICES ASSUME Held, Begin PROVE Holds
    OBVIOUS
  <1>0. /\ pc = "idle" /\ ~Open(st) /\ ~st.ended /\ ~saved.ended /\ todo = <<>>
        /\ UNCHANGED <<st, saved, run, todo, call, passAge, wallet, flight, traded, swaps, wishes, stops>>
        /\ \/ pc' = "next" /\ task' = "close"
           \/ pc' = (IF st.funded THEN "decide" ELSE "fund") /\ task' = "fund"
    BY HeldFacts DEF Begin, memory, chain, counts
  <1>1. Places'
    BY <1>0, HeldFacts DEF Places, InStep, SwapByPlace, AccountByPlace, ListFits, Open
  <1>2. pc' \in {"next", "decide", "fund"} /\ task' \in {"close", "fund"}
    BY <1>0
  <1> QED
    BY <1>0, <1>1, <1>2, MoneySame, HeldFacts DEF Holds, TypeOK

LEMMA HeldCloseGivesUp == Held /\ CloseGivesUp => Holds
  <1> SUFFICES ASSUME Held, CloseGivesUp PROVE Holds
    OBVIOUS
  <1>0. /\ pc = "idle" /\ pc' = "off" /\ saved' = saved /\ todo = <<>>
        /\ UNCHANGED <<st, run, task, todo, call, passAge, wallet, flight, traded, swaps, wishes, stops>>
    BY HeldFacts DEF CloseGivesUp, chain, counts, InStep
  <1>1. Places'
    BY <1>0, HeldFacts DEF Places, InStep, SwapByPlace, AccountByPlace, ListFits, Open
  <1> QED
    BY <1>0, <1>1, MoneySame, HeldFacts DEF Holds, TypeOK

LEMMA HeldStop == Held /\ Stop => Holds
  <1> SUFFICES ASSUME Held, Stop PROVE Holds
    OBVIOUS
  <1>0. /\ pc' = "off" /\ task' = "none" /\ todo' = <<>> /\ passAge' = 0 /\ stops' = stops + 1
        /\ st' = saved /\ saved' = saved
        /\ call' = [amount |-> 0, least |-> 0] /\ UNCHANGED <<run, wallet, flight, traded, swaps, wishes>>
    BY DEF Stop, chain
  <1>1. /\ saved.pending = st.pending /\ saved.lots = st.lots /\ saved.net = st.net
        /\ saved.budget = st.budget /\ (Open(st) => st = saved)
    BY HeldFacts DEF InStep
  <1>2. Counts(st)' /\ Counts(saved)'
    BY <1>0, HeldFacts DEF Counts, Open, LotUsd
  <1>3. SwapFits'
    BY <1>0, <1>1, HeldFacts DEF Money, SwapFits, Open, Unmoved, Landed, LotSol
  <1>4. Books'
    BY <1>0, <1>1, HeldFacts DEF Money, Books, Moved, LotSol, LotUsd
  <1>5. OneInFlight'
    <2>1. flight # {} => Open(st)
      BY <1>1, HeldFacts DEF InTheAir, Open
    <2>2. flight # {} => st = saved
      BY <1>1, <2>1
    <2> QED
      BY <1>0, <2>2, HeldFacts DEF Money, OneInFlight, Unmoved, Landed, After, LotSol
  <1>6. Places'
    BY <1>0 DEF Places, InStep, SwapByPlace, AccountByPlace, ListFits, Open
  <1>7. call' \in [amount : Nat, least : Int]
    BY <1>0
  <1> QED
    BY <1>0, <1>2, <1>3, <1>4, <1>5, <1>6, <1>7, HeldFacts, TraderAssumption DEF Holds, TypeOK, Money

LEMMA HeldStart == ASSUME Held, NEW r \in {"trade", "close"}, Start(r) PROVE Holds
  <1>0. /\ pc = "off" /\ pc' = "idle" /\ task' = "none" /\ todo' = <<>> /\ passAge' = 0
        /\ st' = saved /\ saved' = saved /\ st = saved /\ run' = r /\ ~saved.ended
        /\ call' = [amount |-> 0, least |-> 0]
        /\ UNCHANGED <<wallet, flight, traded, swaps, wishes, stops>>
    BY HeldFacts DEF Start, Idle, chain, counts, InStep
  <1>1. Places'
    BY <1>0 DEF Places, InStep, SwapByPlace, AccountByPlace, ListFits, Open
  <1>2. Money'
    BY <1>0, MoneySame, HeldFacts
  <1>3. call' \in [amount : Nat, least : Int]
    BY <1>0
  <1> QED
    BY <1>0, <1>1, <1>2, <1>3, HeldFacts, TraderAssumption DEF Holds, TypeOK

LEMMA HeldLand == ASSUME Held, NEW t \in flight, Land(t) \/ Fail(t) PROVE Holds
  <1>0. Open(st) /\ Open(saved)
    BY HeldFacts DEF InTheAir, InStep, Open
  <1>1. /\ Money' /\ flight' = {}
        /\ wallet' \in [sol : Int, usdc : Int] /\ traded' \in [sol : Int, usdc : Int]
    <2>1. CASE Land(t)
      BY <1>0, <2>1, LandMoney, HeldFacts
    <2>2. CASE Fail(t)
      BY <2>2, FailMoney, HeldFacts DEF Fail, TypeOK
    <2> QED
      BY <2>1, <2>2
  <1>2. /\ UNCHANGED <<st, saved, run, pc, task, todo, call, passAge, swaps, wishes, stops>>
        /\ pc \in {"deliver", "off"}
    BY HeldFacts DEF Land, Fail, memory, where, counts, InTheAir
  <1>3. Places'
    BY <1>2, HeldFacts DEF Places, InStep, SwapByPlace, AccountByPlace, ListFits, Open
  <1> QED
    BY <1>1, <1>2, <1>3, HeldFacts DEF Holds, TypeOK

LEMMA HeldTick == Held /\ Tick => Holds
  <1> SUFFICES ASSUME Held, Tick PROVE Holds
    OBVIOUS
  <1>0. /\ st' = OlderState(st) /\ saved' = OlderState(saved)
        /\ UNCHANGED <<run, pc, task, todo, call, wallet, traded, swaps, wishes, stops>>
    BY DEF Tick, counts
  <1>1. /\ Money' /\ st' \in States /\ saved' \in States
        /\ flight' \subseteq [what : {"Fund", "Buy", "Sell", "Raise"}, left : 1..Life, sol : Int, usdc : Int]
        /\ passAge' \in 0..SettledAfter
    BY TickMoney, HeldFacts
  <1>2. /\ st'.cash = st.cash /\ st'.lots = st.lots /\ st'.net = st.net /\ st'.budget = st.budget
        /\ st'.funded = st.funded /\ st'.ended = st.ended
        /\ st'.pending.what = st.pending.what
        /\ st'.pending.sol = st.pending.sol /\ st'.pending.usdc = st.pending.usdc
        /\ saved'.lots = saved.lots /\ saved'.net = saved.net /\ saved'.budget = saved.budget
        /\ saved'.ended = saved.ended
    BY <1>0, OlderSame, HeldFacts
  <1>3. Open(st') = Open(st)
    BY <1>2 DEF Open
  <1>4. st'.pending = saved'.pending
    <2>1. st.pending = saved.pending /\ (Open(st) <=> Open(saved))
      BY HeldFacts DEF InStep, Open
    <2>2. CASE Open(st)
      <3>1. st = saved
        BY <2>2, HeldFacts DEF InStep
      <3> QED
        BY <3>1, <1>0
    <2>3. CASE ~Open(st)
      BY <2>1, <2>3, <1>0 DEF OlderState
    <2> QED
      BY <2>2, <2>3
  <1>5. InStep'
    BY <1>0, <1>2, <1>3, <1>4, HeldFacts DEF InStep, Open
  <1>6. SwapByPlace' /\ AccountByPlace' /\ ListFits'
    BY <1>0, <1>2, <1>3, HeldFacts DEF SwapByPlace, AccountByPlace, ListFits, Open, Unmoved, LotSol
  <1> QED
    BY <1>0, <1>1, <1>5, <1>6, HeldFacts DEF Holds, TypeOK, Places

LEMMA HeldWish == ASSUME Held, NEW to \in Budgets, Wish(to) PROVE Holds
  <1>0. /\ pc = "idle" /\ ~Open(st) /\ ~st.ended /\ ~saved.ended /\ flight = {} /\ UNCHANGED chain
        /\ st = saved /\ todo = <<>> /\ wishes' = wishes + 1
        /\ UNCHANGED <<run, todo, passAge, wallet, flight, traded, swaps, stops>>
    BY HeldFacts, NothingElse DEF Wish, chain, InStep
  <1>1. to \in Nat /\ to # 0
    BY TraderAssumption
  <1> DEFINE more == to - st.budget
             free == Max2(wallet.usdc - st.cash, 0)
  <1>2. /\ more \in Int /\ free \in Nat /\ st.cash + free = wallet.usdc
        /\ st.cash \in Nat /\ st.budget \in Nat /\ st.budget # 0 /\ st.net \in Int /\ LotUsd(st) \in Nat
        /\ st.cash + LotUsd(st) <= st.budget + st.net /\ st.cash <= wallet.usdc /\ wallet.usdc \in Int
    <2>1. st.cash <= wallet.usdc /\ st.cash + LotUsd(st) <= st.budget + st.net
      BY <1>0, HeldFacts DEF Counts
    <2>2. st.cash \in Nat /\ wallet.usdc \in Int /\ st.net \in Int /\ LotUsd(st) \in Nat
          /\ st.budget \in Nat /\ st.budget # 0
      BY HeldFacts, Numbers, LotNumbers, StateFields
    <2> QED
      BY <1>1, <2>1, <2>2 DEF Max2
  <1>3. CASE \E c \in Nat, b \in Nat \ {0} :
               /\ st' = [st EXCEPT !.cash = c, !.budget = b] /\ saved' = st'
               /\ UNCHANGED <<pc, task, call>>
               /\ ~st.funded => c = st.cash
               /\ c <= wallet.usdc /\ c + LotUsd(st) <= b + st.net
    <2> PICK c \in Nat, b \in Nat \ {0} :
               /\ st' = [st EXCEPT !.cash = c, !.budget = b] /\ saved' = st'
               /\ UNCHANGED <<pc, task, call>>
               /\ ~st.funded => c = st.cash
               /\ c <= wallet.usdc /\ c + LotUsd(st) <= b + st.net
      BY <1>3
    <2>1. /\ st' \in States /\ st'.cash = c /\ st'.budget = b /\ st'.funded = st.funded
          /\ st'.lots = st.lots /\ st'.net = st.net /\ st'.ended = st.ended
          /\ st'.pending = st.pending
      BY HeldFacts DEF States
    <2>2. Counts(st)'
      <3>1. LotUsd(st)' = LotUsd(st)
        BY <2>1 DEF LotUsd
      <3>2. Len(st.lots) <= 1 /\ (~st.funded => st.cash = 0 /\ st.lots = <<>> /\ st.net = 0)
        BY HeldFacts DEF Counts
      <3>3. c + LotUsd(st)' <= b + st.net
        BY <3>1
      <3> QED
        BY <1>0, <2>1, <3>2, <3>3 DEF Counts, Open
    <2>3. Counts(saved)'
      BY <2>2 DEF Counts, Open, LotUsd
    <2>4. Money'
      BY <1>0, <2>1, <2>2, <2>3, PlainMoney, HeldFacts
    <2>5. Places'
      BY <1>0, <2>1, HeldFacts DEF Places, InStep, SwapByPlace, AccountByPlace, ListFits, Open
    <2> QED
      BY <1>0, <2>1, <2>4, <2>5, HeldFacts DEF Holds, TypeOK
  <1>4. CASE Act("Raise", 0, to, more - free, 0) /\ task' = "raise" /\ st.funded
    <2>1. more - free \in Int
      BY <1>2
    <2>2. /\ 0 \in Nat /\ 0 \in Int /\ "Raise" \in {"Fund", "Buy", "Sell", "Raise"}
          /\ pc \in {"fund", "next", "idle"} /\ UNCHANGED <<passAge, chain>> /\ todo' = <<>>
          /\ task' \in {"fund", "raise", "take", "taken", "orders", "stop", "close"}
          /\ task' # "fund" /\ task' \notin {"take", "taken", "orders"}
      BY <1>0, <1>4
    <2> HIDE DEF more, free
    <2>3. /\ Money' /\ Places' /\ pc' \in {"swap", "back"} /\ st' \in States /\ saved' \in States
          /\ call' \in [amount : Nat, least : Int]
      <3>1. ~Open(st)
        BY <1>0
      <3> QED
        BY <1>1, <1>4, <2>1, <2>2, <3>1, ActPlaces
    <2> QED
      BY <1>0, <1>4, <2>3, HeldFacts DEF Holds, TypeOK
  <1>5. \/ ~st.funded /\ st' = [st EXCEPT !.budget = to] /\ saved' = st' /\ UNCHANGED <<pc, task, call>>
        \/ /\ st.funded /\ more < 0 /\ st.cash >= -more /\ st' = Lower(to)
           /\ saved' = st' /\ UNCHANGED <<pc, task, call>>
        \/ /\ st.funded /\ more > 0
           /\ st' = [st EXCEPT !.cash = @ + Min2(more, free), !.budget = @ + Min2(more, free)]
           /\ saved' = st' /\ UNCHANGED <<pc, task, call>>
        \/ Act("Raise", 0, to, more - free, 0) /\ task' = "raise" /\ st.funded
    BY DEF Wish
  <1>6. ASSUME ~st.funded, st' = [st EXCEPT !.budget = to], saved' = st', UNCHANGED <<pc, task, call>>
        PROVE  Holds
    <2>1. st' = [st EXCEPT !.cash = st.cash, !.budget = to]
      BY <1>6, HeldFacts DEF States
    <2>2. st.cash = 0 /\ st.lots = <<>> /\ st.net = 0 /\ LotUsd(st) = 0
      BY <1>6, HeldFacts DEF Counts, LotUsd
    <2>3. st.cash + LotUsd(st) <= to + st.net
      BY <1>1, <2>2
    <2> QED
      BY <1>1, <1>2, <1>3, <1>6, <2>1, <2>3
  <1>7. ASSUME st.funded, more < 0, st.cash >= -more, st' = Lower(to), saved' = st',
               UNCHANGED <<pc, task, call>>
        PROVE  Holds
    <2> DEFINE left == st.cash + more
    <2>1. left \in Nat /\ left <= wallet.usdc /\ left + LotUsd(st) <= to + st.net
      BY <1>1, <1>2, <1>7
    <2>2. Max2(st.cash - (st.budget - to), 0) = left
      BY <1>1, <1>2, <1>7 DEF Max2
    <2>3. st' = [st EXCEPT !.cash = left, !.budget = to]
      BY <1>7, <2>2, HeldFacts DEF Lower, States
    <2> QED
      BY <1>1, <1>3, <1>7, <2>1, <2>3
  <1>8. ASSUME st.funded, more > 0, saved' = st', UNCHANGED <<pc, task, call>>,
               st' = [st EXCEPT !.cash = @ + Min2(more, free), !.budget = @ + Min2(more, free)]
        PROVE  Holds
    <2> DEFINE got == Min2(more, free)
    <2>1. got \in Nat /\ got <= free
      BY <1>2, <1>8 DEF Min2
    <2>2. st' = [st EXCEPT !.cash = st.cash + got, !.budget = st.budget + got]
      BY <1>8, HeldFacts DEF States
    <2> HIDE DEF got
    <2>3. /\ st.cash + got \in Nat /\ st.budget + got \in Nat /\ st.budget + got # 0
          /\ st.cash + got <= wallet.usdc
          /\ (st.cash + got) + LotUsd(st) <= (st.budget + got) + st.net
      <3> HIDE DEF more, free
      <3> QED
        BY <1>2, <2>1
    <2> QED
      BY <1>3, <1>8, <2>2, <2>3
  <1> QED
    BY <1>4, <1>5, <1>6, <1>7, <1>8

----------------------------------------------------------------------------
(* The account of a rule in one part, in every state *)

LEMMA HeldInit == Init => Held
  <1> SUFFICES ASSUME Init PROVE Held
    OBVIOUS
  <1>1. PICK b \in Budgets : st = NewState(b) /\ saved = NewState(b)
    BY DEF Init
  <1>2. b \in Nat /\ b # 0 /\ InitUsdc \in Nat /\ InitSol \in Nat
    BY TraderAssumption
  <1>3. st \in States /\ saved = st
    <2>1. NoPending \in Pendings
      BY TraderAssumption DEF NoPending, Pendings
    <2>2. <<>> \in Seq(Lots)
      OBVIOUS
    <2> QED
      BY <1>1, <1>2, <2>1, <2>2 DEF NewState, States
  <1>4. /\ st.cash = 0 /\ st.lots = <<>> /\ st.net = 0 /\ st.budget = b /\ ~st.funded /\ ~st.ended
        /\ ~Open(st) /\ ~Moved
    BY <1>1 DEF NewState, Open, NoPending, Moved
  <1>5. /\ run = "trade" /\ pc = "off" /\ task = "none" /\ todo = <<>>
        /\ call = [amount |-> 0, least |-> 0] /\ passAge = 0
        /\ wallet = [sol |-> InitSol, usdc |-> InitUsdc]
        /\ flight = {} /\ traded = [sol |-> 0, usdc |-> 0]
        /\ swaps = 0 /\ wishes = 0 /\ stops = 0
    BY DEF Init
  <1>6. TypeOK
    <2>1. todo \in Seq([what : {"Buy", "Sell"}, lot : Nat, least : Int])
      BY <1>5
    <2>2. passAge \in 0..SettledAfter
      BY <1>5, TraderAssumption
    <2> QED
      BY <1>2, <1>3, <1>5, <2>1, <2>2 DEF TypeOK
  <1>7. Shape /\ InTheAir
    BY SealedInit
  <1>8. LotSol(st) = 0 /\ LotUsd(st) = 0 /\ Len(st.lots) <= 1
    BY <1>4 DEF LotSol, LotUsd
  <1>9. Counts(st)
    <2>1. wallet.usdc = InitUsdc
      BY <1>5
    <2>2. st.cash + LotUsd(st) <= st.budget + st.net /\ st.cash <= wallet.usdc
      BY <1>2, <1>4, <1>8, <2>1
    <2> QED
      BY <1>4, <1>8, <2>2 DEF Counts
  <1>10. Books
    <2>1. wallet.usdc = InitUsdc /\ traded.sol = 0 /\ traded.usdc = 0
      BY <1>5
    <2> QED
      BY <1>2, <1>4, <1>8, <2>1 DEF Books
  <1>11. Money
    BY <1>3, <1>4, <1>5, <1>9, <1>10 DEF Money, SwapFits, OneInFlight
  <1>12. Places
    BY <1>3, <1>4, <1>5 DEF Places, InStep, SwapByPlace, AccountByPlace, ListFits
  <1> QED
    BY <1>6, <1>7, <1>11, <1>12 DEF Held

LEMMA HeldUnchanged == Held /\ UNCHANGED vars => Held'
  <1> SUFFICES ASSUME Held, UNCHANGED vars PROVE Held'
    OBVIOUS
  <1>1. /\ st' = st /\ saved' = saved /\ run' = run /\ pc' = pc /\ task' = task /\ todo' = todo
        /\ call' = call /\ passAge' = passAge /\ wallet' = wallet /\ flight' = flight
        /\ traded' = traded /\ swaps' = swaps /\ wishes' = wishes /\ stops' = stops
    BY DEF vars, memory, where, chain, counts
  <1>2. TypeOK'
    BY <1>1, HeldFacts DEF TypeOK
  <1>3. Shape' /\ InTheAir'
    BY <1>1, HeldFacts DEF Shape, Aged, InTheAir, Open
  <1>4. SwapFits'
    BY <1>1, HeldFacts DEF Money, SwapFits, Unmoved, Landed, LotSol, Open
  <1>5. Counts(st)' /\ Counts(saved)'
    BY <1>1, HeldFacts DEF Counts, LotUsd, Open
  <1>6. Books'
    BY <1>1, HeldFacts DEF Money, Books, Moved, LotSol, LotUsd
  <1>7. OneInFlight'
    BY <1>1, HeldFacts DEF Money, OneInFlight, Unmoved, Landed, After, LotSol
  <1>8. Places'
    BY <1>1, HeldFacts DEF Places, InStep, SwapByPlace, AccountByPlace, ListFits, Open, Unmoved, LotSol
  <1> QED
    BY <1>2, <1>3, <1>4, <1>5, <1>6, <1>7, <1>8 DEF Held, Money

\* Every step of the run keeps what holds between two steps.
LEMMA HeldStep ==
    ASSUME InTime, OnePart, Held, [Next]_vars
    PROVE  Held'
  <1>1. CASE UNCHANGED vars
    BY <1>1, HeldUnchanged
  <1>2. CASE Next
    <2>1. Shape' /\ InTheAir'
      BY SealedStep DEF Held
    <2>2. CASE Pass
      <3>1. Holds
        BY <2>2, HeldNotTried, HeldNotSent, HeldHandOver, HeldDeliverEnds, HeldLookSettles,
           HeldLooksEnd, HeldFund, HeldDecide, HeldNextOrder, HeldListDone, HeldSellAll, HeldEndPass
           DEF Pass
      <3> QED
        BY <2>1, <3>1 DEF Held, Holds
    <2>3. CASE Reconcile \/ Begin \/ Stop \/ CloseGivesUp \/ Tick
      <3>1. Holds
        BY <2>3, HeldReconcile, HeldBegin, HeldStop, HeldCloseGivesUp, HeldTick
      <3> QED
        BY <2>1, <3>1 DEF Held, Holds
    <2>4. ASSUME NEW r \in {"trade", "close"}, Start(r) PROVE Held'
      BY <2>1, <2>4, HeldStart DEF Held, Holds
    <2>5. ASSUME NEW to \in Budgets, Wish(to) PROVE Held'
      BY <2>1, <2>5, HeldWish DEF Held, Holds
    <2>6. ASSUME NEW t \in flight, Land(t) \/ Fail(t) PROVE Held'
      BY <2>1, <2>6, HeldLand DEF Held, Holds
    <2> QED
      BY <1>2, <2>2, <2>3, <2>4, <2>5, <2>6 DEF Next
  <1> QED
    BY <1>1, <1>2

LEMMA HeldAccount == Held => AccountHolds
  <1> SUFFICES ASSUME Held PROVE AccountHolds
    OBVIOUS
  <1>1. Sol(st) = LotSol(st) /\ Paid(st) = LotUsd(st)
    BY HeldFacts, SumsOfOne DEF Counts
  <1>2. BooksMatch
    <2> SUFFICES ASSUME ~Open(st)
                 PROVE  traded = [sol |-> Sol(st), usdc |-> st.net - Paid(st)]
      BY DEF BooksMatch
    <2>1. traded.sol = LotSol(st) + 0 /\ traded.usdc = st.net - LotUsd(st) + 0
      BY HeldFacts DEF Money, Books, Moved, Open
    <2>2. LotSol(st) \in Int /\ LotUsd(st) \in Int /\ st.net \in Int
      BY HeldFacts, LotNumbers, StateFields
    <2>3. traded.sol = LotSol(st) /\ traded.usdc = st.net - LotUsd(st)
      BY <2>1, <2>2
    <2>4. traded = [sol |-> traded.sol, usdc |-> traded.usdc]
      BY HeldFacts DEF TypeOK
    <2> QED
      BY <1>1, <2>3, <2>4
  <1>3. CashIsThere
    BY HeldFacts DEF CashIsThere, Counts
  <1>4. WithinBudget
    BY <1>1, HeldFacts DEF WithinBudget, Counts
  <1>5. EndedHoldsNothing
    <2> SUFFICES ASSUME saved.ended
                 PROVE  traded.sol = 0 /\ ~Open(saved) /\ flight = {}
      BY DEF EndedHoldsNothing
    <2>1. ~Open(saved) /\ saved.lots = <<>> /\ st = saved
      BY HeldFacts DEF Counts, InStep
    <2>2. flight = {}
      BY <2>1, HeldFacts DEF InTheAir
    <2>3. traded.sol = LotSol(st) + 0 /\ LotSol(st) = 0
      BY <2>1, HeldFacts DEF Money, Books, Moved, Open, LotSol
    <2> QED
      BY <2>1, <2>2, <2>3
  <1> QED
    BY <1>2, <1>3, <1>4, <1>5, HeldFacts DEF AccountHolds

\* settle, reconcile, rebudget and sell_all of a rule in one part: its books
\* are exactly what landed, its USDC is in the wallet and within the budget,
\* and a run that has ended holds nothing.
THEOREM AccountIsKept ==
    ASSUME InTime, OnePart PROVE Spec => []AccountHolds
  <1>1. Held /\ [Next]_vars => Held'
    BY HeldStep
  <1> QED
    BY HeldInit, <1>1, HeldAccount, PTL DEF Spec
=============================================================================
