--------------------------- MODULE OperatorProofs ---------------------------
(***************************************************************************)
(* Proofs about the two pages an operator spends money from, and about the *)
(* orders and swaps outside Solana, each on its own.                       *)
(*                                                                         *)
(*   Purse   only what was reviewed is sent, for any number of requests    *)
(*           and wishes.  What ties the three threads together is counted: *)
(*           a review can be worth one transfer, whether it still waits on *)
(*           the page, is being checked again, or has been handed over.    *)
(*   Screen  keys and clicks do what was drawn, for any trades, bots and   *)
(*           length of the event channel.  What ties the view to the       *)
(*           engine is the channel: of each thing the last event says what *)
(*           the engine has.                                               *)
(*   Exchange  a request arrives in time, with every gate open and on its  *)
(*           terms.  What ties the signature to the exchange's clock is    *)
(*           how long the clock's question took; what ties a swap's fees   *)
(*           to the blocks is that a base fee rises by an eighth.          *)
(***************************************************************************)
EXTENDS Purse, Screen, Exchange, TLAPS


\* A review is used up by the transfer it became, and by nothing else.
Waiting(r) == IF r \in reviewed THEN 1 ELSE 0
Worth == \A r \in Reqs : transferred[r] + dispatch[r] + Waiting(r) <= reviews[r]

\* What is checked or shown as reviewed is what was asked for last.
OfTheLastAsked == view.is \in {"Checking", "Reviewed"} => view.req = asked

Reviewing == TypeOK /\ Worth /\ OfTheLastAsked /\ PageIsAlive

----------------------------------------------------------------------------
(* Views, actions and counts *)

LEMMA ViewIs ==
    ASSUME NEW kind \in Kinds, NEW r \in Reqs
    PROVE  Is(kind, r) \in Views /\ Is(kind, r).is = kind /\ Is(kind, r).req = r
  BY DEF Is, Views

\* A view on which something is under way or offered names a request.
LEMMA ViewNames ==
    ASSUME NEW v \in Views
    PROVE  /\ v.is # "none" => v.req \in Reqs /\ v.is \in Kinds
           /\ \A kind, r : v = Is(kind, r) <=> v.is = kind /\ v.req = r
  BY DEF Views, Empty, Is, Kinds

LEMMA WishIs ==
    ASSUME NEW a \in Actions, a # Clear
    PROVE  a.do \in {"Check", "Send"} /\ a.req \in Reqs
  BY DEF Actions, Clear

LEMMA Counting ==
    ASSUME NEW f \in [Reqs -> Nat], NEW r \in Reqs
    PROVE  /\ One(f, r) \in [Reqs -> Nat] /\ One(f, r)[r] = f[r] + 1
           /\ f[r] > 0 => Less(f, r) \in [Reqs -> Nat] /\ Less(f, r)[r] = f[r] - 1
           /\ \A q \in Reqs \ {r} : One(f, r)[q] = f[q] /\ Less(f, r)[q] = f[q]
  BY DEF One, Less

LEMMA Numbers ==
    ASSUME TypeOK, NEW r \in Reqs
    PROVE  /\ transferred[r] \in Nat /\ dispatch[r] \in Nat /\ reviews[r] \in Nat
           /\ checks[r] \in Nat /\ flying[r] \in Nat /\ Waiting(r) \in {0, 1}
  BY DEF TypeOK, Waiting

\* A queue keeps its kind.
LEMMA Queue ==
    ASSUME NEW S, NEW q \in Seq(S)
    PROVE  /\ \A x \in S : Append(q, x) \in Seq(S)
           /\ q # <<>> => Head(q) \in S /\ Tail(q) \in Seq(S)
  OBVIOUS

LEMMA ReviewingInit == Init => Reviewing
  <1> SUFFICES ASSUME Init PROVE Reviewing
    OBVIOUS
  <1>1. Empty \in Views /\ view = Empty /\ Empty.is = "none"
    BY DEF Init, Views, Empty, Is
  <1>2. ZeroEach \in [Reqs -> Nat] /\ \A r \in Reqs : ZeroEach[r] = 0
    BY DEF ZeroEach
  <1>3. TypeOK
    <2>1. wishes \in Seq(Actions) /\ spawned \in Seq(Actions)
      <3>1. wishes = <<>> /\ spawned = <<>>
        BY DEF Init
      <3> QED
        BY <3>1
    <2>2. view \in Views /\ shown \in Views /\ fetched \in Views /\ asked \in Reqs \cup {NoReq}
      BY <1>1 DEF Init
    <2>3. reviewed \in {{}} \cup {{r} : r \in Reqs} /\ typed \in {""} \cup {r.to : r \in Reqs}
          /\ form \in BOOLEAN
      BY DEF Init
    <2>4. /\ checks \in [Reqs -> Nat] /\ dispatch \in [Reqs -> Nat] /\ flying \in [Reqs -> Nat]
          /\ reviews \in [Reqs -> Nat] /\ transferred \in [Reqs -> Nat] /\ handed \in Nat
      BY <1>2 DEF Init
    <2> QED
      BY <2>1, <2>2, <2>3, <2>4 DEF TypeOK
  <1>4. Worth
    <2>1. reviewed = {} /\ transferred = ZeroEach /\ dispatch = ZeroEach /\ reviews = ZeroEach
      BY DEF Init
    <2>2. \A r \in Reqs : Waiting(r) = 0 /\ transferred[r] = 0 /\ dispatch[r] = 0 /\ reviews[r] = 0
      BY <1>2, <2>1 DEF Waiting
    <2> QED
      <3>1. 0 + 0 + 0 <= 0
        OBVIOUS
      <3>2. \A r \in Reqs : transferred[r] + dispatch[r] + Waiting(r) <= reviews[r]
        BY <2>2, <3>1, Zenon
      <3> QED
        BY <3>2 DEF Worth
  <1> QED
    BY <1>1, <1>3, <1>4 DEF Reviewing, OfTheLastAsked, PageIsAlive

----------------------------------------------------------------------------
(* The page, and the thread that reads the view for it, change nothing that  *)
(* counts.                                                                 *)

Purses == <<view, reviewed, checks, dispatch, flying, asked, reviews, transferred>>

LEMMA PageOnly ==
    ASSUME Reviewing, UNCHANGED Purses, TypeOK'
    PROVE  Reviewing'
  BY DEF Reviewing, Purses, Worth, Waiting, OfTheLastAsked, PageIsAlive

LEMMA PageSteps ==
    ASSUME Reviewing,
           \/ Fetch \/ Store \/ OpenForm \/ AskSend \/ Leave
           \/ \E r \in Reqs : AskCheck(r) \/ Type(r.to)
    PROVE  Reviewing'
  <1> USE DEF vars, page, tasks, history, Purses
  <1>0. TypeOK
    BY DEF Reviewing
  <1>1. ASSUME Fetch \/ Store \/ OpenForm PROVE Reviewing'
    BY <1>0, <1>1, PageOnly DEF Fetch, Store, OpenForm, TypeOK
  <1>2. ASSUME NEW a \in Actions, Wish(a), form' \in BOOLEAN, typed' \in {"", typed} PROVE Reviewing'
    <2>1. wishes' \in Seq(Actions)
      BY <1>0, <1>2, Queue DEF Wish, TypeOK
    <2>2. handed' \in Nat /\ shown' \in Views
      <3>1. handed \in Nat /\ view \in Views /\ handed' = handed + 1 /\ shown' = view
        BY <1>0, <1>2 DEF Wish, TypeOK
      <3> QED
        BY <3>1
    <2> QED
      BY <1>0, <1>2, <2>1, <2>2, PageOnly DEF Wish, TypeOK
  <1>3. CASE AskSend
    <2>1. shown.req \in Reqs
      BY <1>0, <1>3, ViewNames DEF AskSend, TypeOK
    <2>2. [do |-> "Send", req |-> shown.req] \in Actions
      BY <2>1 DEF Actions
    <2> QED
      BY <1>0, <1>2, <1>3, <2>2 DEF AskSend, TypeOK
  <1>4. CASE Leave
    <2>1. Clear \in Actions
      BY DEF Actions, Clear
    <2>2. form' \in BOOLEAN /\ typed' \in {"", typed}
      <3>1. form' = (shown.is \in {"Checking", "Reviewed"})
            /\ typed' = IF shown.is = "Reviewed" THEN "" ELSE typed
        BY <1>4 DEF Leave
      <3>2. (shown.is \in {"Checking", "Reviewed"}) \in BOOLEAN
        OBVIOUS
      <3> QED
        BY <3>1, <3>2
    <2> QED
      BY <1>2, <1>4, <2>1, <2>2 DEF Leave
  <1>5. ASSUME NEW r \in Reqs, AskCheck(r) PROVE Reviewing'
    <2>1. [do |-> "Check", req |-> r] \in Actions
      BY DEF Actions
    <2> QED
      BY <1>0, <1>2, <1>5, <2>1 DEF AskCheck, TypeOK
  <1>6. ASSUME NEW r \in Reqs, Type(r.to) PROVE Reviewing'
    BY <1>0, <1>6, PageOnly DEF Type, TypeOK
  <1> QED
    BY <1>1, <1>3, <1>4, <1>5, <1>6

----------------------------------------------------------------------------
(* The wallet's thread and its tasks *)

LEMMA WishesMove ==
    ASSUME TypeOK
    PROVE  /\ wishes # <<>> => Head(wishes) \in Actions /\ Tail(wishes) \in Seq(Actions)
           /\ wishes # <<>> => Append(spawned, Head(wishes)) \in Seq(Actions)
           /\ spawned # <<>> => Head(spawned) \in Actions /\ Tail(spawned) \in Seq(Actions)
  BY Queue DEF TypeOK

LEMMA ForgetKeeps == Reviewing /\ Forget => Reviewing'
  <1> SUFFICES ASSUME Reviewing, Forget PROVE Reviewing'
    OBVIOUS
  <1>0. TypeOK /\ Worth /\ OfTheLastAsked /\ PageIsAlive
    BY DEF Reviewing
  <1>1. /\ wishes' \in Seq(Actions) /\ UNCHANGED <<spawned, checks, dispatch, flying, form, typed, shown, fetched>>
        /\ UNCHANGED <<asked, reviews, transferred, handed>>
    BY <1>0, WishesMove DEF Forget, tasks, page, history
  <1>2. CASE view.is = "Sending"
    <2>1. UNCHANGED <<view, reviewed>>
      BY <1>2 DEF Forget
    <2>2. TypeOK'
      BY <1>0, <1>1, <2>1 DEF TypeOK
    <2> QED
      BY <1>0, <1>1, <2>1, <2>2, PageOnly DEF Purses
  <1>3. CASE view.is # "Sending"
    <2>1. view' = Empty /\ reviewed' = {}
      BY <1>3 DEF Forget
    <2>2. view'.is = "none" /\ view' \in Views
      BY <2>1 DEF Empty, Is, Views
    <2>3. TypeOK'
      BY <1>0, <1>1, <2>1, <2>2 DEF TypeOK
    <2>4. Worth'
      <3>1. \A r \in Reqs : Waiting(r)' = 0 /\ transferred[r] + dispatch[r] + Waiting(r) <= reviews[r]
        BY <1>0, <2>1 DEF Worth, Waiting
      <3>2. \A r \in Reqs : transferred[r] + dispatch[r] + 0 <= reviews[r]
        BY <1>0, <3>1, Numbers
      <3> QED
        BY <1>1, <3>1, <3>2 DEF Worth
    <2> QED
      BY <2>2, <2>3, <2>4 DEF Reviewing, OfTheLastAsked, PageIsAlive
  <1> QED
    BY <1>2, <1>3

LEMMA SpawnKeeps == Reviewing /\ Spawn => Reviewing'
  <1> SUFFICES ASSUME Reviewing, Spawn PROVE Reviewing'
    OBVIOUS
  <1>1. TypeOK'
    BY WishesMove DEF Spawn, Reviewing, TypeOK, page, history
  <1> QED
    BY <1>1, PageOnly DEF Spawn, Purses, page, history

LEMMA BeginReviewKeeps == Reviewing /\ BeginReview => Reviewing'
  <1> SUFFICES ASSUME Reviewing, BeginReview PROVE Reviewing'
    OBVIOUS
  <1>0. TypeOK /\ Worth /\ OfTheLastAsked /\ PageIsAlive
    BY DEF Reviewing
  <1> DEFINE r == Head(spawned).req
  <1>1. r \in Reqs
    <2>1. Head(spawned) \in Actions /\ Head(spawned) # Clear
      BY <1>0, WishesMove DEF BeginReview, Clear
    <2> QED
      BY <2>1, WishIs
  <1>2. /\ spawned' \in Seq(Actions) /\ asked' = r
        /\ UNCHANGED <<reviewed, wishes, dispatch, flying, form, typed, shown, fetched>>
        /\ UNCHANGED <<reviews, transferred, handed>>
    BY <1>0, WishesMove DEF BeginReview, page
  <1>3. \/ view' = Is("Checking", r) /\ checks' = One(checks, r)
        \/ view' = Is("Refused", r) /\ UNCHANGED checks
    BY DEF BeginReview
  <1> HIDE DEF r
  <1>4. checks' \in [Reqs -> Nat] /\ (view' = Is("Checking", r) => checks'[r] > 0)
    <2>1. checks \in [Reqs -> Nat] /\ "Refused" \in Kinds /\ "Checking" \in Kinds
      BY <1>0 DEF TypeOK, Kinds
    <2>2. Is("Refused", r) # Is("Checking", r)
      BY <1>1, <2>1, ViewIs
    <2>3. One(checks, r) \in [Reqs -> Nat] /\ One(checks, r)[r] > 0
      BY <1>1, <2>1, Counting
    <2> QED
      BY <1>3, <2>1, <2>2, <2>3
  <1>5. view' \in Views /\ view'.req = r /\ view'.is \in {"Checking", "Refused"}
    BY <1>1, <1>3, ViewIs DEF Kinds
  <1>6. TypeOK'
    BY <1>0, <1>1, <1>2, <1>4, <1>5 DEF TypeOK
  <1>7. Worth'
    BY <1>0, <1>2 DEF Worth, Waiting
  <1>8. PageIsAlive'
    BY <1>3, <1>4, <1>5 DEF PageIsAlive, Is
  <1> QED
    BY <1>2, <1>5, <1>6, <1>7, <1>8 DEF Reviewing, OfTheLastAsked

\* The chain's answer is shown where it was asked for, or nowhere.
LEMMA EndReviewKeeps == ASSUME Reviewing, NEW r \in Reqs, EndReview(r) PROVE Reviewing'
  <1>0. TypeOK /\ Worth /\ OfTheLastAsked /\ PageIsAlive
    BY DEF Reviewing
  <1>1. /\ checks[r] > 0 /\ checks' = Less(checks, r)
        /\ UNCHANGED <<wishes, spawned, dispatch, flying, form, typed, shown, fetched>>
        /\ UNCHANGED <<asked, transferred, handed>>
    BY DEF EndReview, page
  <1>2. checks' \in [Reqs -> Nat] /\ \A q \in Reqs \ {r} : checks'[q] = checks[q]
    <2>1. checks \in [Reqs -> Nat]
      BY <1>0 DEF TypeOK
    <2> QED
      BY <1>1, <2>1, Counting
  <1>3. CASE StillChecked(r) /\ view' = Is("Reviewed", r) /\ reviewed' = Kept(r) /\ reviews' = One(reviews, r)
    <2>1. view' \in Views /\ view'.is = "Reviewed" /\ view'.req = r
      BY <1>3, ViewIs DEF Kinds
    <2>2. reviewed' = {r} /\ asked = r
      BY <1>0, <1>3 DEF Kept, StillChecked, Is, OfTheLastAsked
    <2>3. reviews' \in [Reqs -> Nat] /\ reviews'[r] = reviews[r] + 1
          /\ \A q \in Reqs \ {r} : reviews'[q] = reviews[q]
      <3>1. reviews \in [Reqs -> Nat]
        BY <1>0 DEF TypeOK
      <3> QED
        BY <1>3, <3>1, Counting
    <2>4. TypeOK'
      BY <1>0, <1>1, <1>2, <2>1, <2>2, <2>3 DEF TypeOK
    <2>5. Worth'
      <3>1. ASSUME NEW q \in Reqs PROVE transferred[q] + dispatch[q] + Waiting(q)' <= reviews'[q]
        <4>1. transferred[q] + dispatch[q] + Waiting(q) <= reviews[q]
          BY <1>0 DEF Worth
        <4>2. CASE q = r
          <5>1. Waiting(q)' \in {0, 1} /\ reviews'[q] = reviews[q] + 1
            BY <2>3, <4>2 DEF Waiting
          <5> QED
            BY <1>0, <4>1, <5>1, Numbers
        <4>3. CASE q # r
          <5>1. Waiting(q)' = 0 /\ reviews'[q] = reviews[q]
            BY <2>2, <2>3, <4>3 DEF Waiting
          <5> QED
            BY <1>0, <4>1, <5>1, Numbers
        <4> QED
          BY <4>2, <4>3
      <3> QED
        BY <1>1, <3>1 DEF Worth
    <2> QED
      BY <1>1, <2>1, <2>2, <2>4, <2>5 DEF Reviewing, OfTheLastAsked, PageIsAlive
  <1>4. CASE view' = Is("Refused", r) /\ UNCHANGED <<reviewed, reviews>>
    <2>1. view' \in Views /\ view'.is = "Refused"
      BY <1>4, ViewIs DEF Kinds
    <2>2. TypeOK'
      BY <1>0, <1>1, <1>2, <1>4, <2>1 DEF TypeOK
    <2> QED
      BY <1>0, <1>1, <1>4, <2>1, <2>2 DEF Reviewing, Worth, Waiting, OfTheLastAsked, PageIsAlive
  <1>5. CASE ~StillChecked(r) /\ UNCHANGED <<view, reviewed, reviews>>
    <2>1. TypeOK'
      BY <1>0, <1>1, <1>2, <1>5 DEF TypeOK
    <2>2. view.is = "Checking" => view.req \in Reqs \ {r}
      <3>1. view \in Views
        BY <1>0 DEF TypeOK
      <3>2. view.is = "Checking" => view.req \in Reqs
        BY <3>1, ViewNames
      <3>3. ~(view.is = "Checking" /\ view.req = r)
        BY <3>1, <1>5, ViewNames DEF StillChecked
      <3> QED
        BY <3>2, <3>3
    <2>3. PageIsAlive'
      BY <1>0, <1>1, <1>2, <1>5, <2>2 DEF PageIsAlive
    <2> QED
      BY <1>0, <1>1, <1>5, <2>1, <2>3 DEF Reviewing, Worth, Waiting, OfTheLastAsked
  <1> QED
    BY <1>3, <1>4, <1>5 DEF EndReview

\* A confirmation finds its review on the page, and takes it off.
LEMMA BeginSendKeeps == Reviewing /\ BeginSend => Reviewing'
  <1> SUFFICES ASSUME Reviewing, BeginSend PROVE Reviewing'
    OBVIOUS
  <1>0. TypeOK /\ Worth /\ OfTheLastAsked /\ PageIsAlive
    BY DEF Reviewing
  <1> DEFINE r == Head(spawned).req
  <1>1. r \in Reqs
    <2>1. Head(spawned) \in Actions /\ Head(spawned) # Clear
      BY <1>0, WishesMove DEF BeginSend, Clear
    <2> QED
      BY <2>1, WishIs
  <1>2. /\ spawned' \in Seq(Actions)
        /\ UNCHANGED <<wishes, checks, flying, form, typed, shown, fetched>>
        /\ UNCHANGED <<asked, reviews, transferred, handed>>
    BY <1>0, WishesMove DEF BeginSend, page, history
  <1>3. \/ Sendable(r) /\ Taken(r) /\ dispatch' = One(dispatch, r)
        \/ ~Sendable(r) /\ UNCHANGED <<view, reviewed, dispatch>>
    BY DEF BeginSend
  <1> HIDE DEF r
  <1>4. CASE UNCHANGED <<view, reviewed, dispatch>>
    <2>1. TypeOK'
      BY <1>0, <1>2, <1>4 DEF TypeOK
    <2> QED
      BY <1>2, <1>4, <2>1, PageOnly DEF Purses
  <1>5. CASE Sendable(r) /\ Taken(r) /\ dispatch' = One(dispatch, r)
    <2>1. view' \in Views /\ view'.is = "Sending" /\ view'.req = r
      BY <1>1, <1>5, ViewIs DEF Kinds, Taken
    <2>2. reviewed = {r} /\ reviewed' = {}
      BY <1>5 DEF Sendable, Taken
    <2>3. dispatch' \in [Reqs -> Nat] /\ dispatch'[r] = dispatch[r] + 1
          /\ \A q \in Reqs \ {r} : dispatch'[q] = dispatch[q]
      <3>1. dispatch \in [Reqs -> Nat]
        BY <1>0 DEF TypeOK
      <3> QED
        BY <1>1, <1>5, <3>1, Counting
    <2>4. TypeOK'
      BY <1>0, <1>2, <2>1, <2>2, <2>3 DEF TypeOK
    <2>5. Worth'
      <3>1. ASSUME NEW q \in Reqs PROVE transferred[q] + dispatch'[q] + Waiting(q)' <= reviews[q]
        <4>1. transferred[q] + dispatch[q] + Waiting(q) <= reviews[q]
          BY <1>0 DEF Worth
        <4>2. Waiting(q)' = 0
          BY <2>2 DEF Waiting
        <4>3. dispatch'[q] + Waiting(q)' = dispatch[q] + Waiting(q)
          BY <1>0, <2>2, <2>3, <4>2, Numbers DEF Waiting
        <4>4. dispatch'[q] \in Nat
          BY <2>3
        <4> QED
          BY <1>0, <4>1, <4>2, <4>3, <4>4, Numbers
      <3> QED
        BY <1>2, <3>1 DEF Worth
    <2>6. dispatch'[view'.req] + flying'[view'.req] > 0
      BY <1>0, <1>1, <1>2, <2>1, <2>3, Numbers
    <2> QED
      BY <2>1, <2>4, <2>5, <2>6 DEF Reviewing, OfTheLastAsked, PageIsAlive
  <1> QED
    BY <1>3, <1>4, <1>5

----------------------------------------------------------------------------
(* The sends' second check, the hand-over, and the end *)

LEMMA NotSentKeeps == ASSUME Reviewing, NEW r \in Reqs, NotSent(r) PROVE Reviewing'
  <1>0. TypeOK /\ Worth
    BY DEF Reviewing
  <1>1. /\ dispatch[r] > 0 /\ dispatch' = Less(dispatch, r) /\ view' = Is("Failed", r)
        /\ UNCHANGED <<reviewed, wishes, spawned, checks, flying, form, typed, shown, fetched>>
        /\ UNCHANGED <<asked, reviews, transferred, handed>>
    BY DEF NotSent, page, history
  <1>2. view' \in Views /\ view'.is = "Failed"
    BY <1>1, ViewIs DEF Kinds
  <1>3. dispatch' \in [Reqs -> Nat] /\ dispatch'[r] = dispatch[r] - 1
        /\ \A q \in Reqs \ {r} : dispatch'[q] = dispatch[q]
    <2>1. dispatch \in [Reqs -> Nat]
      BY <1>0 DEF TypeOK
    <2> QED
      BY <1>1, <2>1, Counting
  <1>4. TypeOK'
    BY <1>0, <1>1, <1>2, <1>3 DEF TypeOK
  <1>5. Worth'
    <2>1. ASSUME NEW q \in Reqs PROVE transferred[q] + dispatch'[q] + Waiting(q) <= reviews[q]
      <3>1. transferred[q] + dispatch[q] + Waiting(q) <= reviews[q]
        BY <1>0 DEF Worth
      <3>2. dispatch'[q] \in Nat /\ dispatch'[q] <= dispatch[q]
        BY <1>0, <1>3, Numbers
      <3> QED
        BY <1>0, <3>1, <3>2, Numbers
    <2> QED
      BY <1>1, <2>1 DEF Worth, Waiting
  <1> QED
    BY <1>2, <1>4, <1>5 DEF Reviewing, OfTheLastAsked, PageIsAlive

LEMMA HandOverKeeps == ASSUME Reviewing, NEW r \in Reqs, HandOver(r) PROVE Reviewing'
  <1>0. TypeOK /\ Worth /\ OfTheLastAsked /\ PageIsAlive
    BY DEF Reviewing
  <1>1. /\ dispatch[r] > 0 /\ dispatch' = Less(dispatch, r)
        /\ flying' = One(flying, r) /\ transferred' = One(transferred, r)
        /\ UNCHANGED <<view, reviewed, wishes, spawned, checks, form, typed, shown, fetched>>
        /\ UNCHANGED <<asked, reviews, handed>>
    BY DEF HandOver, page
  <1>2. /\ dispatch' \in [Reqs -> Nat] /\ dispatch'[r] = dispatch[r] - 1
        /\ flying' \in [Reqs -> Nat] /\ flying'[r] = flying[r] + 1
        /\ transferred' \in [Reqs -> Nat] /\ transferred'[r] = transferred[r] + 1
        /\ \A q \in Reqs \ {r} : /\ dispatch'[q] = dispatch[q] /\ flying'[q] = flying[q]
                                 /\ transferred'[q] = transferred[q]
    <2>1. dispatch \in [Reqs -> Nat] /\ flying \in [Reqs -> Nat] /\ transferred \in [Reqs -> Nat]
      BY <1>0 DEF TypeOK
    <2> QED
      BY <1>1, <2>1, Counting
  <1>3. ASSUME NEW q \in Reqs
        PROVE  /\ transferred'[q] + dispatch'[q] = transferred[q] + dispatch[q]
               /\ dispatch'[q] + flying'[q] = dispatch[q] + flying[q]
    <2>1. transferred[q] \in Nat /\ dispatch[q] \in Nat /\ flying[q] \in Nat
      BY <1>0, Numbers
    <2>2. CASE q = r
      BY <1>2, <2>1, <2>2
    <2>3. CASE q # r
      BY <1>2, <2>1, <2>3
    <2> QED
      BY <2>2, <2>3
  <1>4. TypeOK'
    BY <1>0, <1>1, <1>2 DEF TypeOK
  <1>5. Worth'
    BY <1>0, <1>1, <1>3 DEF Worth, Waiting
  <1>6. PageIsAlive'
    <2>1. view.is = "Sending" => view.req \in Reqs
      BY <1>0, ViewNames DEF TypeOK
    <2> QED
      BY <1>0, <1>1, <1>3, <2>1 DEF PageIsAlive
  <1> QED
    BY <1>0, <1>1, <1>4, <1>5, <1>6 DEF Reviewing, OfTheLastAsked

LEMMA EndSendKeeps == ASSUME Reviewing, NEW r \in Reqs, EndSend(r) PROVE Reviewing'
  <1>0. TypeOK /\ Worth
    BY DEF Reviewing
  <1>1. /\ flying[r] > 0 /\ flying' = Less(flying, r)
        /\ view' = Is("Done", r) \/ view' = Is("Failed", r)
        /\ UNCHANGED <<reviewed, wishes, spawned, checks, dispatch, form, typed, shown, fetched>>
        /\ UNCHANGED <<asked, reviews, transferred, handed>>
    BY DEF EndSend, page, history
  <1>2. view' \in Views /\ view'.is \in {"Done", "Failed"}
    BY <1>1, ViewIs DEF Kinds
  <1>3. flying' \in [Reqs -> Nat]
    <2>1. flying \in [Reqs -> Nat]
      BY <1>0 DEF TypeOK
    <2> QED
      BY <1>1, <2>1, Counting
  <1>4. TypeOK'
    BY <1>0, <1>1, <1>2, <1>3 DEF TypeOK
  <1> QED
    BY <1>0, <1>1, <1>2, <1>4 DEF Reviewing, Worth, Waiting, OfTheLastAsked, PageIsAlive

----------------------------------------------------------------------------
LEMMA ReviewingStep == Reviewing /\ [Next]_vars => Reviewing'
  <1> SUFFICES ASSUME Reviewing, [Next]_vars PROVE Reviewing'
    OBVIOUS
  <1>1. CASE UNCHANGED vars
    <2>1. TypeOK'
      BY <1>1 DEF Reviewing, TypeOK, vars, tasks, page, history
    <2> QED
      BY <1>1, <2>1, PageOnly DEF Purses, vars, tasks, history
  <1>2. CASE Worker
    BY <1>2, ForgetKeeps, SpawnKeeps, BeginReviewKeeps, BeginSendKeeps, EndReviewKeeps,
       NotSentKeeps, HandOverKeeps, EndSendKeeps DEF Worker
  <1>3. CASE Next /\ ~Worker
    BY <1>3, PageSteps DEF Next
  <1> QED
    BY <1>1, <1>2, <1>3

\* Purse::review, send, dispatch and Clear, in any order and behind a view that
\* may be old: a request is handed over at most once for each review of it, the
\* page offers what was asked for last, and waits only for what will come.
THEOREM SendsWhatWasReviewed == Spec => []OnlyWhatWasReviewed
  <1>1. Reviewing => OnlyWhatWasReviewed
    <2> SUFFICES ASSUME Reviewing PROVE OnlyWhatWasReviewed
      OBVIOUS
    <2>1. ASSUME NEW r \in Reqs PROVE transferred[r] <= reviews[r]
      <3>1. transferred[r] + dispatch[r] + Waiting(r) <= reviews[r]
        BY DEF Reviewing, Worth
      <3> QED
        BY <3>1, Numbers DEF Reviewing
    <2> QED
      BY <2>1 DEF Reviewing, OnlyWhatWasReviewed, OneTransferPerReview, ReviewIsOfTheLastAsked,
                  OfTheLastAsked
  <1> QED
    BY ReviewingInit, ReviewingStep, <1>1, PTL DEF Spec


----------------------------------------------------------------------------
(* The screen *)

\* The screen on its own.
ScreenSpec == ScreenInit /\ [][ScreenStep]_screenVars

\* What the engine tells the view model.
News == [kind : {"waits", "moves"}, trade : Trades, on : BOOLEAN]
        \cup [kind : {"kill", "thresholds"}, trade : {None}, on : BOOLEAN]
NewsOf(kind) == {e \in News : e.kind = kind}
NewsOfTrade(t) == {e \in News : e.kind \in {"waits", "moves"} /\ e.trade = t}

ScreenTyped ==
    /\ eng \in [waiting : SUBSET Trades, killed : BOOLEAN, loss : BOOLEAN]
    /\ vm \in [pend : Seq(Trades), kill : BOOLEAN, loss : BOOLEAN]
    /\ queue \in Seq(News) /\ dropped \in BOOLEAN /\ dirty \in BOOLEAN
    /\ {"open", "question", "opens"} \subseteq DOMAIN ui /\ ui.opens \in BOOLEAN

\* The last of q about something says what the engine has; where none is, the
\* view already has it.
Agrees(q, about, seen, is) ==
    /\ (\A i \in DOMAIN q : q[i] \notin about) => (seen <=> is)
    /\ \A i \in DOMAIN q :
          q[i] \in about /\ (\A j \in DOMAIN q : j > i => q[j] \notin about) => (q[i].on <=> is)

Synced ==
    ~dropped => /\ Agrees(queue, NewsOf("kill"), vm.kill, eng.killed)
                /\ Agrees(queue, NewsOf("thresholds"), vm.loss, eng.loss)
                /\ \A t \in Trades : Agrees(queue, NewsOfTrade(t), t \in Range(vm.pend), t \in eng.waiting)

\* Between a frame and the next key the question asked is the one drawn.
QuestionIsDrawn == ~dirty => drawn.question = ui.question

Watching == /\ ScreenTyped /\ Synced /\ IsInjective(vm.pend) /\ QuestionIsDrawn
            /\ ActedIsShown /\ ClicksOnlyKill

----------------------------------------------------------------------------
LEMMA AgreesAfter ==
    ASSUME NEW q \in Seq(News), NEW e \in News, NEW about, NEW seen \in BOOLEAN, NEW is \in BOOLEAN
    PROVE  /\ e \in about => Agrees(Append(q, e), about, seen, e.on)
           /\ e \notin about /\ Agrees(q, about, seen, is) => Agrees(Append(q, e), about, seen, is)
  <1>1. /\ Len(q) \in Nat /\ DOMAIN q = 1..Len(q) /\ DOMAIN Append(q, e) = 1..(Len(q) + 1)
        /\ \A i \in 1..Len(q) : Append(q, e)[i] = q[i]
        /\ Append(q, e)[Len(q) + 1] = e
    OBVIOUS
  <1> DEFINE a == Append(q, e)
             n == Len(q) + 1
  <1>2. n \in DOMAIN a /\ a[n] = e /\ \A i \in DOMAIN a : i # n => i \in DOMAIN q /\ i < n /\ a[i] = q[i]
    BY <1>1
  <1>3. \A i \in DOMAIN q : i \in DOMAIN a /\ i < n
    BY <1>1
  <1> HIDE DEF a, n
  <1>4. ASSUME e \in about PROVE Agrees(a, about, seen, e.on)
    <2>1. ~(\A i \in DOMAIN a : a[i] \notin about)
      BY <1>2, <1>4
    <2>2. ASSUME NEW i \in DOMAIN a, \A j \in DOMAIN a : j > i => a[j] \notin about PROVE i = n
      <3>1. i # n => i < n
        BY <1>2
      <3>2. n > i => a[n] \notin about
        BY <1>2, <2>2
      <3> QED BY <3>1, <3>2, <1>2, <1>4
    <2> QED BY <1>2, <2>1, <2>2 DEF Agrees
  <1>5. ASSUME e \notin about, Agrees(q, about, seen, is) PROVE Agrees(a, about, seen, is)
    <2>1. (\A i \in DOMAIN a : a[i] \notin about) => (\A i \in DOMAIN q : q[i] \notin about)
      BY <1>2, <1>3
    <2>2. ASSUME NEW i \in DOMAIN a, a[i] \in about, \A j \in DOMAIN a : j > i => a[j] \notin about
          PROVE  a[i].on <=> is
      <3>1. i \in DOMAIN q /\ a[i] = q[i]
        BY <1>2, <1>5, <2>2
      <3>2. ASSUME NEW j \in DOMAIN q, j > i PROVE q[j] \notin about
        <4>1. j \in DOMAIN a /\ a[j] = q[j]
          BY <1>1, <1>3 DEF a
        <4> QED BY <4>1, <3>2, <2>2
      <3> QED BY <3>1, <3>2, <2>2, <1>5 DEF Agrees
    <2> QED BY <2>1, <2>2, <1>5 DEF Agrees
  <1> QED BY <1>4, <1>5 DEF a

LEMMA AgreesBehind ==
    ASSUME NEW q \in Seq(News), q # <<>>, NEW about, NEW seen \in BOOLEAN, NEW is \in BOOLEAN,
           Agrees(q, about, seen, is)
    PROVE  /\ Head(q) \in about => Agrees(Tail(q), about, Head(q).on, is)
           /\ Head(q) \notin about => Agrees(Tail(q), about, seen, is)
  <1>1. /\ Len(q) \in Nat \ {0} /\ DOMAIN q = 1..Len(q) /\ DOMAIN Tail(q) = 1..(Len(q) - 1)
        /\ \A i \in 1..(Len(q) - 1) : Tail(q)[i] = q[i + 1]
        /\ Head(q) = q[1]
    OBVIOUS
  <1> DEFINE a == Tail(q)
             h == Head(q)
  <1>2. /\ 1 \in DOMAIN q /\ q[1] = h
        /\ \A i \in DOMAIN a : i \in Nat /\ i + 1 \in DOMAIN q /\ q[i + 1] = a[i]
        /\ \A j \in DOMAIN q : j \in Nat /\ (j # 1 => j > 1 /\ j - 1 \in DOMAIN a /\ q[j] = a[j - 1])
    BY <1>1
  <1> HIDE DEF a, h
  <1>3. ASSUME \A i \in DOMAIN a : a[i] \notin about
        PROVE  \A j \in DOMAIN q : j > 1 => q[j] \notin about
    <2> SUFFICES ASSUME NEW j \in DOMAIN q, j > 1 PROVE q[j] \notin about
      OBVIOUS
    <2>1. j # 1
      OBVIOUS
    <2>2. j - 1 \in DOMAIN a /\ q[j] = a[j - 1]
      BY <1>2, <2>1
    <2> QED BY <2>2, <1>3
  <1>4. ASSUME NEW i \in DOMAIN a, a[i] \in about, \A j \in DOMAIN a : j > i => a[j] \notin about
        PROVE  a[i].on <=> is
    <2>1. i + 1 \in DOMAIN q /\ q[i + 1] \in about
      BY <1>2, <1>4
    <2>2. ASSUME NEW j \in DOMAIN q, j > i + 1 PROVE q[j] \notin about
      <3>1. j # 1 /\ j - 1 \in DOMAIN a /\ q[j] = a[j - 1] /\ j - 1 > i
        BY <1>2, <2>2
      <3> QED BY <3>1, <1>4
    <2>3. q[i + 1].on <=> is
      BY <2>1, <2>2 DEF Agrees
    <2> QED BY <2>3, <1>2
  <1>5. ASSUME h \in about, \A i \in DOMAIN a : a[i] \notin about PROVE h.on <=> is
    BY <1>2, <1>3, <1>5 DEF Agrees
  <1>6. ASSUME h \notin about, \A i \in DOMAIN a : a[i] \notin about PROVE seen <=> is
    <2>1. \A i \in DOMAIN q : q[i] \notin about
      BY <1>2, <1>3, <1>6
    <2> QED BY <2>1 DEF Agrees
  <1>7. (h \in about => Agrees(a, about, h.on, is)) /\ (h \notin about => Agrees(a, about, seen, is))
    BY <1>4, <1>5, <1>6 DEF Agrees
  <1> QED BY <1>7 DEF a, h

LEMMA Joined ==
    ASSUME NEW S, NEW b \in Seq(S), NEW c \in Seq(S)
    PROVE  /\ b \o c \in Seq(S) /\ Len(b \o c) = Len(b) + Len(c)
           /\ \A i \in 1..(Len(b) + Len(c)) : (b \o c)[i] = IF i <= Len(b) THEN b[i] ELSE c[i - Len(b)]
  OBVIOUS

LEMMA Part ==
    ASSUME NEW S, NEW q \in Seq(S), NEW m \in 1..(Len(q) + 1)
    PROVE  /\ SubSeq(q, m, Len(q)) \in Seq(S)
           /\ Len(SubSeq(q, m, Len(q))) = IF m <= Len(q) THEN Len(q) - m + 1 ELSE 0
           /\ \A i \in 1..Len(SubSeq(q, m, Len(q))) : SubSeq(q, m, Len(q))[i] = q[m + i - 1]
  OBVIOUS

LEMMA PendingIs ==
    ASSUME NEW pend \in Seq(Trades), IsInjective(pend), NEW t \in Trades, NEW e \in NewsOfTrade(t)
    PROVE  /\ Pending(pend, e) \in Seq(Trades) /\ IsInjective(Pending(pend, e))
           /\ t \in Range(Pending(pend, e)) <=> e.on
           /\ \A u \in Trades \ {t} : u \in Range(Pending(pend, e)) <=> u \in Range(pend)
  <1>0. e.trade = t /\ e.on \in BOOLEAN /\ Len(pend) \in Nat /\ DOMAIN pend = 1..Len(pend)
    BY DEF NewsOfTrade, News
  <1>1. CASE ~Contains(pend, t) /\ e.on
    <2>1. Pending(pend, e) = Append(pend, t)
      BY <1>0, <1>1 DEF Pending
    <2> DEFINE a == Append(pend, t)
    <2>2. /\ DOMAIN a = 1..(Len(pend) + 1) /\ a[Len(pend) + 1] = t
          /\ \A i \in 1..Len(pend) : a[i] = pend[i]
      OBVIOUS
    <2>3. \A i \in 1..Len(pend) : pend[i] # t
      BY <1>1 DEF Contains
    <2> HIDE DEF a
    <2>4. IsInjective(a)
      BY <1>0, <2>2, <2>3 DEF IsInjective
    <2>5. t \in Range(a) /\ \A u \in Trades \ {t} : u \in Range(a) <=> u \in Range(pend)
      BY <1>0, <2>2 DEF Range
    <2> QED BY <2>1, <2>4, <2>5, <1>1 DEF a
  <1>2. CASE Contains(pend, t) <=> e.on
    <2>1. CASE e.on
      <3>1. Pending(pend, e) = pend
        BY <1>0, <1>2, <2>1 DEF Pending
      <3>2. t \in Range(pend)
        BY <1>0, <1>2, <2>1 DEF Contains, Range
      <3> QED BY <3>1, <3>2, <2>1
    <2>2. CASE ~e.on
      <3>1. Pending(pend, e) = pend
        BY <1>0, <1>2, <2>2 DEF Pending
      <3>2. t \notin Range(pend)
        BY <1>0, <1>2, <2>2 DEF Contains, Range
      <3> QED BY <3>1, <3>2, <2>2
    <2> QED BY <2>1, <2>2, <1>0
  <1>3. CASE Contains(pend, t) /\ ~e.on
    <2> DEFINE k == CHOOSE i \in DOMAIN pend : pend[i] = t
               a == RemoveAt(pend, k)
    <2>1. Pending(pend, e) = a
      BY <1>0, <1>3 DEF Pending
    <2>2. k \in 1..Len(pend) /\ pend[k] = t
      <3>1. \E i \in DOMAIN pend : pend[i] = t
        BY <1>0, <1>3 DEF Contains
      <3> QED BY <3>1, <1>0
    <2> HIDE DEF k
    <2>3. /\ a \in Seq(Trades) /\ Len(a) = Len(pend) - 1 /\ DOMAIN a = 1..(Len(pend) - 1)
          /\ \A i \in 1..(Len(pend) - 1) : a[i] = IF i < k THEN pend[i] ELSE pend[i + 1]
      <3> DEFINE b == SubSeq(pend, 1, k - 1)
                 c == SubSeq(pend, k + 1, Len(pend))
      <3>1. b \in Seq(Trades) /\ Len(b) = k - 1 /\ \A i \in 1..(k - 1) : b[i] = pend[i]
        BY <2>2, <1>0
      <3>2. /\ c \in Seq(Trades) /\ Len(c) = Len(pend) - k
            /\ \A i \in 1..(Len(pend) - k) : c[i] = pend[k + i]
        <4>1. k \in Nat /\ k + 1 \in 1..(Len(pend) + 1) /\ Len(pend) - (k + 1) + 1 = Len(pend) - k
          BY <2>2, <1>0
        <4>2. \A x, y \in Int : (x + 1) + y - 1 = x + y
          OBVIOUS
        <4>3. /\ c \in Seq(Trades)
              /\ Len(c) = IF k + 1 <= Len(pend) THEN Len(pend) - (k + 1) + 1 ELSE 0
              /\ \A i \in 1..Len(c) : c[i] = pend[(k + 1) + i - 1]
          BY <4>1, <1>0, Part
        <4>4. Len(c) = Len(pend) - k
          <5> HIDE DEF c
          <5>1. \A n \in Nat : \A i \in 1..n, l \in Nat : l = (IF i + 1 <= n THEN n - (i + 1) + 1 ELSE 0) => l = n - i
            OBVIOUS
          <5>2. Len(c) \in Nat
            BY <4>3
          <5> QED BY <5>1, <5>2, <4>3, <2>2, <1>0
        <4>5. ASSUME NEW i \in 1..(Len(pend) - k) PROVE c[i] = pend[k + i]
          <5>1. c[i] = pend[(k + 1) + i - 1]
            BY <4>3, <4>4
          <5>2. (k + 1) + i - 1 = k + i
            BY <4>1, <1>0
          <5> QED BY <5>1, <5>2
        <4> QED BY <4>3, <4>4, <4>5
      <3>3. a = b \o c
        BY DEF RemoveAt
      <3> HIDE DEF b, c, a
      <3>4. /\ b \o c \in Seq(Trades) /\ Len(b \o c) = Len(pend) - 1
            /\ \A i \in 1..(Len(pend) - 1) : (b \o c)[i] = IF i < k THEN b[i] ELSE c[i - (k - 1)]
        <4>1. Len(b) + Len(c) = Len(pend) - 1
          BY <3>1, <3>2, <2>2, <1>0
        <4>2. /\ b \o c \in Seq(Trades) /\ Len(b \o c) = Len(b) + Len(c)
              /\ \A i \in 1..(Len(b) + Len(c)) : (b \o c)[i] = IF i <= Len(b) THEN b[i] ELSE c[i - Len(b)]
          BY <3>1, <3>2, Joined
        <4>3. \A i \in 1..(Len(pend) - 1) : i < k <=> i <= k - 1
          BY <2>2, <1>0
        <4> QED BY <4>1, <4>2, <4>3, <3>1
      <3>5. DOMAIN a = 1..(Len(pend) - 1)
        BY <3>3, <3>4
      <3>6. ASSUME NEW i \in 1..(Len(pend) - 1) PROVE a[i] = IF i < k THEN pend[i] ELSE pend[i + 1]
        <4>1. CASE i < k
          BY <4>1, <3>1, <3>3, <3>4, <2>2, <1>0
        <4>2. CASE ~(i < k)
          <5>1. i - (k - 1) \in 1..(Len(pend) - k) /\ k + (i - (k - 1)) = i + 1
            BY <4>2, <2>2, <1>0
          <5> QED BY <5>1, <4>2, <3>2, <3>3, <3>4
        <4> QED BY <4>1, <4>2
      <3> QED BY <3>3, <3>4, <3>5, <3>6
    <2> HIDE DEF a
    <2>4. ASSUME NEW i \in DOMAIN pend, i # k
          PROVE  \E j \in DOMAIN a : a[j] = pend[i]
      <3>1. CASE i < k
        BY <3>1, <2>2, <2>3, <1>0
      <3>2. CASE i > k
        <4>1. i - 1 \in DOMAIN a /\ ~(i - 1 < k) /\ (i - 1) + 1 = i
          BY <3>2, <2>2, <2>3, <1>0
        <4> QED BY <4>1, <2>3
      <3> QED BY <3>1, <3>2, <2>2, <2>4, <1>0
    <2>5. ASSUME NEW j \in DOMAIN a
          PROVE  \E i \in DOMAIN pend : i # k /\ a[j] = pend[i] /\ i = (IF j < k THEN j ELSE j + 1)
      BY <2>2, <2>3, <1>0
    <2>6. IsInjective(a)
      <3> SUFFICES ASSUME NEW j \in DOMAIN a, NEW l \in DOMAIN a, a[j] = a[l] PROVE j = l
        BY DEF IsInjective
      <3>1. PICK i \in DOMAIN pend : i # k /\ a[j] = pend[i] /\ i = (IF j < k THEN j ELSE j + 1)
        BY <2>5
      <3>2. PICK m \in DOMAIN pend : m # k /\ a[l] = pend[m] /\ m = (IF l < k THEN l ELSE l + 1)
        BY <2>5
      <3>3. i = m
        BY <3>1, <3>2 DEF IsInjective
      <3> QED BY <3>1, <3>2, <3>3, <2>2, <2>3, <1>0
    <2>7. t \notin Range(a)
      <3> SUFFICES ASSUME NEW j \in DOMAIN a, a[j] = t PROVE FALSE
        BY DEF Range
      <3>1. PICK i \in DOMAIN pend : i # k /\ a[j] = pend[i]
        BY <2>5
      <3> QED BY <3>1, <2>2, <1>0 DEF IsInjective
    <2>8. ASSUME NEW u \in Trades \ {t} PROVE u \in Range(a) <=> u \in Range(pend)
      <3>1. ASSUME u \in Range(a) PROVE u \in Range(pend)
        BY <3>1, <2>5 DEF Range
      <3>2. ASSUME u \in Range(pend) PROVE u \in Range(a)
        <4>1. PICK i \in DOMAIN pend : pend[i] = u
          BY <3>2 DEF Range
        <4>2. i # k
          BY <4>1, <2>2
        <4> QED BY <4>1, <4>2, <2>4 DEF Range
      <3> QED BY <3>1, <3>2
    <2> QED BY <2>1, <2>3, <2>6, <2>7, <2>8, <1>3
  <1> QED BY <1>1, <1>2, <1>3, <1>0

----------------------------------------------------------------------------
\* The engine tells of what it did.
Told(e) ==
    /\ eng' = IF e.kind = "kill" THEN [eng EXCEPT !.killed = e.on]
              ELSE IF e.kind = "thresholds" THEN [eng EXCEPT !.loss = e.on]
              ELSE [eng EXCEPT !.waiting = IF e.on THEN @ \cup {e.trade} ELSE @ \ {e.trade}]
    /\ Emit(e)
Tells == \E e \in News : Told(e)
Silent == UNCHANGED <<eng, queue, dropped>>

LEMMA ToldKeeps ==
    ASSUME ScreenTyped, Synced, NEW e \in News, Told(e), vm' = vm
    PROVE  /\ eng' \in [waiting : SUBSET Trades, killed : BOOLEAN, loss : BOOLEAN]
           /\ queue' \in Seq(News) /\ dropped' \in BOOLEAN /\ Synced'
  <1>1. /\ e.on \in BOOLEAN /\ e.kind \in {"waits", "moves", "kill", "thresholds"}
        /\ e.kind \in {"waits", "moves"} => e.trade \in Trades
    BY DEF News
  <1>2. eng' \in [waiting : SUBSET Trades, killed : BOOLEAN, loss : BOOLEAN]
    BY <1>1 DEF Told, ScreenTyped
  <1>3. /\ eng'.killed = IF e \in NewsOf("kill") THEN e.on ELSE eng.killed
        /\ eng'.loss = IF e \in NewsOf("thresholds") THEN e.on ELSE eng.loss
    BY <1>1 DEF Told, ScreenTyped, NewsOf
  <1>4. ASSUME NEW t \in Trades
        PROVE  /\ e \in NewsOfTrade(t) => (t \in eng'.waiting <=> e.on)
               /\ e \notin NewsOfTrade(t) => (t \in eng'.waiting <=> t \in eng.waiting)
    BY <1>1 DEF Told, ScreenTyped, NewsOfTrade
  <1>5. CASE Len(queue) < UiQueue
    <2>1. queue' = Append(queue, e) /\ dropped' = dropped /\ queue \in Seq(News)
      BY <1>5 DEF Told, Emit, ScreenTyped
    <2>2. ASSUME ~dropped PROVE Synced'
      <3>1. ASSUME NEW about, NEW seen \in BOOLEAN, NEW is \in BOOLEAN, NEW then \in BOOLEAN,
                   Agrees(queue, about, seen, is), e \in about => (then <=> e.on), e \notin about => (then <=> is)
            PROVE  Agrees(queue', about, seen, then)
        <4>1. CASE e \in about
          <5>1. Agrees(queue', about, seen, e.on) /\ (then <=> e.on)
            BY <4>1, <3>1, <2>1, <1>1, AgreesAfter
          <5> QED BY <5>1 DEF Agrees
        <4>2. CASE e \notin about
          <5>1. Agrees(queue', about, seen, is) /\ (then <=> is)
            BY <4>2, <3>1, <2>1, AgreesAfter
          <5> QED BY <5>1 DEF Agrees
        <4> QED BY <4>1, <4>2
      <3>2. /\ Agrees(queue, NewsOf("kill"), vm.kill, eng.killed)
            /\ Agrees(queue, NewsOf("thresholds"), vm.loss, eng.loss)
            /\ \A t \in Trades : Agrees(queue, NewsOfTrade(t), t \in Range(vm.pend), t \in eng.waiting)
        BY <2>2 DEF Synced
      <3>3. /\ {vm.kill, vm.loss, eng.killed, eng.loss, eng'.killed, eng'.loss} \subseteq BOOLEAN
        BY <1>2 DEF ScreenTyped
      <3>4. Agrees(queue', NewsOf("kill"), vm.kill, eng'.killed)
        <4>1. /\ e \in NewsOf("kill") => (eng'.killed <=> e.on)
              /\ e \notin NewsOf("kill") => (eng'.killed <=> eng.killed)
          BY <1>3
        <4> QED BY <4>1, <3>1, <3>2, <3>3
      <3>5. Agrees(queue', NewsOf("thresholds"), vm.loss, eng'.loss)
        <4>1. /\ e \in NewsOf("thresholds") => (eng'.loss <=> e.on)
              /\ e \notin NewsOf("thresholds") => (eng'.loss <=> eng.loss)
          BY <1>3
        <4> QED BY <4>1, <3>1, <3>2, <3>3
      <3>6. ASSUME NEW t \in Trades
            PROVE  Agrees(queue', NewsOfTrade(t), t \in Range(vm.pend), t \in eng'.waiting)
        <4> DEFINE seen == t \in Range(vm.pend)
                   is == t \in eng.waiting
                   then == t \in eng'.waiting
        <4>1. seen \in BOOLEAN /\ is \in BOOLEAN /\ then \in BOOLEAN
          OBVIOUS
        <4>2. Agrees(queue, NewsOfTrade(t), seen, is)
          BY <3>2
        <4>3. (e \in NewsOfTrade(t) => (then <=> e.on)) /\ (e \notin NewsOfTrade(t) => (then <=> is))
          BY <1>4
        <4> HIDE DEF seen, is, then
        <4>4. Agrees(queue', NewsOfTrade(t), seen, then)
          BY <4>1, <4>2, <4>3, <3>1
        <4> QED BY <4>4 DEF seen, then
      <3> QED BY <3>4, <3>5, <3>6 DEF Synced
    <2>3. Synced'
      BY <2>1, <2>2 DEF Synced
    <2>4. queue' \in Seq(News) /\ dropped' \in BOOLEAN
      BY <2>1 DEF ScreenTyped
    <2> QED BY <1>2, <2>3, <2>4
  <1>6. CASE ~(Len(queue) < UiQueue)
    <2>1. queue' = queue /\ dropped' = TRUE
      BY <1>6 DEF Told, Emit
    <2> QED BY <1>2, <2>1 DEF Synced, ScreenTyped
  <1> QED BY <1>5, <1>6

LEMMA ApplyKeeps ==
    ASSUME ScreenTyped, Synced, IsInjective(vm.pend), Apply
    PROVE  /\ vm' \in [pend : Seq(Trades), kill : BOOLEAN, loss : BOOLEAN]
           /\ queue' \in Seq(News) /\ Synced' /\ IsInjective(vm'.pend)
  <1> DEFINE e == Head(queue)
  <1>1. /\ queue # <<>> /\ queue \in Seq(News) /\ queue' = Tail(queue) /\ UNCHANGED <<eng, dropped>>
        /\ e \in News /\ queue' \in Seq(News)
    BY DEF Apply, ScreenTyped
  <1>2. /\ e.on \in BOOLEAN /\ e.kind \in {"waits", "moves", "kill", "thresholds"}
        /\ e.kind \in {"waits", "moves"} => e.trade \in Trades
    BY <1>1 DEF News
  <1>3. /\ e.kind \in {"waits", "moves"} => vm' = [vm EXCEPT !.pend = Pending(vm.pend, e)]
        /\ e.kind = "kill" => vm' = [vm EXCEPT !.kill = e.on]
        /\ e.kind = "thresholds" => vm' = [vm EXCEPT !.loss = e.on]
    BY <1>2 DEF Apply
  <1>4. vm.pend \in Seq(Trades) /\ vm \in [pend : Seq(Trades), kill : BOOLEAN, loss : BOOLEAN]
    BY DEF ScreenTyped
  <1> HIDE DEF e
  <1>5. e.kind \in {"waits", "moves"} =>
            /\ Pending(vm.pend, e) \in Seq(Trades) /\ IsInjective(Pending(vm.pend, e))
            /\ e.trade \in Range(Pending(vm.pend, e)) <=> e.on
            /\ \A u \in Trades \ {e.trade} : u \in Range(Pending(vm.pend, e)) <=> u \in Range(vm.pend)
    <2> SUFFICES ASSUME e.kind \in {"waits", "moves"}
                 PROVE  /\ Pending(vm.pend, e) \in Seq(Trades) /\ IsInjective(Pending(vm.pend, e))
                        /\ e.trade \in Range(Pending(vm.pend, e)) <=> e.on
                        /\ \A u \in Trades \ {e.trade} : u \in Range(Pending(vm.pend, e)) <=> u \in Range(vm.pend)
      OBVIOUS
    <2>1. e \in NewsOfTrade(e.trade) /\ e.trade \in Trades
      BY <1>1, <1>2 DEF NewsOfTrade
    <2> QED BY <2>1, <1>4, PendingIs
  <1>6. vm' \in [pend : Seq(Trades), kill : BOOLEAN, loss : BOOLEAN] /\ IsInjective(vm'.pend)
    <2>1. CASE e.kind \in {"waits", "moves"}
      BY <2>1, <1>3, <1>4, <1>5
    <2>2. CASE e.kind \notin {"waits", "moves"}
      BY <2>2, <1>2, <1>3, <1>4
    <2> QED BY <2>1, <2>2
  <1>7. /\ vm'.kill = IF e \in NewsOf("kill") THEN e.on ELSE vm.kill
        /\ vm'.loss = IF e \in NewsOf("thresholds") THEN e.on ELSE vm.loss
    BY <1>1, <1>2, <1>3, <1>4 DEF NewsOf
  <1>8. ASSUME NEW t \in Trades
        PROVE  /\ e \in NewsOfTrade(t) => (t \in Range(vm'.pend) <=> e.on)
               /\ e \notin NewsOfTrade(t) => (t \in Range(vm'.pend) <=> t \in Range(vm.pend))
    <2>1. CASE e.kind \in {"waits", "moves"}
      <3>1. vm'.pend = Pending(vm.pend, e)
        BY <2>1, <1>3, <1>4
      <3>2. e \in NewsOfTrade(t) <=> t = e.trade
        BY <2>1, <1>1, <1>2 DEF NewsOfTrade
      <3> QED BY <2>1, <3>1, <3>2, <1>5
    <2>2. CASE e.kind \notin {"waits", "moves"}
      <3>1. vm'.pend = vm.pend /\ e \notin NewsOfTrade(t)
        BY <2>2, <1>2, <1>3, <1>4 DEF NewsOfTrade
      <3> QED BY <3>1
    <2> QED BY <2>1, <2>2
  <1>9. ASSUME ~dropped PROVE Synced'
    <2>1. ASSUME NEW about, NEW seen \in BOOLEAN, NEW is \in BOOLEAN, NEW then \in BOOLEAN,
                 Agrees(queue, about, seen, is), e \in about => (then <=> e.on), e \notin about => (then <=> seen)
          PROVE  Agrees(queue', about, then, is)
      <3>1. CASE e \in about
        <4>1. Agrees(queue', about, e.on, is) /\ (then <=> e.on)
          BY <3>1, <2>1, <1>1, AgreesBehind DEF e
        <4> QED BY <4>1 DEF Agrees
      <3>2. CASE e \notin about
        <4>1. Agrees(queue', about, seen, is) /\ (then <=> seen)
          BY <3>2, <2>1, <1>1, AgreesBehind DEF e
        <4> QED BY <4>1 DEF Agrees
      <3> QED BY <3>1, <3>2
    <2>2. /\ Agrees(queue, NewsOf("kill"), vm.kill, eng.killed)
          /\ Agrees(queue, NewsOf("thresholds"), vm.loss, eng.loss)
          /\ \A t \in Trades : Agrees(queue, NewsOfTrade(t), t \in Range(vm.pend), t \in eng.waiting)
      BY <1>9 DEF Synced
    <2>3. {vm.kill, vm.loss, eng.killed, eng.loss, vm'.kill, vm'.loss} \subseteq BOOLEAN
      BY <1>6 DEF ScreenTyped
    <2>4. Agrees(queue', NewsOf("kill"), vm'.kill, eng.killed)
      <3>1. /\ e \in NewsOf("kill") => (vm'.kill <=> e.on)
            /\ e \notin NewsOf("kill") => (vm'.kill <=> vm.kill)
        BY <1>7
      <3> QED BY <3>1, <2>1, <2>2, <2>3
    <2>5. Agrees(queue', NewsOf("thresholds"), vm'.loss, eng.loss)
      <3>1. /\ e \in NewsOf("thresholds") => (vm'.loss <=> e.on)
            /\ e \notin NewsOf("thresholds") => (vm'.loss <=> vm.loss)
        BY <1>7
      <3> QED BY <3>1, <2>1, <2>2, <2>3
    <2>6. ASSUME NEW t \in Trades
          PROVE  Agrees(queue', NewsOfTrade(t), t \in Range(vm'.pend), t \in eng.waiting)
      <3> DEFINE seen == t \in Range(vm.pend)
                 is == t \in eng.waiting
                 then == t \in Range(vm'.pend)
      <3>1. seen \in BOOLEAN /\ is \in BOOLEAN /\ then \in BOOLEAN
        OBVIOUS
      <3>2. Agrees(queue, NewsOfTrade(t), seen, is)
        BY <2>2
      <3>3. (e \in NewsOfTrade(t) => (then <=> e.on)) /\ (e \notin NewsOfTrade(t) => (then <=> seen))
        BY <1>8
      <3> HIDE DEF seen, is, then
      <3>4. Agrees(queue', NewsOfTrade(t), then, is)
        BY <3>1, <3>2, <3>3, <2>1
      <3> QED BY <3>4 DEF is, then
    <2> QED BY <2>4, <2>5, <2>6, <1>1 DEF Synced
  <1> QED BY <1>1, <1>6, <1>9 DEF Synced

----------------------------------------------------------------------------
\* What a key or a click may do to what others read: it says nothing, it engages
\* or releases, it approves a trade, it carries out the question drawn, or it
\* sets the thresholds.
HandDoes ==
    /\ Silent \/ Tells
    /\ ~eng.loss /\ eng'.loss => last'.acked
    /\ \/ last'.by = "none" /\ last'.kind = "none"
       \/ last'.kind \in {"engage", "release", "confirm", "thresholds"}
       \/ last'.what = ui.question.id /\ last'.shown = drawn.question.id
    /\ last'.by = "click" => last'.kind = "engage"

ShapeIsKept == DOMAIN ui' = DOMAIN ui /\ ui'.opens \in BOOLEAN

LEMMA QuietDoes == ASSUME ScreenTyped, Quiet PROVE HandDoes
  BY DEF Quiet, HandDoes, Silent, Nothing

LEMMA KillDoes ==
    ASSUME ScreenTyped, NEW by \in {"key", "click"}, NEW on \in BOOLEAN, Kill(by, on), by = "click" => on
    PROVE  HandDoes
  <1>1. /\ eng' = [eng EXCEPT !.killed = on] /\ eng'.loss = eng.loss
        /\ last' = [by |-> by, kind |-> IF on THEN "engage" ELSE "release", what |-> None, shown |-> None,
                    acked |-> FALSE]
    BY DEF Kill, Says, ScreenTyped
  <1>2. CASE eng.killed # on
    <2> DEFINE e == [kind |-> "kill", trade |-> None, on |-> on]
    <2>1. e \in News /\ e.kind = "kill" /\ e.on = on /\ Emit(e)
      BY <1>2 DEF News, Kill
    <2>2. Told(e)
      BY <1>1, <2>1 DEF Told
    <2>3. Tells
      BY <2>1, <2>2 DEF Tells
    <2> QED BY <1>1, <2>3 DEF HandDoes
  <1>3. CASE eng.killed = on
    <2>1. eng' = eng
      BY <1>1, <1>3 DEF ScreenTyped
    <2> QED BY <1>1, <1>3, <2>1 DEF Kill, HandDoes, Silent
  <1> QED BY <1>2, <1>3

LEMMA ConfirmDoes ==
    ASSUME ScreenTyped, vm.pend # <<>>, Confirm(vm.pend[1])
    PROVE  HandDoes
  <1> DEFINE t == vm.pend[1]
  <1>1. t \in Trades
    BY DEF ScreenTyped
  <1>2. /\ eng' = [eng EXCEPT !.waiting = @ \ {t}] /\ eng'.loss = eng.loss
        /\ last' = [by |-> "key", kind |-> "confirm", what |-> t, shown |-> drawn.front, acked |-> FALSE]
    BY DEF Confirm, Says, ScreenTyped
  <1>3. CASE t \in eng.waiting
    <2> DEFINE e == [kind |-> "moves", trade |-> t, on |-> FALSE]
    <2>1. e \in News /\ e.kind = "moves" /\ e.trade = t /\ ~e.on /\ Emit(e)
      BY <1>1, <1>3 DEF News, Confirm
    <2>2. Told(e)
      BY <1>2, <2>1 DEF Told
    <2>3. Tells
      BY <2>1, <2>2 DEF Tells
    <2> QED BY <1>2, <2>3 DEF HandDoes
  <1>4. CASE t \notin eng.waiting
    <2>1. eng' = eng
      BY <1>2, <1>4 DEF ScreenTyped
    <2> QED BY <1>2, <1>4, <2>1 DEF Confirm, HandDoes, Silent
  <1> QED BY <1>3, <1>4

LEMMA ThresholdsDo ==
    ASSUME ScreenTyped, NEW allow \in BOOLEAN, SetThresholds(ui.opens, allow)
    PROVE  HandDoes
  <1>1. /\ last'.by = "key" /\ last'.kind = "thresholds" /\ last'.acked = allow
        /\ ui.opens \in BOOLEAN
    BY DEF SetThresholds, Nothing, ScreenTyped
  <1>2. CASE Accepts(ui.opens, allow)
    <2> DEFINE e == [kind |-> "thresholds", trade |-> None, on |-> ui.opens]
    <2>1. /\ e \in News /\ e.kind = "thresholds" /\ e.on = ui.opens /\ Emit(e)
          /\ eng' = [eng EXCEPT !.loss = ui.opens]
      BY <1>1, <1>2 DEF News, SetThresholds
    <2>2. Told(e)
      BY <2>1 DEF Told
    <2>3. Tells
      BY <2>1, <2>2 DEF Tells
    <2>4. ~eng.loss /\ eng'.loss => last'.acked
      BY <1>1, <1>2, <2>1 DEF Accepts, ScreenTyped
    <2> QED BY <1>1, <2>3, <2>4 DEF HandDoes
  <1>3. CASE ~Accepts(ui.opens, allow)
    BY <1>1, <1>3 DEF SetThresholds, HandDoes, Silent
  <1> QED BY <1>2, <1>3

LEMMA CloseKeeps ==
    ASSUME ScreenTyped, NEW o
    PROVE  DOMAIN Close(o) = DOMAIN ui /\ Close(o).opens \in BOOLEAN
  BY DEF Close, ScreenTyped

LEMMA KeyDoes ==
    ASSUME ScreenTyped, Key
    PROVE  HandDoes /\ ShapeIsKept
  <1>0. {"open", "question", "opens"} \subseteq DOMAIN ui /\ ui.opens \in BOOLEAN
    BY DEF ScreenTyped
  <1>1. CASE KeyWallet
    BY <1>1, QuietDoes, CloseKeeps DEF KeyWallet, ShapeIsKept
  <1>2. CASE KeyNew
    <2>1. Quiet /\ (ui' = Close("new") \/ ui' = [Close("new") EXCEPT !.row = Len(Real(bots)) + 1])
      BY <1>2 DEF KeyNew
    <2>2. ShapeIsKept
      BY <1>0, <2>1, CloseKeeps DEF ShapeIsKept
    <2> QED BY <2>1, <2>2, QuietDoes
  <1>3. CASE KeyBudget
    <2>1. Quiet /\ (ui' = Close("budget") \/ ui' = AskOf(ui.form, "Budget"))
      BY <1>3 DEF KeyBudget
    <2>2. DOMAIN AskOf(ui.form, "Budget") = DOMAIN ui /\ AskOf(ui.form, "Budget").opens \in BOOLEAN
      BY <1>0, CloseKeeps DEF AskOf
    <2>3. ShapeIsKept
      BY <2>1, <2>2, CloseKeeps DEF ShapeIsKept
    <2> QED BY <2>1, <2>3, QuietDoes
  <1>4. CASE KeyQuestion
    <2>1. ShapeIsKept
      BY <1>4, CloseKeeps DEF KeyQuestion, ShapeIsKept
    <2>2. CASE Quiet
      BY <2>1, <2>2, QuietDoes
    <2>3. CASE Says("key", ui.question.action, Answer, drawn.question.id) /\ UNCHANGED <<eng, queue, dropped>>
      BY <2>1, <2>3 DEF Says, Answer, HandDoes, Silent
    <2> QED BY <1>4, <2>2, <2>3 DEF KeyQuestion
  <1>5. CASE KeyRelease
    BY <1>5, CloseKeeps, QuietDoes, KillDoes DEF KeyRelease, ShapeIsKept
  <1>6. CASE KeyThresholds
    <2>1. Quiet \/ \E allow \in BOOLEAN : SetThresholds(ui.opens, allow)
      BY <1>6 DEF KeyThresholds
    <2>2. \/ ui' = Close("thresholds")
          \/ \E opens \in BOOLEAN : ui' = [ui EXCEPT !.mode = "Review", !.opens = opens]
          \/ \E m \in {"Browse", "Ack", "Review"} : ui' = [ui EXCEPT !.mode = m]
      BY <1>6 DEF KeyThresholds
    <2>3. ShapeIsKept
      BY <1>0, <2>2, CloseKeeps DEF ShapeIsKept
    <2> QED BY <2>1, <2>3, QuietDoes, ThresholdsDo
  <1>7. CASE KeyReading
    BY <1>7, QuietDoes, CloseKeeps DEF KeyReading, ShapeIsKept
  <1>8. CASE KeyK("key")
    <2>1. (Quiet /\ Opens("release")) \/ (Kill("key", TRUE) /\ ui' = ui)
      BY <1>8 DEF KeyK
    <2>2. ShapeIsKept
      BY <1>0, <2>1 DEF Opens, ShapeIsKept
    <2> QED BY <2>1, <2>2, QuietDoes, KillDoes
  <1>9. CASE KeyConfirm
    BY <1>0, <1>9, ConfirmDoes DEF KeyConfirm, ShapeIsKept
  <1>10. CASE KeyLook
    <2>1. Quiet /\ ((\E p : ui' = [ui EXCEPT !.page = p]) \/ \E o : Opens(o))
      BY <1>10 DEF KeyLook
    <2>2. ShapeIsKept
      BY <1>0, <2>1 DEF Opens, ShapeIsKept
    <2> QED BY <2>1, <2>2, QuietDoes
  <1>11. CASE KeyBots
    <2>1. /\ Quiet
          /\ \/ \E r : ui' = [ui EXCEPT !.row = r]
             \/ \E p, r : ui' = [ui EXCEPT !.paper = p, !.row = r]
             \/ \E o : Opens(o)
             \/ \E f, o : ui' = [ui EXCEPT !.open = o, !.form = f]
             \/ \E q, o : ui' = [ui EXCEPT !.open = o, !.question = q]
      BY <1>11 DEF KeyBots
    <2>2. ShapeIsKept
      BY <1>0, <2>1 DEF Opens, ShapeIsKept
    <2> QED BY <2>1, <2>2, QuietDoes
  <1>12. CASE KeyWalletPage
    <2>1. ShapeIsKept
      BY <1>0, <1>12 DEF KeyWalletPage, Opens, ShapeIsKept
    <2> QED BY <1>12, <2>1, QuietDoes DEF KeyWalletPage
  <1> QED BY <1>1, <1>2, <1>3, <1>4, <1>5, <1>6, <1>7, <1>8, <1>9, <1>10, <1>11, <1>12 DEF Key

LEMMA ClickDoes ==
    ASSUME ScreenTyped, Click
    PROVE  HandDoes /\ ShapeIsKept
  <1>0. {"open", "question", "opens"} \subseteq DOMAIN ui /\ ui.opens \in BOOLEAN
    BY DEF ScreenTyped
  <1>1. CASE ClickOverlay
    <2>1. Quiet
      BY <1>1 DEF ClickOverlay
    <2>2. \/ ui' = ui \/ (\E o : ui' = [Close("release") EXCEPT !.open = o])
          \/ \E o : ui' = [ui EXCEPT !.open = o]
      BY <1>1 DEF ClickOverlay
    <2>3. ShapeIsKept
      BY <1>0, <2>2, CloseKeeps DEF ShapeIsKept
    <2> QED BY <2>1, <2>3, QuietDoes
  <1>2. CASE ClickPage
    <2>1. \/ Quiet /\ \/ \E p : ui' = [ui EXCEPT !.page = p]
                      \/ \E o : Opens(o)
                      \/ \E r : ui' = [ui EXCEPT !.row = r]
          \/ (Kill("click", TRUE) /\ ui' = ui)
      BY <1>2 DEF ClickPage, KeyK
    <2>2. ShapeIsKept
      BY <1>0, <2>1 DEF Opens, ShapeIsKept
    <2> QED BY <2>1, <2>2, QuietDoes, KillDoes
  <1> QED BY <1>1, <1>2 DEF Click

----------------------------------------------------------------------------
LEMMA WatchingInit == ScreenInit => Watching
  <1> SUFFICES ASSUME ScreenInit PROVE Watching
    OBVIOUS
  <1>1. PICK loss \in BOOLEAN : /\ eng = [waiting |-> {}, killed |-> FALSE, loss |-> loss]
                                /\ vm = [pend |-> <<>>, kill |-> FALSE, loss |-> loss]
    BY DEF ScreenInit
  <1>2. ScreenTyped
    <2>1. queue = <<>> /\ dropped = FALSE /\ dirty = TRUE
      BY DEF ScreenInit
    <2>2. {"open", "question", "opens"} \subseteq DOMAIN ui /\ ui.opens = FALSE
      BY DEF ScreenInit
    <2>3. <<>> \in Seq(News) /\ <<>> \in Seq(Trades)
      OBVIOUS
    <2> QED BY <1>1, <2>1, <2>2, <2>3 DEF ScreenTyped
  <1>3. IsInjective(vm.pend) /\ Range(vm.pend) = {}
    BY <1>1 DEF IsInjective, Range
  <1>4. Synced
    BY <1>1, <1>3 DEF ScreenInit, Synced, Agrees
  <1> QED BY <1>2, <1>3, <1>4 DEF ScreenInit, Watching, QuestionIsDrawn, ActedIsShown, ClicksOnlyKill, Nothing

\* The engine's own steps say what they do.
LEMMA EngineTells ==
    ASSUME ScreenTyped, EngineStep
    PROVE  Tells /\ (~eng.loss => ~eng'.loss) /\ UNCHANGED <<vm, ui, drawn, dirty, last>>
  <1>1. UNCHANGED <<vm, ui, drawn, dirty, last>>
    BY DEF EngineStep
  <1>2. ASSUME NEW e \in News, Told(e), e.kind # "thresholds" PROVE Tells /\ (~eng.loss => ~eng'.loss)
    BY <1>2 DEF Tells, Told, ScreenTyped
  <1>3. CASE EngineKills
    <2> DEFINE e == [kind |-> "kill", trade |-> None, on |-> TRUE]
    <2>1. e \in News /\ e.kind = "kill" /\ Told(e)
      BY <1>3 DEF EngineKills, News, Told
    <2> QED BY <2>1, <1>1, <1>2
  <1>4. ASSUME NEW t \in Trades, TradeWaits(t) PROVE Tells /\ (~eng.loss => ~eng'.loss)
    <2> DEFINE e == [kind |-> "waits", trade |-> t, on |-> TRUE]
    <2>1. e \in News /\ e.kind = "waits" /\ Told(e)
      BY <1>4 DEF TradeWaits, News, Told
    <2> QED BY <2>1, <1>2
  <1>5. ASSUME NEW t \in Trades, TradeGoesOn(t) PROVE Tells /\ (~eng.loss => ~eng'.loss)
    <2> DEFINE e == [kind |-> "moves", trade |-> t, on |-> FALSE]
    <2>1. e \in News /\ e.kind = "moves" /\ Told(e)
      BY <1>5 DEF TradeGoesOn, News, Told
    <2> QED BY <2>1, <1>2
  <1> QED BY <1>1, <1>3, <1>4, <1>5 DEF EngineStep

\* What a hand does keeps the view on its way.
LEMMA HandKeeps ==
    ASSUME Watching, HandDoes, ShapeIsKept, UNCHANGED <<vm, drawn>>, ~dirty, dirty' = TRUE
    PROVE  Watching'
  <1>0. ScreenTyped /\ Synced /\ IsInjective(vm.pend) /\ drawn.question = ui.question
    BY DEF Watching, QuestionIsDrawn
  <1>1. /\ eng' \in [waiting : SUBSET Trades, killed : BOOLEAN, loss : BOOLEAN]
        /\ queue' \in Seq(News) /\ dropped' \in BOOLEAN /\ Synced'
    <2>1. CASE Silent
      BY <1>0, <2>1 DEF Silent, ScreenTyped, Synced
    <2>2. CASE Tells
      BY <1>0, <2>2, ToldKeeps DEF Tells
    <2> QED BY <2>1, <2>2 DEF HandDoes
  <1>2. ScreenTyped'
    BY <1>0, <1>1 DEF ScreenTyped, ShapeIsKept
  <1>3. ActedIsShown' /\ ClicksOnlyKill' /\ QuestionIsDrawn'
    BY <1>0 DEF HandDoes, ActedIsShown, ClicksOnlyKill, QuestionIsDrawn
  <1> QED BY <1>0, <1>1, <1>2, <1>3 DEF Watching

LEMMA WatchingStep == Watching /\ [ScreenStep]_screenVars => Watching'
  <1> SUFFICES ASSUME Watching, [ScreenStep]_screenVars PROVE Watching'
    OBVIOUS
  <1>0. /\ ScreenTyped /\ Synced /\ IsInjective(vm.pend) /\ QuestionIsDrawn
        /\ ActedIsShown /\ ClicksOnlyKill
    BY DEF Watching
  <1>1. CASE UNCHANGED screenVars
    BY <1>0, <1>1 DEF screenVars, Watching, ScreenTyped, Synced, QuestionIsDrawn, ActedIsShown, ClicksOnlyKill
  <1>2. CASE EngineStep
    <2>1. Tells /\ UNCHANGED <<vm, ui, drawn, dirty, last>>
      BY <1>0, <1>2, EngineTells
    <2>2. /\ eng' \in [waiting : SUBSET Trades, killed : BOOLEAN, loss : BOOLEAN]
          /\ queue' \in Seq(News) /\ dropped' \in BOOLEAN /\ Synced'
      BY <1>0, <2>1, ToldKeeps DEF Tells
    <2>3. ScreenTyped'
      BY <1>0, <2>1, <2>2 DEF ScreenTyped
    <2> QED BY <1>0, <2>1, <2>2, <2>3 DEF Watching, QuestionIsDrawn, ActedIsShown, ClicksOnlyKill
  <1>3. CASE Apply
    <2>1. UNCHANGED <<eng, dropped, ui, drawn, dirty, last>>
      BY <1>3 DEF Apply
    <2>2. /\ vm' \in [pend : Seq(Trades), kill : BOOLEAN, loss : BOOLEAN]
          /\ queue' \in Seq(News) /\ Synced' /\ IsInjective(vm'.pend)
      BY <1>0, <1>3, ApplyKeeps
    <2>3. ScreenTyped'
      BY <1>0, <2>1, <2>2 DEF ScreenTyped
    <2> QED BY <1>0, <2>1, <2>2, <2>3 DEF Watching, QuestionIsDrawn, ActedIsShown, ClicksOnlyKill
  <1>4. CASE Refresh
    BY <1>0, <1>4 DEF Refresh, Watching, ScreenTyped, Synced, QuestionIsDrawn, ActedIsShown, ClicksOnlyKill
  <1>5. CASE Draw
    <2>1. /\ UNCHANGED <<eng, queue, dropped, vm, ui>> /\ dirty' = FALSE /\ last' = Nothing
          /\ drawn'.question = ui.question
      BY <1>5 DEF Draw
    <2> QED BY <1>0, <2>1 DEF Watching, ScreenTyped, Synced, QuestionIsDrawn, ActedIsShown, ClicksOnlyKill, Nothing
  <1>6. CASE Key
    BY <1>0, <1>6, KeyDoes, HandKeeps DEF Key
  <1>7. CASE Click
    BY <1>0, <1>7, ClickDoes, HandKeeps DEF Click
  <1> QED BY <1>1, <1>2, <1>3, <1>4, <1>5, <1>6, <1>7 DEF ScreenStep

\* App::on_key, on_mouse and ViewModel::apply: for any trades, bots and length of
\* the event channel, a bot's action is on the bot whose question was drawn, a
\* click does nothing but engage the kill switch, and once its events are in, the
\* view has what the engine has, unless one was dropped.
THEOREM HandsDoWhatTheyShow == ScreenSpec => []HandsAreTrue
  <1>1. Watching => HandsAreTrue
    <2> SUFFICES ASSUME Watching PROVE HandsAreTrue
      OBVIOUS
    <2>1. ASSUME queue = <<>>, ~dropped
          PROVE  Range(vm.pend) = eng.waiting /\ vm.kill = eng.killed /\ vm.loss = eng.loss
      <3>1. /\ vm.kill <=> eng.killed
            /\ vm.loss <=> eng.loss
            /\ \A t \in Trades : t \in Range(vm.pend) <=> t \in eng.waiting
        BY <2>1 DEF Watching, Synced, Agrees
      <3>2. Range(vm.pend) \subseteq Trades /\ eng.waiting \subseteq Trades
        BY DEF Watching, ScreenTyped, Range
      <3>3. {vm.kill, vm.loss, eng.killed, eng.loss} \subseteq BOOLEAN
        BY DEF Watching, ScreenTyped
      <3> QED BY <3>1, <3>2, <3>3
    <2> QED BY <2>1 DEF Watching, HandsAreTrue, ViewCatchesUp
  <1> QED
    BY WatchingInit, WatchingStep, <1>1, PTL DEF ScreenSpec

\* thresholds::apply: a panel that judges by a view that may be behind never has
\* settings that newly allow a loss taken without the typed words.
THEOREM LossIsTyped == ScreenSpec => LossIsAcknowledged
  <1>1. Watching /\ [ScreenStep]_screenVars => [~eng.loss /\ eng'.loss => last'.acked]_screenVars
    <2> SUFFICES ASSUME Watching, ScreenStep PROVE ~eng.loss /\ eng'.loss => last'.acked
      OBVIOUS
    <2>0. ScreenTyped
      BY DEF Watching
    <2>1. CASE EngineStep
      BY <2>0, <2>1, EngineTells
    <2>2. CASE Apply \/ Refresh \/ Draw
      BY <2>2 DEF Apply, Refresh, Draw
    <2>3. CASE Key \/ Click
      BY <2>0, <2>3, KeyDoes, ClickDoes DEF HandDoes
    <2> QED BY <2>1, <2>2, <2>3 DEF ScreenStep
  <1> QED
    BY WatchingInit, WatchingStep, <1>1, PTL DEF ScreenSpec, LossIsAcknowledged

----------------------------------------------------------------------------
(* Orders and swaps *)

\* A client and an account side by side: they share the gates.
ExchangeStep ==
    \/ (Tick \/ ClockDrift \/ Sync \/ Request) /\ UNCHANGED <<chain, swap>>
    \/ SwapStep /\ UNCHANGED clientVars
ExchangeSpec == ExInit /\ [][ExchangeStep]_exVars

Early == (MaxWait + 2 * MaxTransit + 1) \div 2
Late == (MaxTransit + 1) \div 2

\* How far a learned offset may be off what the clocks then were apart.
Near(ms, of) == ms \in Int /\ of \in Int /\ ms - of <= Early /\ of - ms <= Late

SyncIsTimed ==
    /\ sync.step \in {"idle", "waiting", "sent", "read"}
    /\ sync.step # "idle" => sync.asked \in Nat
    /\ sync.step = "waiting" => sync.asked <= clock /\ clock - sync.asked <= MaxWait
    /\ sync.step \in {"sent", "read"} =>
          /\ sync.since \in Nat /\ sync.since <= clock /\ clock - sync.since <= MaxTransit
          /\ sync.asked <= sync.since
    /\ sync.step = "sent" => sync.since - sync.asked <= MaxWait
    /\ sync.step = "read" =>
          /\ sync.since - sync.asked <= MaxWait + MaxTransit
          /\ sync.of \in Int /\ sync.server = sync.since + sync.of

\* What was signed carries the time of the exchange, as of when it was stamped.
ReqIsTimed ==
    /\ req.step \in {"idle", "waiting", "sent", "done"}
    /\ req.step \in {"waiting", "sent"} => req.asked \in Nat
    /\ req.step = "waiting" => req.asked <= clock
    /\ req.step = "sent" =>
          /\ req.since \in Nat /\ req.asked <= req.since /\ req.since <= clock /\ clock - req.since <= MaxTransit
          /\ Near(req.stamp - (IF client.kind = "okx" THEN req.since ELSE req.asked), req.of)
          /\ req.stamp \in Int

ReqIsAllowed ==
    req.step \in {"waiting", "sent"} /\ req.op = "place" => PermitFits(Permit(gates), client.demo)

ClocksInv ==
    /\ client.kind \in {"okx", "binance"} /\ clock \in Nat /\ skew \in Int /\ Near(offset.ms, offset.of)
    /\ SyncIsTimed /\ ReqIsTimed /\ SignedInTime

GatesInv ==
    /\ client.demo \in BOOLEAN /\ gates.trading \in BOOLEAN /\ gates.demo \in BOOLEAN
    /\ gates.sends \in BOOLEAN /\ gates.live \in BOOLEAN
    /\ ReqIsAllowed /\ OrdersNeedEveryGate

\* A base fee that rises by an eighth at most in each of up to five blocks is
\* still paid by the double of what it was.
Eights == <<1, 8, 64, 512, 4096, 32768>>
Nines == <<1, 9, 81, 729, 6561, 59049>>
Room(fees, n) == \A i \in 0..5 : n = i => 2 * Eights[i + 1] * chain.base <= Nines[i + 1] * fees

Fields == {"step", "nonce", "fees", "at", "call"}
ChainInv ==
    /\ {"block", "base", "price", "allow", "used", "pending", "mined"} \subseteq DOMAIN chain
    /\ DOMAIN swap = Swaps /\ \A s \in Swaps : Fields \subseteq DOMAIN swap[s]
    /\ chain.block \in Nat /\ chain.base \in Nat /\ chain.used \in Nat
    /\ \A t \in chain.pending : t.min = MinSwapOut /\ t.fees \in Nat /\ t.at \in Nat
                                /\ t.at <= chain.block /\ Room(t.fees, chain.block - t.at)
    /\ \A s \in Swaps : swap[s].step = "send" =>
                            /\ swap[s].fees \in Nat /\ swap[s].at \in Nat
                            /\ swap[s].at <= chain.block /\ Room(swap[s].fees, chain.block - swap[s].at)
    /\ \A t \in chain.mined : t.nonce \in Int /\ t.nonce < chain.used
    /\ SwapsKeepTheirTerms

LEMMA ExchangeStarts == ExInit => ClocksInv /\ GatesInv /\ ChainInv
  <1> SUFFICES ASSUME ExInit PROVE ClocksInv /\ GatesInv /\ ChainInv
    OBVIOUS
  <1>1. Near(offset.ms, offset.of)
    BY ExchangeAssumption DEF ExInit, Near, Early, Late
  <1>2. ClocksInv
    BY <1>1, ExchangeAssumption DEF ExInit, ClocksInv, SyncIsTimed, ReqIsTimed, SignedInTime, Idle
  <1>3. GatesInv
    BY DEF ExInit, GatesInv, ReqIsAllowed, OrdersNeedEveryGate, Idle
  <1>4. ChainInv
    BY DEF ExInit, ChainInv, SwapsKeepTheirTerms, Fields
  <1> QED BY <1>2, <1>3, <1>4

LEMMA ClockKeeps ==
    ASSUME ClocksInv, Tick \/ ClockDrift
    PROVE  ClocksInv'
  <1>1. CASE Tick
    BY <1>1, ExchangeAssumption DEF clientVars, Tick, Bounded, ClocksInv, SyncIsTimed, ReqIsTimed, SignedInTime, Near, Early, Late
  <1>2. CASE ClockDrift
    BY <1>2, ExchangeAssumption DEF ClockDrift, ClocksInv, SyncIsTimed, ReqIsTimed, SignedInTime, Near, Early, Late
  <1> QED BY <1>1, <1>2

LEMMA SyncKeeps ==
    ASSUME ClocksInv, Sync
    PROVE  ClocksInv'
  <1> USE ExchangeAssumption
  <1>0. UNCHANGED <<client, clock, skew, req>> /\ clock \in Nat /\ skew \in Int
    BY DEF Sync, ClocksInv
  <1>1. ReqIsTimed' /\ SignedInTime'
    BY <1>0 DEF ClocksInv, ReqIsTimed, SignedInTime, Near, Early, Late
  <1>2. SyncIsTimed' /\ Near(offset.ms, offset.of)'
    <2>1. CASE SyncStart /\ UNCHANGED offset
      BY <2>1, <1>0 DEF SyncStart, ClocksInv, SyncIsTimed, Near, Early, Late
    <2>2. CASE SyncSend /\ UNCHANGED offset
      BY <2>2, <1>0 DEF SyncSend, ClocksInv, SyncIsTimed, Near, Early, Late
    <2>3. CASE SyncRead /\ UNCHANGED offset
      BY <2>3, <1>0 DEF SyncRead, ClocksInv, SyncIsTimed, Near, Early, Late
    <2>4. CASE SyncDone
      <3> DEFINE a == sync.asked
                 r == sync.since
      <3>1. /\ a \in Nat /\ r \in Nat /\ sync.of \in Int /\ a <= r /\ r <= clock /\ clock - r <= MaxTransit
            /\ r - a <= MaxWait + MaxTransit /\ sync.server = r + sync.of
        BY <2>4 DEF SyncDone, ClocksInv, SyncIsTimed
      <3>2. offset' = [ms |-> sync.server - (a + clock) \div 2, of |-> sync.of] /\ sync' = Idle
        BY <2>4 DEF SyncDone
      <3>3. (a + clock) \div 2 \in Int /\ 2 * ((a + clock) \div 2) <= a + clock /\ a + clock <= 2 * ((a + clock) \div 2) + 1
        BY <3>1, <1>0
      <3>4. /\ Early \in Int /\ 2 * Early + 1 >= MaxWait + 2 * MaxTransit + 1
            /\ Late \in Int /\ 2 * Late + 1 >= MaxTransit + 1
        BY DEF Early, Late
      <3>5. Near(offset.ms, offset.of)'
        BY <3>1, <3>2, <3>3, <3>4, <1>0 DEF Near
      <3> QED BY <3>2, <3>5 DEF SyncIsTimed, Idle
    <2>5. CASE sync.step \in {"sent", "read"} /\ sync' = Idle /\ UNCHANGED offset
      BY <2>5, <1>0 DEF Idle, ClocksInv, SyncIsTimed, Near, Early, Late
    <2> QED BY <2>1, <2>2, <2>3, <2>4, <2>5 DEF Sync
  <1> QED BY <1>0, <1>1, <1>2 DEF ClocksInv

LEMMA RequestKeeps ==
    ASSUME ClocksInv, Request
    PROVE  ClocksInv'
  <1> USE ExchangeAssumption
  <1>0. UNCHANGED <<client, clock, skew, offset, sync>> /\ clock \in Nat /\ skew \in Int /\ Near(offset.ms, offset.of)
    BY DEF Request, ClocksInv
  <1>1. SyncIsTimed' /\ Near(offset.ms, offset.of)'
    BY <1>0 DEF ClocksInv, SyncIsTimed, Near, Early, Late
  <1>2. ReqIsTimed' /\ SignedInTime'
    <2>1. ASSUME NEW op, Private(op) PROVE ReqIsTimed' /\ SignedInTime'
      BY <2>1, <1>0 DEF Private, ReqIsTimed, SignedInTime
    <2>2. CASE Send
      <3>1. /\ req' = [step |-> "sent", op |-> req.op, asked |-> req.asked, since |-> clock,
                       stamp |-> Stamp(clock, req.asked), of |-> offset.of]
            /\ req.asked \in Nat /\ req.asked <= clock
        BY <2>2 DEF Send, ClocksInv, ReqIsTimed
      <3>2. /\ Stamp(clock, req.asked) \in Int
            /\ Stamp(clock, req.asked) - (IF client.kind = "okx" THEN clock ELSE req.asked) = offset.ms
        BY <1>0, <3>1 DEF Stamp, Near
      <3>3. 0 <= MaxTransit
        OBVIOUS
      <3> QED BY <1>0, <3>1, <3>2, <3>3 DEF ReqIsTimed, SignedInTime
    <2>3. CASE Arrive
      <3> DEFINE from == IF client.kind = "okx" THEN req.since ELSE req.asked
      <3>1. /\ req.asked \in Nat /\ req.since \in Nat /\ req.asked <= req.since /\ req.since <= clock
            /\ clock - req.since <= MaxTransit /\ Near(req.stamp - from, req.of) /\ req.stamp \in Int
        BY <2>3 DEF Arrive, ClocksInv, ReqIsTimed
      <3>2. req' = [step |-> "done", op |-> req.op, waited |-> req.since - req.asked, age |-> clock + skew - req.stamp,
                    known |-> req.of = skew]
        BY <2>3 DEF Arrive
      <3>3. from <= req.since /\ req.asked <= from /\ from \in Nat
        BY <3>1
      <3>4. Early \in Int /\ Late \in Int
        BY DEF Early, Late
      <3>5. ASSUME req.of = skew
            PROVE  /\ clock + skew - req.stamp >= -Early
                   /\ clock + skew - req.stamp <= Late + MaxTransit + (req.since - from)
        BY <3>1, <3>3, <3>4, <3>5, <1>0 DEF Near
      <3>6. SignedInTime'
        <4>1. req.of = skew => /\ clock + skew - req.stamp >= -Early
                               /\ clock + skew - req.stamp <= Late + MaxTransit
                                     + IF client.kind = "binance" THEN req.since - req.asked ELSE 0
          <5>1. client.kind \in {"okx", "binance"}
            BY DEF ClocksInv
          <5>2. CASE client.kind = "okx"
            BY <5>2, <3>1, <3>4, <3>5
          <5>3. CASE client.kind = "binance"
            BY <5>3, <3>5
          <5> QED BY <5>1, <5>2, <5>3
        <4> QED BY <4>1, <1>0, <3>2 DEF SignedInTime, Early, Late
      <3> QED BY <3>2, <3>6 DEF ReqIsTimed
    <2>4. CASE Lose
      BY <2>4 DEF Lose, Idle, ReqIsTimed, SignedInTime
    <2> QED BY <2>1, <2>2, <2>3, <2>4 DEF Request
  <1> QED BY <1>0, <1>1, <1>2 DEF ClocksInv

LEMMA GatesKeep ==
    ASSUME ClocksInv, GatesInv, (Tick \/ ClockDrift \/ Sync \/ Request) /\ UNCHANGED swap
    PROVE  GatesInv'
  <1>0. UNCHANGED <<client, gates, swap>>
    BY DEF Tick, ClockDrift, Sync, Request
  <1>1. CASE Tick \/ ClockDrift \/ Sync
    BY <1>1, <1>0 DEF Tick, ClockDrift, Sync, GatesInv, ReqIsAllowed, OrdersNeedEveryGate
  <1>2. ASSUME NEW op, Private(op), UNCHANGED orders PROVE GatesInv'
    BY <1>2, <1>0 DEF Private, Refused, GatesInv, ReqIsAllowed, OrdersNeedEveryGate
  <1>3. CASE Send /\ UNCHANGED orders
    BY <1>3, <1>0 DEF Send, GatesInv, ReqIsAllowed, OrdersNeedEveryGate
  <1>4. CASE Arrive
    <2>1. req.op = "place" => PermitFits(Permit(gates), client.demo)
      BY <1>4 DEF Arrive, GatesInv, ReqIsAllowed
    <2>2. ASSUME "real" \in orders' PROVE gates.trading /\ ~gates.demo /\ gates.sends /\ gates.live
      <3>1. "real" \in orders \/ (req.op = "place" /\ ~client.demo)
        BY <2>2, <1>4 DEF Arrive
      <3> QED BY <3>1, <2>1 DEF PermitFits, Permit, GatesInv, OrdersNeedEveryGate
    <2>3. ASSUME "demo" \in orders' PROVE gates.trading /\ gates.demo
      <3>1. "demo" \in orders \/ (req.op = "place" /\ client.demo)
        BY <2>3, <1>4 DEF Arrive
      <3>2. CASE "demo" \in orders
        BY <3>2 DEF GatesInv, OrdersNeedEveryGate
      <3>3. CASE req.op = "place" /\ client.demo
        <4>1. Permit(gates) = "demo"
          BY <3>3, <2>1 DEF PermitFits, GatesInv
        <4>2. gates.trading
          <5>1. ~gates.trading => Permit(gates) = "none"
            BY DEF Permit, GatesInv
          <5> QED BY <5>1, <4>1
        <4>3. gates.demo
          BY <4>1 DEF Permit, GatesInv
        <4> QED BY <4>2, <4>3
      <3> QED BY <3>1, <3>2, <3>3
    <2>4. OrdersNeedEveryGate'
      BY <2>2, <2>3, <1>0 DEF GatesInv, OrdersNeedEveryGate
    <2> QED BY <2>4, <1>4, <1>0 DEF Arrive, GatesInv, ReqIsAllowed
  <1>5. CASE Lose
    BY <1>5, <1>0 DEF Lose, Idle, GatesInv, ReqIsAllowed, OrdersNeedEveryGate
  <1> QED BY <1>1, <1>2, <1>3, <1>4, <1>5 DEF Request

\* What every step of a swap keeps: it is begun with every gate open, and one
\* about to be sent has read its fees.
SwapIsGated == \A s \in Swaps : swap[s].step # "start" => gates.trading /\ ~gates.demo /\ gates.sends /\ gates.live

LEMMA SwapMoves ==
    ASSUME ChainInv, SwapIsGated, NEW s \in Swaps, UNCHANGED <<chain, gates>>,
           NEW r, Set(s, r), Fields \subseteq DOMAIN r, r.step # "send",
           r.step # "start" => gates.trading /\ ~gates.demo /\ gates.sends /\ gates.live
    PROVE  (ChainInv /\ SwapIsGated)'
  <1>1. /\ DOMAIN swap = Swaps /\ DOMAIN swap' = Swaps
        /\ \A x \in Swaps : swap'[x] = IF x = s THEN r ELSE swap[x]
    BY DEF ChainInv, Set
  <1>2. SwapIsGated'
    BY <1>1 DEF SwapIsGated
  <1> QED BY <1>1, <1>2 DEF ChainInv, Room, SwapsKeepTheirTerms

LEMMA SwapStepKeeps ==
    ASSUME ChainInv, SwapIsGated, NEW s \in Swaps, UNCHANGED <<chain, gates>>,
           EnsureAllowance(s) \/ SimulateSwap(s) \/ Estimate(s) \/ Nonce(s) \/ ReadFees(s) \/ Receipt(s)
    PROVE  (ChainInv /\ SwapIsGated)'
  <1> DEFINE open == gates.trading /\ ~gates.demo /\ gates.sends /\ gates.live
  <1>0. Fields \subseteq DOMAIN swap[s] /\ (swap[s].step # "start" => open)
    BY DEF ChainInv, SwapIsGated
  <1>1. ASSUME NEW to \in {"allowed", "estimate", "failed", "nonce", "fees", "start", "done"}, NEW r, Set(s, r),
               Fields \subseteq DOMAIN r, r.step = to, to # "start" => open
        PROVE  (ChainInv /\ SwapIsGated)'
    <2>1. r.step # "send" /\ (r.step # "start" => open)
      BY <1>1
    <2> QED BY <1>1, <2>1, SwapMoves
  <1>2. ASSUME NEW to \in {"allowed", "estimate", "failed", "nonce", "fees", "start", "done"}, to # "start" => open
        PROVE  /\ Set(s, [swap[s] EXCEPT !.step = to]) => (ChainInv /\ SwapIsGated)'
               /\ \A c : Set(s, [swap[s] EXCEPT !.step = to, !.call = c]) => (ChainInv /\ SwapIsGated)'
               /\ \A n : Set(s, [swap[s] EXCEPT !.step = to, !.nonce = n]) => (ChainInv /\ SwapIsGated)'
    <2>1. ASSUME Set(s, [swap[s] EXCEPT !.step = to]) PROVE (ChainInv /\ SwapIsGated)'
      <3>1. PICK r : r = [swap[s] EXCEPT !.step = to]
        OBVIOUS
      <3>2. r.step = to /\ Fields \subseteq DOMAIN r
        BY <3>1, <1>0 DEF Fields
      <3> QED BY <1>1, <1>2, <2>1, <3>1, <3>2
    <2>2. ASSUME NEW c, Set(s, [swap[s] EXCEPT !.step = to, !.call = c]) PROVE (ChainInv /\ SwapIsGated)'
      <3>1. PICK r : r = [swap[s] EXCEPT !.step = to, !.call = c]
        OBVIOUS
      <3>2. r.step = to /\ Fields \subseteq DOMAIN r
        BY <3>1, <1>0 DEF Fields
      <3> QED BY <1>1, <1>2, <2>2, <3>1, <3>2
    <2>3. ASSUME NEW n, Set(s, [swap[s] EXCEPT !.step = to, !.nonce = n]) PROVE (ChainInv /\ SwapIsGated)'
      <3>1. PICK r : r = [swap[s] EXCEPT !.step = to, !.nonce = n]
        OBVIOUS
      <3>2. r.step = to /\ Fields \subseteq DOMAIN r
        BY <3>1, <1>0 DEF Fields
      <3> QED BY <1>1, <1>2, <2>3, <3>1, <3>2
    <2> QED BY <2>1, <2>2, <2>3
  <1>3. CASE EnsureAllowance(s)
    <2>1. open
      BY <1>3 DEF EnsureAllowance, Permit
    <2> QED BY <1>3, <2>1, <1>2 DEF EnsureAllowance
  <1>4. CASE SimulateSwap(s)
    BY <1>4, <1>0, <1>2 DEF SimulateSwap, Fails
  <1>5. CASE Estimate(s)
    BY <1>5, <1>0, <1>2 DEF Estimate, Fails
  <1>6. CASE Nonce(s)
    BY <1>6, <1>0, <1>2 DEF Nonce
  <1>7. CASE ReadFees(s)
    <2>1. /\ DOMAIN swap = Swaps /\ DOMAIN swap' = Swaps
          /\ \A x \in Swaps \ {s} : swap'[x] = swap[x]
          /\ Fields \subseteq DOMAIN swap'[s] /\ swap'[s].fees = Fees(chain.base, NodeTip) /\ swap'[s].at = chain.block
          /\ open
      BY <1>7, <1>0 DEF ReadFees, Set, ChainInv, Fields
    <2>2. /\ Fees(chain.base, NodeTip) \in Nat /\ chain.block \in Nat
          /\ Room(Fees(chain.base, NodeTip), chain.block - chain.block)
      BY ExchangeAssumption DEF Fees, Room, ChainInv, Eights, Nines
    <2>3. ASSUME NEW x \in Swaps, swap'[x].step = "send"
          PROVE  /\ swap'[x].fees \in Nat /\ swap'[x].at \in Nat
                 /\ swap'[x].at <= chain.block /\ Room(swap'[x].fees, chain.block - swap'[x].at)
      <3>1. CASE x = s
        BY <3>1, <2>1, <2>2
      <3>2. CASE x # s
        BY <3>2, <2>1, <2>3 DEF ChainInv
      <3> QED BY <3>1, <3>2
    <2>4. SwapIsGated'
      BY <2>1 DEF SwapIsGated
    <2> QED BY <2>1, <2>3, <2>4 DEF ChainInv, Room, SwapsKeepTheirTerms
  <1>8. CASE Receipt(s)
    BY <1>8, <1>0, <1>2 DEF Receipt
  <1> QED BY <1>3, <1>4, <1>5, <1>6, <1>7, <1>8

\* Room for one more rise.
LEMMA RoomLasts ==
    ASSUME ChainInv, NEW fees \in Nat, NEW n \in Nat, Room(fees, n), NEW base \in Nat,
           8 * base <= 9 * chain.base, chain'.base = base
    PROVE  Room(fees, n + 1)'
  <1>0. chain.base \in Nat
    BY DEF ChainInv
  <1>1. ASSUME NEW i \in 0..5, n + 1 = i PROVE 2 * Eights[i + 1] * base <= Nines[i + 1] * fees
    <2>1. CASE i = 1
      BY <2>1, <1>0, <1>1 DEF Room, Eights, Nines
    <2>2. CASE i = 2
      BY <2>2, <1>0, <1>1 DEF Room, Eights, Nines
    <2>3. CASE i = 3
      BY <2>3, <1>0, <1>1 DEF Room, Eights, Nines
    <2>4. CASE i = 4
      BY <2>4, <1>0, <1>1 DEF Room, Eights, Nines
    <2>5. CASE i = 5
      BY <2>5, <1>0, <1>1 DEF Room, Eights, Nines
    <2> QED BY <1>1, <2>1, <2>2, <2>3, <2>4, <2>5
  <1> QED BY <1>1 DEF Room

LEMMA RoomPays ==
    ASSUME ChainInv, NEW fees \in Nat, NEW n \in Nat, n <= 5, Room(fees, n)
    PROVE  fees >= chain.base
  <1>0. chain.base \in Nat
    BY DEF ChainInv
  <1>1. n = 0 \/ n = 1 \/ n = 2 \/ n = 3 \/ n = 4 \/ n = 5
    OBVIOUS
  <1> QED BY <1>0, <1>1 DEF Room, Eights, Nines

LEMMA SendTxKeeps ==
    ASSUME ChainInv, SwapIsGated, NEW s \in Swaps, UNCHANGED gates, SendTx(s)
    PROVE  (ChainInv /\ SwapIsGated)'
  <1> USE ExchangeAssumption
  <1>0. /\ Fields \subseteq DOMAIN swap[s] /\ swap[s].step = "send" /\ DOMAIN swap = Swaps
        /\ gates.trading /\ ~gates.demo /\ gates.sends /\ gates.live
    BY DEF ChainInv, SwapIsGated, SendTx
  <1>1. CASE Fails(s) /\ UNCHANGED chain
    <2>1. /\ Set(s, [swap[s] EXCEPT !.step = "failed"])
          /\ Fields \subseteq DOMAIN [swap[s] EXCEPT !.step = "failed"] /\ [swap[s] EXCEPT !.step = "failed"].step = "failed"
      BY <1>1, <1>0 DEF Fails, Fields
    <2> QED BY <2>1, <1>0, <1>1, SwapMoves
  <1>2. CASE ~(Fails(s) /\ UNCHANGED chain)
    <2> DEFINE tx == [nonce |-> swap[s].nonce, of |-> s, call |-> swap[s].call,
                      min |-> MinSwapOut, fees |-> swap[s].fees, at |-> swap[s].at]
    <2>1. /\ chain' = [chain EXCEPT !.pending = @ \cup {tx}]
          /\ Set(s, [swap[s] EXCEPT !.step = "sent"])
      BY <1>2 DEF SendTx
    <2>2. /\ {"block", "base", "price", "allow", "used", "pending", "mined"} \subseteq DOMAIN chain'
          /\ chain'.pending = chain.pending \cup {tx}
          /\ chain'.block = chain.block /\ chain'.base = chain.base /\ chain'.used = chain.used
          /\ chain'.mined = chain.mined
      BY <2>1 DEF ChainInv
    <2>3. /\ tx.fees \in Nat /\ tx.at \in Nat /\ tx.at <= chain.block /\ tx.min = MinSwapOut
          /\ Room(tx.fees, chain.block - tx.at) /\ chain.block - tx.at \in Nat
      BY <1>0 DEF ChainInv
    <2>4. chain.block - tx.at <= FullBlocks => tx.fees >= chain.base
      BY <2>3, RoomPays
    <2> HIDE DEF tx
    <2>5. /\ DOMAIN swap' = Swaps /\ swap'[s].step = "sent" /\ Fields \subseteq DOMAIN swap'[s]
          /\ \A x \in Swaps \ {s} : swap'[x] = swap[x]
      BY <2>1, <1>0 DEF Set, Fields
    <2>6. SwapIsGated'
      BY <2>5, <1>0 DEF SwapIsGated
    <2>7. SwapsKeepTheirTerms'
      BY <2>2, <2>4 DEF ChainInv, SwapsKeepTheirTerms
    <2> QED BY <2>2, <2>3, <2>5, <2>6, <2>7 DEF ChainInv, Room
  <1> QED BY <1>1, <1>2

LEMMA BlockKeeps ==
    ASSUME ChainInv, SwapIsGated, Block, UNCHANGED gates
    PROVE  (ChainInv /\ SwapIsGated)'
  <1> USE ExchangeAssumption
  <1>0. /\ chain.block \in Nat /\ chain.base \in Nat /\ chain.used \in Nat /\ swap' = swap
    BY DEF ChainInv, Block
  <1>1. PICK price \in Prices, up \in BOOLEAN :
        LET base == IF up THEN chain.base + chain.base \div 8 ELSE chain.base
            moved == [chain EXCEPT !.block = @ + 1, !.base = base, !.price = price]
            next == {t \in chain.pending : t.nonce = chain.used /\ t.fees >= base}
        IN  chain' = IF next = {} THEN moved
                     ELSE LET t == CHOOSE x \in next : TRUE
                              out == AmountIn * price
                              ok == t.call = "approve" \/ (chain.allow >= AmountIn /\ out >= t.min)
                          IN  [moved EXCEPT !.pending = @ \ {t}, !.used = @ + 1,
                                  !.allow = IF t.call = "approve" THEN AmountIn ELSE IF ok THEN @ - AmountIn ELSE @,
                                  !.mined = @ \cup {[of |-> t.of, call |-> t.call, nonce |-> t.nonce, ok |-> ok,
                                                     out |-> IF ok /\ t.call = "swap" THEN out ELSE 0]}]
    BY DEF Block
  <1> DEFINE base == IF up THEN chain.base + chain.base \div 8 ELSE chain.base
             next == {t \in chain.pending : t.nonce = chain.used /\ t.fees >= base}
  <1>2. base \in Nat /\ 8 * base <= 9 * chain.base
    BY <1>0
  <1> HIDE DEF base
  <1>3. /\ {"block", "base", "price", "allow", "used", "pending", "mined"} \subseteq DOMAIN chain'
        /\ chain'.block = chain.block + 1 /\ chain'.base = base
        /\ chain'.pending \subseteq chain.pending
    BY <1>1 DEF base, ChainInv
  <1>4. \/ chain'.used = chain.used /\ chain'.mined = chain.mined
        \/ \E t \in chain.pending : \E m :
              /\ t.nonce = chain.used /\ chain'.used = chain.used + 1
              /\ chain'.mined = chain.mined \cup {m} /\ m.nonce = chain.used
              /\ m.call = "swap" /\ m.ok => m.out >= t.min
    <2>1. CASE next = {}
      BY <2>1, <1>1 DEF base, ChainInv
    <2>2. CASE next # {}
      <3>1. PICK t \in next : t = CHOOSE x \in next : TRUE
        BY <2>2
      <3> DEFINE out == AmountIn * price
                 ok == t.call = "approve" \/ (chain.allow >= AmountIn /\ out >= t.min)
                 m == [of |-> t.of, call |-> t.call, nonce |-> t.nonce, ok |-> ok,
                       out |-> IF ok /\ t.call = "swap" THEN out ELSE 0]
      <3>2. chain'.used = chain.used + 1 /\ chain'.mined = chain.mined \cup {m}
        BY <2>2, <3>1, <1>1 DEF base, ChainInv
      <3>3. m.nonce = chain.used /\ (m.call = "swap" /\ m.ok => m.out >= t.min)
        BY <3>1
      <3> HIDE DEF m
      <3> QED BY <3>1, <3>2, <3>3
    <2> QED BY <2>1, <2>2
  <1>5. ASSUME NEW fees \in Nat, NEW at \in Nat, at <= chain.block, Room(fees, chain.block - at)
        PROVE  /\ at <= chain'.block /\ chain'.block - at \in Nat
               /\ \A n : n = chain'.block - at => Room(fees, n)'
    <2>1. PICK n \in Nat : n = chain.block - at
      BY <1>0, <1>5
    <2>2. Room(fees, n + 1)'
      BY <2>1, <1>2, <1>3, <1>5, RoomLasts
    <2>3. chain'.block - at = n + 1 /\ at <= chain'.block
      BY <2>1, <1>0, <1>3
    <2> QED BY <2>1, <2>2, <2>3
  <1>6. ASSUME NEW t \in chain'.pending
        PROVE  /\ t.min = MinSwapOut /\ t.fees \in Nat /\ t.at \in Nat /\ t.at <= chain'.block
               /\ Room(t.fees, chain.block - t.at)'
               /\ chain'.block - t.at <= FullBlocks => t.fees >= chain'.base
    <2>1. /\ t \in chain.pending /\ t.min = MinSwapOut /\ t.fees \in Nat /\ t.at \in Nat
          /\ t.at <= chain.block /\ Room(t.fees, chain.block - t.at)
      BY <1>3 DEF ChainInv
    <2>2. PICK fees \in Nat, at \in Nat, n \in Nat : fees = t.fees /\ at = t.at /\ n = chain'.block - at
      BY <2>1, <1>0, <1>3
    <2>3. Room(fees, n)' /\ at <= chain'.block
      BY <1>5, <2>1, <2>2
    <2>4. n <= 5 => fees >= chain'.base
      <3>1. n = 0 \/ n = 1 \/ n = 2 \/ n = 3 \/ n = 4 \/ n = 5 \/ n > 5
        OBVIOUS
      <3> QED BY <1>2, <1>3, <2>3, <3>1 DEF Room, Eights, Nines
    <2> QED BY <2>1, <2>2, <2>3, <2>4 DEF Room
  <1>7. ASSUME NEW s \in Swaps, swap[s].step = "send"
        PROVE  /\ swap[s].fees \in Nat /\ swap[s].at \in Nat /\ swap[s].at <= chain'.block
               /\ Room(swap[s].fees, chain.block - swap[s].at)'
    <2>1. /\ swap[s].fees \in Nat /\ swap[s].at \in Nat
          /\ swap[s].at <= chain.block /\ Room(swap[s].fees, chain.block - swap[s].at)
      BY <1>7 DEF ChainInv
    <2>2. PICK fees \in Nat, at \in Nat, n \in Nat : fees = swap[s].fees /\ at = swap[s].at /\ n = chain'.block - at
      BY <2>1, <1>0, <1>3
    <2>3. Room(fees, n)' /\ at <= chain'.block
      BY <1>5, <2>1, <2>2
    <2> QED BY <2>1, <2>2, <2>3, <1>0 DEF Room
  <1>8. /\ chain'.used \in Nat
        /\ \A t \in chain'.mined : t.nonce \in Int /\ t.nonce < chain'.used
        /\ \A t \in chain'.mined : t.call = "swap" /\ t.ok => t.out >= MinSwapOut
        /\ \A t, u \in chain'.mined : t.nonce = u.nonce => t = u
    <2>1. CASE chain'.used = chain.used /\ chain'.mined = chain.mined
      BY <2>1 DEF ChainInv, SwapsKeepTheirTerms
    <2>2. ASSUME NEW t \in chain.pending, NEW m, t.nonce = chain.used, chain'.used = chain.used + 1,
                 chain'.mined = chain.mined \cup {m}, m.nonce = chain.used,
                 m.call = "swap" /\ m.ok => m.out >= t.min
          PROVE  <1>8!1 /\ <1>8!2 /\ <1>8!3 /\ <1>8!4
      BY <2>2, <1>0 DEF ChainInv, SwapsKeepTheirTerms
    <2> QED BY <1>4, <2>1, <2>2
  <1>9. SwapIsGated'
    BY <1>0 DEF SwapIsGated
  <1>10. DOMAIN swap' = Swaps /\ \A s \in Swaps : Fields \subseteq DOMAIN swap'[s]
    BY <1>0 DEF ChainInv
  <1>11. SwapsKeepTheirTerms'
    BY <1>6, <1>8 DEF SwapsKeepTheirTerms
  <1>12. chain'.block \in Nat /\ chain'.base \in Nat
    BY <1>0, <1>2, <1>3
  <1> QED BY <1>0, <1>3, <1>6, <1>7, <1>8, <1>9, <1>10, <1>11, <1>12 DEF ChainInv

\* A client with its clock and its gates, and an account with its swaps, side by
\* side: for any delays, skews, drifts, swaps, prices and tips, a request arrives
\* with the exchange's time, an order with every gate open, and a swap pays out
\* its minimum and can pay for five full blocks.
THEOREM OrdersKeepTheirTerms == ExchangeSpec => []VenueOrdersAreSafe
  <1> DEFINE Inv == ClocksInv /\ GatesInv /\ ChainInv
  <1>1. ExInit => Inv
    BY ExchangeStarts
  <1>2. Inv /\ [ExchangeStep]_exVars => Inv'
    <2> SUFFICES ASSUME Inv, [ExchangeStep]_exVars PROVE Inv'
      OBVIOUS
    <2>0. SwapIsGated
      BY DEF GatesInv, OrdersNeedEveryGate, SwapIsGated
    <2>1. CASE UNCHANGED exVars
      BY <2>1 DEF exVars, ClocksInv, SyncIsTimed, ReqIsTimed, SignedInTime, Near, GatesInv, ReqIsAllowed,
         OrdersNeedEveryGate, ChainInv, Room, SwapsKeepTheirTerms
    <2>2. CASE (Tick \/ ClockDrift \/ Sync \/ Request) /\ UNCHANGED <<chain, swap>>
      <3>1. ClocksInv'
        BY <2>2, ClockKeeps, SyncKeeps, RequestKeeps
      <3>2. GatesInv'
        BY <2>2, GatesKeep
      <3>3. ChainInv'
        BY <2>2 DEF ChainInv, Room, SwapsKeepTheirTerms
      <3> QED BY <3>1, <3>2, <3>3
    <2>3. CASE SwapStep /\ UNCHANGED clientVars
      <3>0. UNCHANGED <<client, gates, clock, skew, drifts, offset, sync, req, orders>>
        BY <2>3 DEF clientVars
      <3>1. ClocksInv'
        BY <3>0 DEF ClocksInv, SyncIsTimed, ReqIsTimed, SignedInTime, Near
      <3>2. (ChainInv /\ SwapIsGated)'
        BY <2>0, <2>3, <3>0, SwapStepKeeps, SendTxKeeps, BlockKeeps DEF SwapStep
      <3>3. GatesInv'
        BY <3>0, <3>2 DEF GatesInv, ReqIsAllowed, OrdersNeedEveryGate, SwapIsGated
      <3> QED BY <3>1, <3>2, <3>3
    <2> QED BY <2>1, <2>2, <2>3 DEF ExchangeStep
  <1>3. Inv => VenueOrdersAreSafe
    BY DEF ClocksInv, GatesInv, ChainInv, VenueOrdersAreSafe
  <1> QED BY <1>1, <1>2, <1>3, PTL DEF ExchangeSpec
=============================================================================
