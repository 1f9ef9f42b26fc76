------------------------------- MODULE Purse -------------------------------
(***************************************************************************)
(* The wallet page's transfers: the form of the terminal UI                *)
(* (tui/src/wallet.rs, app.rs), and the purse that checks, reviews and     *)
(* sends them (purse.rs).                                                  *)
(*                                                                         *)
(* Three threads share one view.  The UI thread acts on its own copy of    *)
(* it, which a reader thread renews and which may therefore be old.  The   *)
(* wallet's thread receives the page's wishes in order: forgetting is done *)
(* at once, a check or a send becomes a task of its own, and the tasks     *)
(* wait for the chain in any order.  Whatever order that gives, nothing    *)
(* may be sent that the operator did not confirm, or sent twice.           *)
(*                                                                         *)
(* A request is an address and an amount; what the check finds out about   *)
(* it and the words on the page are left out.                              *)
(***************************************************************************)
EXTENDS Naturals, Sequences

CONSTANTS Reqs,        \* requests: [to, amount]
          NoReq,       \* the page with no transfer on it
          MaxWishes    \* bound: wishes the page hands over

ASSUME PurseAssumption ==
    /\ NoReq \notin Reqs /\ MaxWishes \in Nat
    /\ \A r \in Reqs : r.to \in STRING /\ r.amount \in Nat

VARIABLES
    view,      \* WalletView.sending
    reviewed,  \* Purse.reviewed: nothing or one request
    wishes,    \* the channel of WalletActions
    spawned,   \* tasks not polled yet, in the order of tokio's run queue
    checks,    \* reviews that wait for the chain, by request
    dispatch,  \* sends that check again, by request
    flying,    \* transfers handed over whose fate is not known, by request
    form,      \* the form is open
    typed,     \* the end of an address typed to confirm, or ""
    shown,     \* the UI's copy of the view
    fetched,   \* what the reader thread read and has not stored yet
    asked,     \* history: the request last checked
    reviews, transferred, \* history: reviews shown and transfers, by request
    handed     \* counter for the bound

page == <<form, typed, shown, fetched>>
tasks == <<spawned, checks, dispatch, flying>>
history == <<asked, reviews, transferred, handed>>
vars == <<view, reviewed, wishes, tasks, page, history>>

----------------------------------------------------------------------------
Kinds == {"Checking", "Refused", "Reviewed", "Sending", "Done", "Failed"}

Is(kind, r) == [is |-> kind, req |-> r]
Empty == Is("none", NoReq)

Views == {Empty} \cup [is : Kinds, req : Reqs]
Actions == [do : {"Check", "Send"}, req : Reqs] \cup {[do |-> "Clear", req |-> NoReq]}

Clear == [do |-> "Clear", req |-> NoReq]

One(f, r) == [f EXCEPT ![r] = @ + 1]
Less(f, r) == [f EXCEPT ![r] = @ - 1]
ZeroEach == [r \in Reqs |-> 0]

Init ==
    /\ view = Empty /\ reviewed = {} /\ wishes = <<>>
    /\ spawned = <<>> /\ checks = ZeroEach /\ dispatch = ZeroEach /\ flying = ZeroEach
    /\ form = FALSE /\ typed = "" /\ shown = Empty /\ fetched = Empty
    /\ asked = NoReq /\ reviews = ZeroEach /\ transferred = ZeroEach /\ handed = 0

----------------------------------------------------------------------------
(* The page *)

\* Wallet::act: hand it over, then read the view again.
Wish(a) ==
    /\ handed < MaxWishes /\ handed' = handed + 1
    /\ wishes' = Append(wishes, a)
    /\ shown' = view
    /\ UNCHANGED <<view, reviewed, tasks, fetched, asked, reviews, transferred>>

Writing == form /\ shown.is \in {"none", "Refused"}

OpenForm ==
    /\ ~form /\ form' = TRUE /\ typed' = ""
    /\ UNCHANGED <<view, reviewed, wishes, tasks, shown, fetched, history>>

\* Enter on the last field.
AskCheck(r) ==
    /\ Writing
    /\ Wish([do |-> "Check", req |-> r])
    /\ UNCHANGED <<form, typed>>

\* The end of an address, typed under the review on the page.
Type(end) ==
    /\ form /\ shown.is = "Reviewed" /\ typed # end /\ typed' = end
    /\ UNCHANGED <<view, reviewed, wishes, tasks, form, shown, fetched, history>>

\* Enter under a review, confirmed by the end of its address.
AskSend ==
    /\ form /\ shown.is = "Reviewed" /\ typed = shown.req.to
    /\ Wish([do |-> "Send", req |-> shown.req])
    /\ typed' = ""
    /\ UNCHANGED form

\* Esc: a check or a review is walked away from; a form being written, or any
\* key under an end, closes it.
Leave ==
    /\ form /\ shown.is # "Sending"
    /\ Wish(Clear)
    /\ form' = (shown.is \in {"Checking", "Reviewed"})
    /\ typed' = IF shown.is = "Reviewed" THEN "" ELSE typed

\* Wallet::start: the reader thread reads, and stores what it read.
Fetch ==
    /\ fetched # view /\ fetched' = view
    /\ UNCHANGED <<view, reviewed, wishes, tasks, form, typed, shown, history>>

Store ==
    /\ shown # fetched /\ shown' = fetched
    /\ UNCHANGED <<view, reviewed, wishes, tasks, form, typed, fetched, history>>

----------------------------------------------------------------------------
(* The wallet's thread *)

\* port: forgetting is done at once; but a transfer being sent stays.
Forget ==
    /\ wishes # <<>> /\ Head(wishes) = Clear
    /\ wishes' = Tail(wishes)
    /\ IF view.is = "Sending" THEN UNCHANGED <<view, reviewed>>
                              ELSE view' = Empty /\ reviewed' = {}
    /\ UNCHANGED <<tasks, page, history>>

\* port: the rest are tasks of their own.
Spawn ==
    /\ wishes # <<>> /\ Head(wishes) # Clear
    /\ wishes' = Tail(wishes) /\ spawned' = Append(spawned, Head(wishes))
    /\ UNCHANGED <<view, reviewed, checks, dispatch, flying, page, history>>

\* review, up to the chain: what can be refused without it is refused at once.
BeginReview ==
    /\ spawned # <<>> /\ Head(spawned).do = "Check"
    /\ spawned' = Tail(spawned)
    /\ LET r == Head(spawned).req IN
       \/ view' = Is("Checking", r) /\ checks' = One(checks, r)
       \/ view' = Is("Refused", r) /\ UNCHANGED checks
    /\ asked' = Head(spawned).req
    /\ UNCHANGED <<reviewed, wishes, dispatch, flying, page, reviews, transferred, handed>>

\* Mutant of StillChecked: a late answer is shown whatever is on the page.
AnyAnswer(r) == view.is = "Checking"

\* review: not walked away from while it was being checked.
StillChecked(r) == view = Is("Checking", r)

\* Mutant of Kept: reviews are collected.
Collected(r) == reviewed \cup {r}

\* review: what was shown last is what can be sent.
Kept(r) == {r}

\* review, once the chain has answered.
EndReview(r) ==
    /\ checks[r] > 0 /\ checks' = Less(checks, r)
    /\ \/ /\ StillChecked(r)
          /\ view' = Is("Reviewed", r) /\ reviewed' = Kept(r) /\ reviews' = One(reviews, r)
       \/ /\ StillChecked(r)
          /\ view' = Is("Refused", r) /\ UNCHANGED <<reviewed, reviews>>
       \/ /\ ~StillChecked(r)
          /\ UNCHANGED <<view, reviewed, reviews>>
    /\ UNCHANGED <<wishes, spawned, dispatch, flying, page, asked, transferred, handed>>

\* send: the page shows it as reviewed, and it was not taken yet.
Sendable(r) == view = Is("Reviewed", r) /\ reviewed = {r}

\* Mutant of Taken: the review is taken off only at the end.
TakenLate(r) == UNCHANGED <<view, reviewed>>

\* send: from here on it is being sent, a second Send finds nothing reviewed.
Taken(r) == view' = Is("Sending", r) /\ reviewed' = {}

\* send, up to the chain.
BeginSend ==
    /\ spawned # <<>> /\ Head(spawned).do = "Send"
    /\ spawned' = Tail(spawned)
    /\ LET r == Head(spawned).req IN
       \/ Sendable(r) /\ Taken(r) /\ dispatch' = One(dispatch, r)
       \/ ~Sendable(r) /\ UNCHANGED <<view, reviewed, dispatch>>
    /\ UNCHANGED <<wishes, checks, flying, page, history>>

\* Mutant of NotSent: the refusal is not put on the page.
NotSentSilently(r) ==
    /\ dispatch[r] > 0 /\ dispatch' = Less(dispatch, r)
    /\ UNCHANGED <<view, reviewed, wishes, spawned, checks, flying, page, history>>

\* dispatch: the second check, the key or the simulation as signed says no.
NotSent(r) ==
    /\ dispatch[r] > 0 /\ dispatch' = Less(dispatch, r)
    /\ view' = Is("Failed", r)
    /\ UNCHANGED <<reviewed, wishes, spawned, checks, flying, page, history>>

\* send_plain hands it over.
HandOver(r) ==
    /\ dispatch[r] > 0 /\ dispatch' = Less(dispatch, r)
    /\ flying' = One(flying, r) /\ transferred' = One(transferred, r)
    /\ UNCHANGED <<view, reviewed, wishes, spawned, checks, page, asked, reviews, handed>>

\* Mutant of EndSend: only a transfer that arrived is put on the page.
EndSendArrived(r) ==
    /\ flying[r] > 0 /\ flying' = Less(flying, r)
    /\ view' \in {view, Is("Done", r)}
    /\ UNCHANGED <<reviewed, wishes, spawned, checks, dispatch, page, history>>

\* deliver knows its fate, or gives up after two minutes.
EndSend(r) ==
    /\ flying[r] > 0 /\ flying' = Less(flying, r)
    /\ \E end \in {"Done", "Failed"} : view' = Is(end, r)
    /\ UNCHANGED <<reviewed, wishes, spawned, checks, dispatch, page, history>>

----------------------------------------------------------------------------
Worker ==
    \/ Forget \/ Spawn \/ BeginReview \/ BeginSend
    \/ \E r \in Reqs : EndReview(r) \/ NotSent(r) \/ HandOver(r) \/ EndSend(r)

Next ==
    \/ Worker \/ Fetch \/ Store
    \/ OpenForm \/ AskSend \/ Leave
    \/ \E r \in Reqs : AskCheck(r) \/ Type(r.to)

Spec == Init /\ [][Next]_vars

\* The wallet's thread keeps going; every wait of its tasks has a timeout.
FairSpec == Spec /\ WF_vars(Worker)

----------------------------------------------------------------------------
(* Properties *)

\* Type correctness of the view, its copies, the tasks and the counts.
TypeOK ==
    /\ view \in Views /\ shown \in Views /\ fetched \in Views
    /\ reviewed \in {{}} \cup {{r} : r \in Reqs}
    /\ wishes \in Seq(Actions) /\ spawned \in Seq(Actions)
    /\ checks \in [Reqs -> Nat] /\ dispatch \in [Reqs -> Nat] /\ flying \in [Reqs -> Nat]
    /\ form \in BOOLEAN /\ typed \in {""} \cup {r.to : r \in Reqs}
    /\ asked \in Reqs \cup {NoReq}
    /\ reviews \in [Reqs -> Nat] /\ transferred \in [Reqs -> Nat] /\ handed \in Nat

\* "a second `Send` finds nothing reviewed": a request is handed over at most
\* once for each time its review was put on the page, however often and in
\* whatever order it was confirmed on a page that was old.
OneTransferPerReview == \A r \in Reqs : transferred[r] <= reviews[r]

\* What the page offers to be sent is what was asked for last: the answer to
\* an earlier check that comes late is not shown in its place.
ReviewIsOfTheLastAsked == view.is = "Reviewed" => view.req = asked

\* The page never waits for what is not there: a check or a transfer under way
\* has its task (the page takes no key then, or only Esc), and a review on the
\* page is the one that can be sent.
PageIsAlive ==
    /\ view.is = "Checking" => checks[view.req] > 0
    /\ view.is = "Sending" => dispatch[view.req] + flying[view.req] > 0
    /\ view.is = "Reviewed" => reviewed = {view.req}

\* The wallet's page sends only what was reviewed, once, as it was asked for
\* last, and never waits for nothing (Purse::review, send, dispatch and Clear
\* in any order, behind a view that may be old).
OnlyWhatWasReviewed == TypeOK /\ OneTransferPerReview /\ ReviewIsOfTheLastAsked /\ PageIsAlive

\* A transfer that is being sent comes to an end on the page.
SendingEnds == \A r \in Reqs : view = Is("Sending", r) ~> view # Is("Sending", r)
=============================================================================
