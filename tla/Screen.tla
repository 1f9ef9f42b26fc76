------------------------------- MODULE Screen -------------------------------
(***************************************************************************)
(* The terminal UI as the operator's hand on the engine and the bots:      *)
(* tui/app.rs (keys, clicks, overlays), tui/run.rs (its loop), tui/hub.rs  *)
(* (the view model), tui/thresholds.rs (the threshold panel) and the       *)
(* actions of tui/bots.rs.  The loop draws after every key and whenever    *)
(* there is news; between a frame and the next key the engine's events     *)
(* change the view model and a thread of the Bots page its list.  Events   *)
(* wait in a queue that drops what does not fit.                           *)
(*                                                                         *)
(* Left out: what is drawn beyond what a key answers, scrolling, graphs,   *)
(* the candles, and the transfer form (module Purse).                      *)
(***************************************************************************)
EXTENDS Integers, Sequences, SequencesExt, FiniteSets

CONSTANTS Trades,     \* opportunities that may wait for their y
          Bots,       \* real bots, in the order their runs were begun
          NewBot,     \* the bot the form makes
          Paper,      \* a paper experiment, listed last
          None,
          UiQueue,    \* the bound of the event channel to the UI
          MaxEvents   \* bound: keys, clicks and what the engine does by itself

ASSUME ScreenAssumption == UiQueue \in Nat \ {0} /\ MaxEvents \in Nat

VARIABLES
    eng,     \* the engine: trades that wait, the kill switch, whether a loss is possible
    queue,   \* events on the way to the view model
    dropped, \* dropped_ui > 0
    vm,      \* ViewModel: pending_confirm, kill, loss_possible
    bots,    \* the Bots page's list: [id, state]
    ui,      \* App: page, open overlays, what they hold, the selected row
    drawn,   \* the last frame: the trade in the banner, the question asked
    dirty,   \* a key was handled: the next thing is a frame
    last,    \* history: what the last key or click sent
    events   \* counter for the bound

screenVars == <<eng, queue, dropped, vm, bots, ui, drawn, dirty, last, events>>

----------------------------------------------------------------------------
NoQuestion == [id |-> None, action |-> "none"]
Nothing == [by |-> "none", kind |-> "none", what |-> None, shown |-> None, acked |-> FALSE]

\* on_key: the first of these that is open gets the key.
Order == <<"wallet", "new", "budget", "question", "release", "thresholds",
           "picker", "detail", "help">>
Top == IF ui.open = {} THEN "none"
       ELSE Order[CHOOSE i \in DOMAIN Order :
                    Order[i] \in ui.open /\ \A j \in 1..(i - 1) : Order[j] \notin ui.open]

\* App::modal: the threshold panel is not among them.
Modal == ui.open \ {"thresholds"} # {}

\* Desk::read: the one that runs, then the others, then the paper runs.
Listing(running, real) ==
    LET is(b) == [id |-> b, state |-> IF b = running THEN "Running" ELSE "Stopped"]
        first == SelectSeq(real, LAMBDA b : b = running)
        rest == SelectSeq(real, LAMBDA b : b # running)
    IN [i \in DOMAIN (first \o rest) |-> is((first \o rest)[i])]
       \o <<[id |-> Paper, state |-> "Paper"]>>

Real(list) == SelectSeq([i \in DOMAIN list |-> list[i].id], LAMBDA b : b # Paper)

ScreenInit ==
    /\ \E loss \in BOOLEAN :
        /\ eng = [waiting |-> {}, killed |-> FALSE, loss |-> loss]
        /\ vm = [pend |-> <<>>, kill |-> FALSE, loss |-> loss]
    /\ queue = <<>> /\ dropped = FALSE
    /\ bots = Listing(None, Bots)
    /\ ui = [page |-> "Overview", open |-> {}, question |-> NoQuestion, form |-> None,
             mode |-> "Browse", opens |-> FALSE, row |-> 1, paper |-> FALSE]
    /\ drawn = [front |-> None, question |-> NoQuestion]
    /\ dirty = TRUE /\ last = Nothing /\ events = 0

----------------------------------------------------------------------------
(* The engine and its events *)

Emit(e) == IF Len(queue) < UiQueue THEN queue' = Append(queue, e) /\ UNCHANGED dropped
           ELSE dropped' = TRUE /\ UNCHANGED queue

\* An opportunity waits for its y, or does no longer: answered, or out of time.
TradeWaits(t) == /\ t \notin eng.waiting /\ eng' = [eng EXCEPT !.waiting = @ \cup {t}]
                 /\ Emit([kind |-> "waits", trade |-> t, on |-> TRUE])
TradeGoesOn(t) == /\ t \in eng.waiting /\ eng' = [eng EXCEPT !.waiting = @ \ {t}]
                  /\ Emit([kind |-> "moves", trade |-> t, on |-> FALSE])

\* The engine engages the kill switch itself; the file's settings are its own.
EngineKills == /\ ~eng.killed /\ eng' = [eng EXCEPT !.killed = TRUE]
               /\ Emit([kind |-> "kill", trade |-> None, on |-> TRUE])

Counted == events < MaxEvents /\ events' = events + 1

EngineStep ==
    /\ Counted
    /\ EngineKills \/ \E t \in Trades : TradeWaits(t) \/ TradeGoesOn(t)
    /\ UNCHANGED <<vm, bots, ui, drawn, dirty, last>>

\* Mutant of Pending: what was asked for stays until it is answered.
PendingKept(pend, e) == IF e.on /\ ~Contains(pend, e.trade) THEN Append(pend, e.trade) ELSE pend

\* ViewModel::apply of an opportunity: waiting once, in order; else its one
\* place is taken out.
Pending(pend, e) ==
    IF e.on THEN IF Contains(pend, e.trade) THEN pend ELSE Append(pend, e.trade)
    ELSE IF Contains(pend, e.trade) THEN RemoveAt(pend, CHOOSE i \in DOMAIN pend : pend[i] = e.trade)
    ELSE pend

\* The task of engine.rs that feeds the view model.
Apply ==
    LET e == Head(queue) IN
    /\ queue # <<>> /\ queue' = Tail(queue)
    /\ vm' = CASE e.kind \in {"waits", "moves"} -> [vm EXCEPT !.pend = Pending(@, e)]
               [] e.kind = "kill" -> [vm EXCEPT !.kill = e.on]
               [] e.kind = "thresholds" -> [vm EXCEPT !.loss = e.on]
    /\ UNCHANGED <<eng, dropped, bots, ui, drawn, dirty, last, events>>

\* Bots::start: the list is read again, another bot may run by now.
Refresh ==
    /\ \E running \in Range(Real(bots)) \cup {None} : bots' = Listing(running, Real(bots))
    /\ bots' # bots
    /\ UNCHANGED <<eng, queue, dropped, vm, ui, drawn, dirty, last, events>>

\* run: the frame shows the first trade that waits, and the question.
Draw ==
    /\ dirty' = FALSE /\ last' = Nothing
    /\ drawn' = [front |-> IF vm.pend = <<>> THEN None ELSE vm.pend[1],
                 question |-> ui.question]
    /\ drawn' # drawn \/ dirty
    /\ UNCHANGED <<eng, queue, dropped, vm, bots, ui, events>>

----------------------------------------------------------------------------
(* What a key or a click sends *)

Quiet == last' = Nothing /\ UNCHANGED <<eng, queue, dropped>>
Says(by, kind, what, shown) ==
    last' = [by |-> by, kind |-> kind, what |-> what, shown |-> shown, acked |-> FALSE]

Close(o) == [ui EXCEPT !.open = @ \ {o}, !.question = NoQuestion, !.form = None,
                       !.mode = "Browse", !.opens = FALSE]

\* Confirm, KillSwitch and SetThresholds as the engine takes them.
Kill(by, on) ==
    /\ Says(by, IF on THEN "engage" ELSE "release", None, None)
    /\ eng' = [eng EXCEPT !.killed = on]
    /\ IF eng.killed # on THEN Emit([kind |-> "kill", trade |-> None, on |-> on])
       ELSE UNCHANGED <<queue, dropped>>

Confirm(t) ==
    /\ Says("key", "confirm", t, drawn.front)
    /\ eng' = [eng EXCEPT !.waiting = @ \ {t}]
    /\ IF t \in eng.waiting THEN Emit([kind |-> "moves", trade |-> t, on |-> FALSE])
       ELSE UNCHANGED <<queue, dropped>>

\* Mutant of Accepts: the engine leaves the question to the panel.
AcceptsAny(opens, allow) == TRUE

\* thresholds::apply: settings that newly allow a loss need allow_loss.
Accepts(opens, allow) == (opens /\ ~eng.loss) => allow

SetThresholds(opens, allow) ==
    /\ last' = [Nothing EXCEPT !.by = "key", !.kind = "thresholds", !.acked = allow]
    /\ IF Accepts(opens, allow)
       THEN /\ eng' = [eng EXCEPT !.loss = opens]
            /\ Emit([kind |-> "thresholds", trade |-> None, on |-> opens])
       ELSE UNCHANGED <<eng, queue, dropped>>

----------------------------------------------------------------------------
(* Keys: on_key *)

\* BotView::can, for a bot whose rules file is there.
Can(b, action) ==
    /\ b.state \notin {"Paper", "Ended"}
    /\ action \in {"Start", "Close"} => b.state = "Stopped"
    /\ action = "Stop" => b.state = "Running"

Find(id) == IF \E i \in DOMAIN bots : bots[i].id = id
            THEN bots[CHOOSE i \in DOMAIN bots : bots[i].id = id] ELSE [id |-> None, state |-> "Ended"]

\* ask_bot_of: the question names the bot by its id.
AskOf(id, action) ==
    IF Can(Find(id), action)
    THEN [ui EXCEPT !.open = (@ \ {"budget"}) \cup {"question"}, !.form = None,
                    !.question = [id |-> id, action |-> action]]
    ELSE Close("budget")

Selected == IF ui.row \in DOMAIN bots THEN bots[ui.row] ELSE [id |-> None, state |-> "Ended"]

KeyWallet == Top = "wallet" /\ ui' = Close("wallet") /\ UNCHANGED bots /\ Quiet

\* NewBotForm: Esc leaves; the last Enter makes the bot and selects it.
KeyNew ==
    /\ Top = "new" /\ Quiet
    /\ \/ ui' = Close("new") /\ UNCHANGED bots
       \/ /\ NewBot \notin Range(Real(bots))
          /\ bots' = Listing(None, Append(Real(bots), NewBot))
          /\ ui' = [Close("new") EXCEPT !.row = Len(Real(bots)) + 1]

\* BudgetForm: a number that is a budget goes on to the question.
KeyBudget ==
    /\ Top = "budget" /\ Quiet /\ UNCHANGED bots
    /\ ui' = Close("budget") \/ ui' = AskOf(ui.form, "Budget")

\* Bots::act: what is done is read from the list at once.
Acted(id, action) ==
    bots' = CASE action = "Start" -> Listing(id, Real(bots))
              [] action \in {"Stop", "Close"} -> Listing(None, Real(bots))
              [] OTHER -> bots

\* Mutant of Answer: the bot is the one selected when y is pressed.
AnswerSelected == Selected.id

\* bot_prompt: the bot and the action that were asked about.
Answer == ui.question.id

KeyQuestion ==
    /\ Top = "question" /\ ui' = Close("question")
    /\ \/ Quiet /\ UNCHANGED bots
       \/ /\ Says("key", ui.question.action, Answer, drawn.question.id)
          /\ Acted(Answer, ui.question.action) /\ UNCHANGED <<eng, queue, dropped>>

KeyRelease ==
    /\ Top = "release" /\ ui' = Close("release") /\ UNCHANGED bots
    /\ Quiet \/ Kill("key", FALSE)

\* Panel::on_key: stage, review, and for a loss the words typed in full.
\* Whether the staged settings open one is judged by the view model.
OpensLoss == ui.opens /\ ~vm.loss
KeyThresholds ==
    /\ Top = "thresholds" /\ UNCHANGED bots
    /\ \/ ui.mode = "Browse" /\ ui' = Close("thresholds") /\ Quiet
       \/ /\ ui.mode = "Browse" /\ Quiet
          /\ \E opens \in BOOLEAN : ui' = [ui EXCEPT !.mode = "Review", !.opens = opens]
       \/ ui.mode = "Review" /\ ui' = [ui EXCEPT !.mode = "Browse"] /\ Quiet
       \/ ui.mode = "Review" /\ OpensLoss /\ ui' = [ui EXCEPT !.mode = "Ack"] /\ Quiet
       \/ ui.mode = "Review" /\ ~OpensLoss /\ ui' = Close("thresholds") /\ SetThresholds(ui.opens, FALSE)
       \/ ui.mode = "Ack" /\ ui' = [ui EXCEPT !.mode = "Review"] /\ Quiet
       \/ ui.mode = "Ack" /\ ui' = Close("thresholds") /\ SetThresholds(ui.opens, TRUE)

\* The picker, a detail and the help: their keys end in closing them.
KeyReading ==
    /\ Top \in {"picker", "detail", "help"} /\ ui' = Close(Top) /\ UNCHANGED bots /\ Quiet

Opens(o) == ui' = [ui EXCEPT !.open = @ \cup {o}]

KeyK(by) ==
    IF vm.kill THEN Opens("release") /\ Quiet ELSE Kill(by, TRUE) /\ UNCHANGED ui

\* y and n answer the trade that is first now.
KeyConfirm ==
    /\ vm.pend # <<>> /\ UNCHANGED ui
    /\ Confirm(vm.pend[1])

\* Global keys that change only what is looked at.
KeyLook ==
    /\ Quiet
    /\ \/ \E p \in {"Overview", "Bots", "Wallet"} : p # ui.page /\ ui' = [ui EXCEPT !.page = p]
       \/ Opens("picker") \/ Opens("help") \/ Opens("detail") \/ Opens("thresholds")

\* Rows listed: the paper runs only once they are asked for.
Shown == IF ui.paper THEN Len(bots) ELSE Len(Real(bots))

\* The keys of the Bots page.
KeyBots ==
    /\ ui.page = "Bots" /\ Quiet
    /\ \/ ui' = [ui EXCEPT !.row = IF @ < Shown THEN @ + 1 ELSE @]
       \/ ui' = [ui EXCEPT !.row = IF @ > 1 THEN @ - 1 ELSE @]
       \/ /\ LET n == IF ui.paper THEN Len(Real(bots)) ELSE Len(bots)
             IN ui' = [ui EXCEPT !.paper = ~@, !.row = IF @ > n THEN n ELSE @]
       \/ vm.pend = <<>> /\ Opens("new")
       \/ /\ Can(Selected, "Budget")
          /\ ui' = [ui EXCEPT !.open = @ \cup {"budget"}, !.form = Selected.id]
       \/ \E a \in {"Start", "Stop", "Close", "Mode"} :
            /\ Can(Selected, a)
            /\ ui' = [ui EXCEPT !.open = @ \cup {"question"},
                                !.question = [id |-> Selected.id, action |-> a]]

KeyWalletPage == ui.page = "Wallet" /\ Quiet /\ Opens("wallet")

\* A key: to the overlay on top, else to the page.
Key ==
    /\ ~dirty /\ dirty' = TRUE /\ Counted
    /\ \/ KeyWallet \/ KeyNew \/ KeyBudget \/ KeyQuestion \/ KeyRelease \/ KeyThresholds \/ KeyReading
       \/ Top = "none" /\ (KeyK("key") \/ KeyConfirm \/ KeyLook \/ KeyBots \/ KeyWalletPage) /\ UNCHANGED bots
    /\ UNCHANGED <<vm, drawn>>

----------------------------------------------------------------------------
(* Clicks *)

\* Mutant of ClickOverlay: a click on a question is its y.
ClickAnswers ==
    \/ ui.open \cap {"wallet", "budget", "new"} # {} /\ UNCHANGED ui /\ Quiet
    \/ "release" \in ui.open /\ ui' = Close("release") /\ Kill("click", FALSE)
    \/ ui.open \cap {"picker", "detail", "help"} # {} /\ ui.open \cap {"wallet", "budget", "new", "release"} = {}
       /\ ui' = Close(Top) /\ Quiet

\* click: a form is left alone, a question is closed, what is read is closed.
ClickOverlay ==
    \/ ui.open \cap {"wallet", "budget", "new"} # {} /\ UNCHANGED ui /\ Quiet
    \/ /\ ui.open \cap {"wallet", "budget", "new"} = {} /\ ui.open \cap {"release", "question"} # {}
       /\ ui' = [Close("release") EXCEPT !.open = @ \ {"question"}] /\ Quiet
    \/ /\ ui.open \cap {"wallet", "budget", "new", "release", "question"} = {}
       /\ ui.open \cap {"picker", "detail", "help"} # {}
       /\ ui' = [ui EXCEPT !.open = @ \ (IF "picker" \in @ THEN {"picker"} ELSE {"detail", "help"})]
       /\ Quiet

\* Nothing that modal() knows of is open: the page is clicked, the threshold
\* panel or not; Kill is the key K, which goes to the panel when it is open.
ClickPage ==
    /\ ~Modal
    /\ \/ Quiet /\ \E p \in {"Overview", "Bots", "Wallet"} : ui' = [ui EXCEPT !.page = p]
       \/ Quiet /\ (Opens("help") \/ Opens("detail"))
       \/ ui.open = {} /\ KeyK("click")
       \/ ui.page = "Bots" /\ Quiet /\ \E i \in 1..Shown : ui' = [ui EXCEPT !.row = i]

Click ==
    /\ ~dirty /\ dirty' = TRUE /\ Counted /\ (ClickOverlay \/ ClickPage)
    /\ UNCHANGED <<vm, drawn, bots>>

ScreenStep == EngineStep \/ Apply \/ Refresh \/ Draw \/ Key \/ Click

----------------------------------------------------------------------------
(* Properties *)

\* A bot action that is carried out is on the bot whose question was on the
\* screen, although the list may have been sorted anew since it was asked
\* (bot_prompt holds the id; the selection is a row number).
ActedIsShown ==
    last.kind \in {"Start", "Stop", "Close", "Mode", "Budget"} => last.what = last.shown

\* Once every event has arrived and none was dropped, the view model has the
\* trades that wait, the kill switch and the loss setting as the engine has
\* them (ViewModel::apply, whatever the order of answers and time-outs).
ViewCatchesUp ==
    queue = <<>> /\ ~dropped =>
        /\ Range(vm.pend) = eng.waiting /\ IsInjective(vm.pend)
        /\ vm.kill = eng.killed /\ vm.loss = eng.loss

\* Settings that newly allow a loss are taken only with the typed words,
\* although the panel judges by a view model that may be behind
\* (thresholds::apply checks again).
LossIsAcknowledged == [][~eng.loss /\ eng'.loss => last'.acked]_screenVars

\* A click sends nothing but the kill switch being engaged (on_mouse: "Returns
\* engine commands (only the kill switch)"; releasing "stays on the keyboard").
ClicksOnlyKill == last.by = "click" => last.kind = "engage"

\* A hand acts on what it saw: the bot of the question on screen, a view that
\* agrees with the engine once its events are in, and a mouse that can do
\* nothing but engage the kill switch (App::on_key, on_mouse, ViewModel::apply).
HandsAreTrue == ActedIsShown /\ ViewCatchesUp /\ ClicksOnlyKill

\* A trade that y approves is the one the banner showed (docs/USAGE.md:
\* "only after you press `y` for each one").
\* Does not hold: y goes to the first confirmation waiting when it is pressed,
\* which may have changed since the frame (app.rs:657).
ConfirmIsShown == last.kind = "confirm" => last.what = last.shown
=============================================================================
