----------------------------- MODULE MCOperator -----------------------------
(***************************************************************************)
(* Purse and Screen, the two pages an operator spends money from, and      *)
(* Charts, what the pages draw over time, on small instances.  They share  *)
(* nothing here, so each behaviour runs one of them: the purse, the        *)
(* screen, the threshold panel alone (two changes are six keys), the       *)
(* exchange's chart, or a series under its timeline.                       *)
(***************************************************************************)
EXTENDS Purse, Screen, Charts

\* Two amounts to one address, so that what was typed fits both.
TwoAmounts == {[to |-> "a", amount |-> 1], [to |-> "a", amount |-> 2]}

CONSTANTS A, B
TwoBots == <<A, B>>
FirstOfBoth == <<1, 1>>
TwoSpans == <<4, 8, 0>>

\* Bound: the events of a screen with everything on it.
ScreenEvents == 5

VARIABLE focus
all == <<vars, screenVars, chartVars, focus>>

MCInit ==
    /\ Init /\ ScreenInit /\ MarketInit /\ LineInit /\ market = FirstOfBoth
    /\ focus \in {"purse", "screen", "panel", "chart", "line"} /\ (eng.loss <=> focus = "panel")
PurseGoes == focus = "purse" /\ Next /\ UNCHANGED <<screenVars, chartVars, focus>>
ScreenGoes == focus = "screen" /\ ScreenStep /\ events' <= ScreenEvents /\ UNCHANGED <<vars, chartVars, focus>>
PanelGoes == focus = "panel" /\ ScreenStep /\ UNCHANGED <<vars, chartVars, focus, bots>> /\ eng'.waiting = {}
ChartGoes == focus = "chart" /\ MarketStep /\ UNCHANGED <<vars, screenVars, lineVars, focus>>
LineGoes == focus = "line" /\ LineStep /\ UNCHANGED <<vars, screenVars, marketVars, focus>>

\* The wallet's thread is fair, as in Purse.
MCSpec == /\ MCInit /\ [][PurseGoes \/ ScreenGoes \/ PanelGoes \/ ChartGoes \/ LineGoes]_all
          /\ WF_all(focus = "purse" /\ Worker /\ UNCHANGED <<screenVars, chartVars, focus>>)

\* The pages do what they show: a key reaches what it was pressed for, and what
\* is drawn is what it is said to be.
ScreenIsTrue == HandsAreTrue /\ PagesAreTrue
=============================================================================
