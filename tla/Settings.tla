------------------------------ MODULE Settings ------------------------------
(***************************************************************************)
(* The settings and their files: core/src/config.rs (layers, layouts,      *)
(* validation, the delta a save writes), core/src/thresholds.rs (what the  *)
(* operator may change while the program runs) and migrate.rs's plan.      *)
(*                                                                         *)
(* A configuration gives every key a value; a file gives some keys one,    *)
(* at the top level or under [venues.solana].  The keys are those the      *)
(* rules tell apart; "tune" stands for every number with a range.          *)
(***************************************************************************)
EXTENDS Integers, FiniteSets, Sequences, TLC, Functions

CONSTANTS
    Slips,   \* texts an operator may give as slippage
    Losses   \* daily loss limits

Modes == {"paper", "confirm", "live"}
Sends(mode) == mode # "paper"

\* Keys that may be absent; the files have no word for "none".
Optional == {"pub", "key", "taker"}
Keys == {"mode", "live", "pub", "key", "taker", "feeds", "event", "size", "scope", "slip", "loss", "tune"}
None == "none"

Default == [k \in Keys |->
    CASE k = "mode" -> "paper" [] k = "live" -> FALSE [] k \in Optional -> None
      [] k = "feeds" -> TRUE [] k = "event" -> TRUE [] k = "size" -> "std" [] k = "scope" -> "std"
      [] k = "slip" -> "rtse" [] k = "loss" -> 5 [] k = "tune" -> "std"]

\* SOLANA_SECTIONS that the keys are in.
Section(k) == IF k \in {"pub", "key"} THEN "wallet"
              ELSE IF k = "feeds" THEN "feeds" ELSE IF k = "slip" THEN "jupiter" ELSE "other"
Solana == {k \in Keys : Section(k) # "other"}

----------------------------------------------------------------------------
(* Validation *)

\* slippage_spec: "rtse", or a number.
SlippageSpec(c) == c.slip # "fast"

\* The numbers of every section, and of ResearchConfig, in their ranges.
InRange(c) == c.loss >= 0 /\ c.tune # "bad"

\* The gates of a mode that sends.
SendingGates(c) == Sends(c.mode) => c.live /\ c.key # None /\ c.taker = None

Valid(c) == SlippageSpec(c) /\ InRange(c) /\ (c.event => c.feeds) /\ SendingGates(c)

----------------------------------------------------------------------------
(* Layers *)

NoFile == [text |-> "none", top |-> <<>>, sol |-> <<>>]
Torn == [text |-> "torn", top |-> <<>>, sol |-> <<>>]
File(top, sol) == [text |-> "toml", top |-> top, sol |-> sol]

\* A configuration as a table: what is none is left out.
Table(c) == Restrict(c, (Keys \ Optional) \cup {k \in Optional : c[k] # None})
ToConfig(t) == [k \in Keys |-> IF k \in DOMAIN t THEN t[k] ELSE None]

Merge(dst, src) == src @@ dst

\* lift_solana: both layouts are read, a section in both is an error.
Lifts(f) == {Section(k) : k \in DOMAIN f.top} \cap {Section(k) : k \in DOMAIN f.sol} \subseteq {"other"}
Lift(f) == f.sol @@ f.top

Below(repo) == ToConfig(Merge(Table(Default), Lift(repo)))

\* load_layered: the defaults, the shared file, the user's; then validate.
Effective(repo, user) == ToConfig(Merge(Merge(Table(Default), Lift(repo)), Lift(user)))
Loads(repo, user) ==
    /\ user.text # "torn" /\ Lifts(repo) /\ Lifts(user)
    /\ Valid(Effective(repo, user))

\* user_delta: only what differs; nothing below can be unset.
UserDelta(below, c) ==
    LET b == Table(below) t == Table(c)
    IN  Restrict(t, {k \in DOMAIN t : k \notin DOMAIN b \/ b[k] # t[k]})

----------------------------------------------------------------------------
(* The old layout and the new one *)

\* plan: the Solana sections of the top level move, unless there already.
Moved(f) == Solana \cap DOMAIN f.top
PlanFails(f) == ~Lifts(f)
Plan(f) == File(Restrict(f.top, DOMAIN f.top \ Solana), Restrict(f.top, Moved(f)) @@ f.sol)

----------------------------------------------------------------------------
(* Thresholds *)

\* thresholds::apply on a copy of the running configuration.
Apply(c, change) == [k \in Keys |-> IF k \in DOMAIN change THEN change[k] ELSE c[k]]
Applies(c, change) == Valid(Apply(c, change))

\* thresholds_file::write: the changed keys, in their top-level sections.
\* Only that the text parses and holds the values is checked.
ThresholdsWritten(f, change) == File(change @@ f.top, f.sol)

Changes == [{"slip"} -> Slips] \cup [{"loss"} -> Losses]

=============================================================================
