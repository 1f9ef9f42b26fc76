-------------------------------- MODULE Risk --------------------------------
(***************************************************************************)
(* The risk engine (crates/risk/src/lib.rs) as operators on its state: the *)
(* day counters it keeps behind one mutex, the limits it compares them     *)
(* with, and the decision it makes about one opportunity.  Each operator   *)
(* is one critical section of the code.                                    *)
(*                                                                         *)
(* Amounts are small integers.  The checks whose operands no property      *)
(* tells apart (trade size, share of equity, slippage, slot lag, priority  *)
(* fee, tip, wallet reserve) are one Boolean, "others", chosen by the      *)
(* caller: TRUE when none of them is violated.                             *)
(***************************************************************************)
EXTENDS Integers

CONSTANTS MaxFailures,       \* risk.max_consecutive_failures
          MaxOpenExecutions, \* risk.max_open_executions
          MaxQuoteAge,       \* risk.max_quote_age_ms, in clock ticks
          MaxSimAge          \* risk.max_simulation_age_ms, in clock ticks

ASSUME RiskLimitsAssumption ==
    /\ MaxFailures \in Nat
    /\ MaxOpenExecutions \in Nat
    /\ MaxQuoteAge \in Nat
    /\ MaxSimAge \in Nat

\* RiskState: the day the profit belongs to, that day's profit (USD units),
\* failures in a row, executions opened and not yet closed.
RiskState == [day : Nat, pnl : Int, fails : Nat, open : Nat]

RiskDefault == [day |-> 0, pnl |-> 0, fails |-> 0, open |-> 0]

\* roll_day: the first reader of a new UTC day clears the daily profit, and
\* nothing else.
RollDay(s, today) ==
    IF s.day # today THEN [s EXCEPT !.day = today, !.pnl = 0] ELSE s

\* Mutant of FailuresBelowLimit: one failure too many.
FailuresAtLimit(s) == s.fails <= MaxFailures

FailuresBelowLimit(s) == s.fails < MaxFailures

\* Mutant of LossBelowLimit: the profit compared where the loss should be.
ProfitBelowLimit(s, maxLoss) == s.pnl < maxLoss

LossBelowLimit(s, maxLoss) == -s.pnl < maxLoss

\* evaluate: approved when no check is violated.  s is the state after
\* roll_day, f the facts the caller gathered about the opportunity.  A
\* simulation is always present and ok here: simulate_job hands nothing else
\* to decide.
Approved(s, f, maxLoss, kill) ==
    /\ ~kill                              \* KillSwitch
    /\ LossBelowLimit(s, maxLoss)         \* DailyLoss
    /\ FailuresBelowLimit(s)              \* ConsecutiveFailures
    /\ f.age <= MaxQuoteAge               \* QuoteAge
    /\ f.simAge <= MaxSimAge              \* SimulationAge
    /\ (f.sends => f.exact)               \* InexactSimulation
    /\ s.open < MaxOpenExecutions         \* OpenExecutions
    /\ f.net > 0                          \* NegativeExpectedPnl
    /\ f.others

OpenExecution(s) == [s EXCEPT !.open = @ + 1]

\* Mutant of CloseExecution: a failed execution keeps its slot.
CloseLeaksSlot(s, today, success, netUsd) ==
    [day   |-> today,
     pnl   |-> RollDay(s, today).pnl + netUsd,
     fails |-> IF success THEN 0 ELSE s.fails + 1,
     open  |-> IF success THEN s.open - 1 ELSE s.open]

\* Mutant of CloseExecution: a success takes one failure back instead of all.
CloseForgivesOne(s, today, success, netUsd) ==
    [day   |-> today,
     pnl   |-> RollDay(s, today).pnl + netUsd,
     fails |-> IF success THEN s.fails - 1 ELSE s.fails + 1,
     open  |-> IF s.open = 0 THEN 0 ELSE s.open - 1]

\* close_execution: roll the day, give the slot back (saturating), book the
\* result and count or clear the failures.
CloseExecution(s, today, success, netUsd) ==
    [day   |-> today,
     pnl   |-> RollDay(s, today).pnl + netUsd,
     fails |-> IF success THEN 0 ELSE s.fails + 1,
     open  |-> IF s.open = 0 THEN 0 ELSE s.open - 1]
=============================================================================
