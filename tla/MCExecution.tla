---------------------------- MODULE MCExecution ----------------------------
(* Small instances of Execution for TLC. *)
EXTENDS Execution, FiniteSetsExt, TLC

Symmetry == Permutations(Opps)

\* A negative minimum profit is the operator accepting losses.
MinProfitsWithLoss == {-1, 1}

\* "trading stops for the UTC day beyond it" (thresholds.rs, of the daily
\* loss limit): an execution opens only while the day's landed bundles have
\* lost less than the limit.
DayLoss == -UsdValue(MapThenSumSet(LAMBDA o : bundle[o].lo,
              {o \in Opps : bundle[o].state = "landed" /\ bundle[o].day = today}))

\* Does not hold: a result that is not known is booked as zero.
\* LossStopsTrading is what holds.
DailyLossStopsTrading ==
    [][\A o \in Opps : status[o] # "Submitted" /\ status'[o] = "Submitted"
          => DayLoss < th.maxLoss]_vars
=============================================================================
