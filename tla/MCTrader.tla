------------------------------ MODULE MCTrader ------------------------------
(* Small instances of Trader for TLC. *)
EXTENDS Trader

\* A swap brings one unit less than its input, or one more.
CheapOrDear == {-1, 1}
=============================================================================
