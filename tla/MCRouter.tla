----------------------------- MODULE MCRouter ------------------------------
(* Small instances of Router for TLC. *)
EXTENDS Router

\* Two routes that share their first leg: a cross-dex pair whose pools are both
\* watched, and one whose second leg nothing observes.
TwoRoutes == {"xd", "un"}
ThreeSpecs == {"a", "b", "c"}
SharedFirst == [xd |-> <<"a", "b">>, un |-> <<"a", "c">>]
Watched == [a |-> {"p"}, b |-> {"q"}, c |-> Unobservable]
NoOracles == [r \in Routes |-> {}]
=============================================================================
