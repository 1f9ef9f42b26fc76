------------------------------ MODULE OneShot ------------------------------
(***************************************************************************)
(* What the execution pipeline promises about every opportunity, whatever  *)
(* the tasks, the operator and the chain do: it is judged once, a refusal  *)
(* is final, at most one is being executed at a time, and at most one      *)
(* bundle is ever sent for it, while it is being executed.                 *)
(***************************************************************************)
CONSTANT Opps

VARIABLES life,  \* where each opportunity is in its one pass
          sent   \* the opportunities a bundle went out for

Lives == {"fresh", "candidate", "sample", "approved", "closed"}

Init == life = [o \in Opps |-> "fresh"] /\ sent = {}

\* Quoted and priced: a candidate, or a sample that can only be simulated.
Detect(o) ==
    /\ life[o] = "fresh"
    /\ \E l \in {"candidate", "sample"} : life' = [life EXCEPT ![o] = l]
    /\ UNCHANGED sent

\* A candidate that turns out not to be one.
Demote(o) ==
    /\ life[o] = "candidate"
    /\ life' = [life EXCEPT ![o] = "sample"]
    /\ UNCHANGED sent

Approve(o) ==
    /\ life[o] = "candidate"
    /\ \A p \in Opps : life[p] # "approved"
    /\ life' = [life EXCEPT ![o] = "approved"]
    /\ UNCHANGED sent

Send(o) ==
    /\ life[o] = "approved" /\ o \notin sent
    /\ sent' = sent \cup {o}
    /\ UNCHANGED life

\* Refused, filled, settled or given up on.
Conclude(o) ==
    /\ life[o] # "closed"
    /\ life' = [life EXCEPT ![o] = "closed"]
    /\ UNCHANGED sent

\* The process ends: whatever had been looked at is over.
Crash ==
    /\ life' = [o \in Opps |-> IF life[o] = "fresh" THEN "fresh" ELSE "closed"]
    /\ UNCHANGED sent

Next ==
    \/ Crash
    \/ \E o \in Opps : Detect(o) \/ Demote(o) \/ Approve(o) \/ Send(o) \/ Conclude(o)

Spec == Init /\ [][Next]_<<life, sent>>
=============================================================================
