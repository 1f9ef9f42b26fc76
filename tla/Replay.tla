------------------------------- MODULE Replay -------------------------------
(***************************************************************************)
(* --research-liquidations (research/liquidation.rs and its part of        *)
(* storage/research.rs): every liquidation of the last days is read back   *)
(* from a chain, a range of blocks at a time, and for each the program     *)
(* works out since when the position had been liquidatable.  A run can be  *)
(* stopped by the node or die at any request; the next one goes on from    *)
(* what is in the database, for as many days as it is asked.               *)
(*                                                                         *)
(* One position: the others only share requests with it.  What is decoded, *)
(* priced and printed is left out.                                         *)
(***************************************************************************)
EXTENDS Integers, Sequences, SequencesExt, FiniteSets, FiniteSetsExt

CONSTANTS LastBlock,   \* bound: blocks of the chain
          Window,      \* log_window: blocks of one eth_getLogs
          TipMargin,   \* TIP_MARGIN
          Horizon,     \* HORIZON
          Days,        \* blocks a run is asked to go back
          Logs,        \* liquidations the chain may come to hold: [block, index]
          Histories,   \* at the end of which blocks the position may be liquidatable
          MaxReplays   \* bound: runs of the command

ASSUME ReplayAssumption ==
    /\ Window \in Nat \ {0} /\ TipMargin \in Nat /\ Horizon \in Nat \ {0}
    /\ Days \subseteq Nat \ {0} /\ Histories \subseteq SUBSET (0..LastBlock)

VARIABLES
    head,    \* the chain's newest block
    logs,    \* the liquidations on the chain
    bad,     \* blocks at whose end the position is liquidatable
    scan,    \* liq_scan: blocks first..next-1 have been searched; next = 0: no row
    found,   \* liq_events: what is known of each recorded liquidation
    job,     \* the program
    replays, \* counter for the bound
    known    \* history: the previous liquidation each search started after, and
             \* whether any request for this position failed

replayVars == <<head, logs, bad, scan, found, job, replays, known>>

----------------------------------------------------------------------------
Off == [pc |-> "off", from |-> 0, first |-> 0, next |-> 0, ranges |-> <<>>, todo |-> <<>>]
Raw == [kind |-> "none", since |-> 0]
NoScan == [first |-> 0, next |-> 0]

Before(a, b) == a.block < b.block \/ (a.block = b.block /\ a.index < b.index)

\* ORDER BY block, log_index.
InOrder(S) == SetToSortSeq(S, Before)

ReplayInit ==
    /\ head = LastBlock - 2 /\ bad \in Histories
    /\ logs \in {S \in SUBSET Logs : Cardinality(S) <= 3}
    /\ \A l \in logs : l.block <= head
    /\ scan = NoScan /\ found = << >> /\ job = Off /\ replays = 0
    /\ known = [after |-> << >>, failed |-> FALSE]

\* The chain grows, and its newest blocks may still change.
Grow ==
    /\ head < LastBlock /\ head' = head + 1
    /\ \E l \in SUBSET {x \in Logs : x.block = head'} :
        logs' = {x \in logs : x.block <= head} \cup l
    /\ UNCHANGED <<bad, scan, found, job, replays, known>>

Reorg ==
    /\ \E l \in SUBSET {x \in Logs : x.block > head - TipMargin /\ x.block <= head} :
        logs' = {x \in logs : x.block <= head - TipMargin} \cup l
    /\ logs' # logs
    /\ UNCHANGED <<head, bad, scan, found, job, replays, known>>

----------------------------------------------------------------------------
(* replay, 1: find the events *)

\* Newer blocks upwards, then older ones downwards.
Ups(next, tip) ==
    [i \in 1..((Max({tip - next + 1, 0}) + Window - 1) \div Window) |->
        LET lo == next + (i - 1) * Window
        IN [lo |-> lo, hi |-> Min({lo + Window - 1, tip}), up |-> TRUE]]

Downs(first, from) ==
    [i \in 1..((Max({first - from, 0}) + Window - 1) \div Window) |->
        LET hi == first - (i - 1) * Window
        IN [lo |-> Max({hi - Window, from}), hi |-> hi - 1, up |-> FALSE]]

\* Mutant of Tip: the newest blocks are read as well.
TipNow(h) == h

Tip(h) == Max({h - TipMargin, 0})

\* The range searched before, unless there would be a gap behind it.
Resume(from) == IF scan.next > 0 /\ scan.next >= from THEN scan ELSE [first |-> from, next |-> from]

Ask(days) ==
    LET from == Max({head - days, 0})
        r == Resume(from)
    IN /\ job.pc = "off" /\ replays < MaxReplays /\ replays' = replays + 1
       /\ job' = [Off EXCEPT !.pc = "logs", !.from = from, !.first = r.first, !.next = r.next,
                             !.ranges = Ups(r.next, Tip(head)) \o Downs(r.first, from)]
       /\ UNCHANGED <<head, logs, bad, scan, found, known>>

\* The node fails for good (retry), or the program dies: what is in the
\* database stays.
GivesUp ==
    /\ job.pc # "off" /\ job' = Off
    /\ UNCHANGED <<head, logs, bad, scan, found, replays, known>>

\* insert_liq_events: ones already known are left as they are.
InsertEvents ==
    LET r == Head(job.ranges) IN
    /\ job.pc = "logs" /\ job.ranges # <<>>
    /\ found' = [l \in DOMAIN found \cup {x \in logs : x.block \in r.lo..r.hi} |->
                    IF l \in DOMAIN found THEN found[l] ELSE Raw]
    /\ job' = [job EXCEPT !.pc = "scanned"]
    /\ UNCHANGED <<head, logs, bad, scan, replays, known>>

\* set_liq_scan: a statement of its own.
SetScan ==
    LET r == Head(job.ranges)
        first == IF r.up THEN job.first ELSE r.lo
        next == IF r.up THEN r.hi + 1 ELSE job.next
    IN /\ job.pc = "scanned" /\ scan' = [first |-> first, next |-> next]
       /\ job' = [job EXCEPT !.pc = "logs", !.first = first, !.next = next, !.ranges = Tail(@)]
       /\ UNCHANGED <<head, logs, bad, found, replays, known>>

----------------------------------------------------------------------------
(* replay, 2: work each one out *)

\* The liquidations of the period that are recorded, and each one's previous.
Period == {l \in DOMAIN found : l.block >= job.from}
Earlier(l) == {x \in Period : Before(x, l)}
Prev(l) == CHOOSE x \in Earlier(l) : \A y \in Earlier(l) : y = x \/ Before(y, x)
IsStep(l) == Earlier(l) # {} /\ Prev(l).block = l.block

\* Mutant of Order: the steps inside a block are worked out first.
OrderStepsFirst(S) == InOrder({l \in S : IsStep(l)}) \o InOrder({l \in S : ~IsStep(l)})

\* The later steps inside one block go last: they copy from the first.
Order(S) == InOrder({l \in S : ~IsStep(l)}) \o InOrder({l \in S : IsStep(l)})

Pending ==
    /\ job.pc = "logs" /\ job.ranges = <<>>
    /\ job' = [job EXCEPT !.pc = "work", !.todo = Order({l \in Period : found[l].kind = "none"})]
    /\ UNCHANGED <<head, logs, bad, scan, found, replays, known>>

\* Mutant of Bisect: it stops one block short.
BisectShort(lo, hi) == hi

\* since: liquidatable at hi, not at lo; halved until they are neighbours.
RECURSIVE Bisect(_, _)
Bisect(lo, hi) ==
    LET mid == lo + (hi - lo) \div 2 IN
    CASE hi - lo <= 1 -> hi
      [] hi - lo > 1 /\ mid \in bad -> Bisect(lo, mid)
      [] OTHER -> Bisect(mid, hi)

\* Liquidatable at yes; twice as far back each time until it is not.
RECURSIVE StepBack(_, _, _)
StepBack(yes, step, floor) ==
    LET n == Max({yes - step, floor}) IN
    CASE yes <= floor -> [block |-> yes, atFloor |-> TRUE]
      [] yes > floor /\ n \in bad -> StepBack(n, step * 2, floor)
      [] OTHER -> [block |-> Bisect(n, yes), atFloor |-> FALSE]

Since(block, floor) ==
    IF block = 0 \/ floor >= block \/ block - 1 \notin bad
    THEN [block |-> block, atFloor |-> floor >= block]
    ELSE StepBack(block - 1, 1, floor)

Kind(l, s, after) ==
    CASE s.block = l.block /\ ~s.atFloor -> "same_block"
      [] s.atFloor /\ after # {} -> "after_liquidation"
      [] s.atFloor /\ after = {} -> "horizon"
      [] OTHER -> "earlier"

\* work_out: copied from the step before it, or searched for.
WorkedOut(l) ==
    LET horizon == Max({l.block - Horizon, 0})
        after == IF Earlier(l) # {} /\ Prev(l).block >= horizon THEN {Prev(l).block} ELSE {}
        s == Since(l.block, IF after = {} THEN horizon ELSE Max(after))
    IN IF IsStep(l) /\ found[Prev(l)].kind # "none"
       THEN found[Prev(l)]
       ELSE [kind |-> Kind(l, s, after), since |-> s.block]

WorkOut ==
    LET l == Head(job.todo) IN
    /\ job.pc = "work" /\ job.todo # <<>>
    /\ job' = [job EXCEPT !.todo = Tail(@)]
    /\ \/ /\ found' = [found EXCEPT ![l] = WorkedOut(l)]
          /\ known' = [known EXCEPT !.after = [x \in DOMAIN @ \cup {l} |->
                            IF x = l THEN (IF Earlier(l) = {} THEN -1 ELSE Prev(l).block) ELSE @[x]]]
       \/ known' = [known EXCEPT !.failed = TRUE] /\ UNCHANGED found
    /\ UNCHANGED <<head, logs, bad, scan, replays>>

Reported ==
    /\ job.pc = "work" /\ job.todo = <<>> /\ job' = Off
    /\ UNCHANGED <<head, logs, bad, scan, found, replays, known>>

ReplayStep ==
    \/ Grow \/ Reorg \/ GivesUp \/ InsertEvents \/ SetScan \/ Pending \/ WorkOut \/ Reported
    \/ \E d \in Days : Ask(d)

----------------------------------------------------------------------------
(* Properties *)

\* Within the range the database says has been searched, it holds exactly the
\* liquidations of the chain, whatever was asked for and wherever a run ended
\* (replay: "newer blocks first, then older ones", liq_scan).
ScannedIsRecorded ==
    scan.next > 0 =>
        \A b \in scan.first..(scan.next - 1) :
            {l \in logs : l.block = b} = {l \in DOMAIN found : l.block = b}

\* The steps of a liquidation inside one block are one opportunity: they say
\* the same, as long as no request failed ("the later steps copy from the
\* first, so they go last and in order").
StepsAgree ==
    ~known.failed =>
        \A l, m \in DOMAIN found :
            l.block = m.block /\ found[l].kind # "none" /\ found[m].kind # "none"
                => found[l].since = found[m].since

\* Where the position, once liquidatable, stayed so until it was taken, the
\* block worked out is the first: after the liquidation before it, within the
\* horizon (since: "The first block at whose end `probe` says yes").
SinceIsFirst ==
    \A l \in DOMAIN found :
        LET after == known.after[l]
            floor == Max({l.block - Horizon, after, 0})
            open == {b \in floor..(l.block - 1) : \A c \in b..(l.block - 1) : c \in bad}
        IN /\ found[l].kind # "none" /\ l \in DOMAIN known.after /\ after < l.block
           /\ open = bad \cap (floor..(l.block - 1))
           => found[l].since = IF open = {} THEN l.block ELSE Min(open)

\* A replay that was stopped and continued anywhere recorded each liquidation
\* of the blocks it covers, with the steps and the wait it really had
\* (liquidations.rs).
ReplayIsRight == ScannedIsRecorded /\ StepsAgree /\ SinceIsFirst
=============================================================================
