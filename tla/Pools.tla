------------------------------- MODULE Pools -------------------------------
(***************************************************************************)
(* --research-pools (research/pools.rs): the round trip between each two   *)
(* pools, worked out from the pools' accounts read at one slot, and the    *)
(* report of how long a gap that pays for its transaction lasts.           *)
(* Beside Measure, whose rows are in the same database.                    *)
(*                                                                         *)
(* A pool is a price, and the array of its ticks or bins that the price is *)
(* in; a snapshot asks for the arrays the last one named.  The node may    *)
(* answer from an older slot, with something missing, or not at all.  What *)
(* a swap pays is the price (Amm has the arithmetic).                      *)
(***************************************************************************)
EXTENDS Measure

CONSTANTS PoolNames,  \* [feeds] pools
          Prices,     \* prices a pool may have
          ArraySize,  \* prices of one array
          Cost,       \* fixed_bps: what a round trip must bring to pay for its transaction
          MaxSlot     \* bound: slots of the chain

ASSUME PoolsAssumption == IsFiniteSet(PoolNames) /\ ArraySize \in Nat \ {0} /\ Prices \subseteq Nat /\ Cost \in Nat

VARIABLES
    chain,    \* the pools' prices, slot by slot
    deps,     \* Watched.deps: the array each pool's last snapshot named; {}: none yet
    lastSlot, \* last_slot
    edges,    \* pool_edge: a sequence of rows
    taken     \* history: the slots of the snapshots taken, in order

poolsVars == <<chain, deps, lastSlot, edges, taken>>

----------------------------------------------------------------------------
\* amm::dependencies: the array the price is in.
Dependencies(price) == {price \div ArraySize}

PoolsInit ==
    /\ chain \in [1..1 -> [PoolNames -> Prices]]
    /\ deps = [p \in PoolNames |-> {}] /\ lastSlot = 0 /\ edges = <<>> /\ taken = <<>>

\* One pool trades in the next slot.
Trade ==
    /\ Len(chain) < MaxSlot
    /\ \E p \in PoolNames, x \in Prices : chain' = Append(chain, [Last(chain) EXCEPT ![p] = x])
    /\ UNCHANGED <<deps, lastSlot, edges, taken>>

\* Mutant of Usable: the arrays are taken as they come.
UsableAlways(p, price) == deps[p] # {}

\* The arrays were chosen from the previous snapshot: usable if the price is
\* still among them.
Usable(p, price) == Dependencies(price) = deps[p]

\* What a pool read with the arrays of `deps` pays: its price where they are
\* its arrays; elsewhere what lies at that place in them.
Decoded(p, price) == IF Dependencies(price) = deps[p] THEN price ELSE (Max(deps[p]) * ArraySize) + (price % ArraySize)

\* round_trips: every ordered pair of ready pools.
RoundTrips(slot, ready) ==
    LET Px(p) == Decoded(p, chain[slot][p])
    IN {[slot |-> slot, sell |-> x[1], buy |-> x[2], gross |-> Px(x[1]) - Px(x[2])] :
            x \in {y \in ready \X ready : y[1] # y[2]}}

\* A tick of run: every pool, what each depended on last time, and the clock,
\* at one slot (which the node chooses); missing: pools whose account was not
\* in the answer.
Snapshot(slot, missing) ==
    LET there == PoolNames \ missing
        ready == {p \in there : Usable(p, chain[slot][p])}
        rows == SetToSeq(RoundTrips(slot, ready))
    IN /\ deps' = [p \in PoolNames |-> IF p \in there THEN Dependencies(chain[slot][p]) ELSE deps[p]]
       /\ IF slot > lastSlot
          THEN lastSlot' = slot /\ edges' = edges \o rows /\ taken' = Append(taken, slot)
          ELSE UNCHANGED <<lastSlot, edges, taken>>
       /\ UNCHANGED chain

PoolsStep ==
    \/ Trade
    \/ \E slot \in {s \in DOMAIN chain : s >= Len(chain) - 1}, missing \in {{}} \cup {{p} : p \in PoolNames} :
            Snapshot(slot, missing)

----------------------------------------------------------------------------
(* build: the report *)

\* The points of one pair, in time order.
PairSeries(a, b) == SelectSeq(edges, LAMBDA e : e.sell = a /\ e.buy = b)

\* Consecutive points of the pair above the cost: first and last of each run.
GapEpisodes(v) ==
    LET Ends(i, j) ==
            /\ \A k \in i..j : v[k].gross > Cost
            /\ i = 1 \/ v[i - 1].gross <= Cost
            /\ j = Len(v) \/ v[j + 1].gross <= Cost
    IN {[first |-> v[x[1]].slot, last |-> v[x[2]].slot] :
            x \in {y \in (DOMAIN v) \X (DOMAIN v) : y[1] <= y[2] /\ Ends(y[1], y[2])}}

\* The best pair at each snapshot, and the snapshots above the cost.
BestAt(slot) == Max({edges[i].gross : i \in {k \in DOMAIN edges : edges[k].slot = slot}})
PaidFor == {s \in {edges[i].slot : i \in DOMAIN edges} : BestAt(s) > Cost}

----------------------------------------------------------------------------
(* Properties *)

\* A row is what the two pools would have paid at its slot, whatever moved
\* between two snapshots, and no slot is counted twice ("worked out from the
\* pools' own accounts read at one slot").
EdgesAreOfTheirSlot ==
    /\ \A i \in DOMAIN edges : edges[i].gross = chain[edges[i].slot][edges[i].sell] - chain[edges[i].slot][edges[i].buy]
    /\ \A i, j \in DOMAIN edges : i # j => edges[i] # edges[j]

\* A measurement says what it measured: entries are not held up, an episode
\* the machine slept through is marked, and an edge is of one slot
\* (research/mod.rs, lag.rs, pools.rs).
MeasuresAreTrue == EntryFindsASlot /\ InterruptedIsSaid /\ EdgesAreOfTheirSlot

\* A gap that is said to have lasted was above the cost at every snapshot in
\* between ("Runs of consecutive snapshots in which one pair stayed above the
\* cost").
\* Does not hold: a snapshot that misses one of the pools leaves no row.
GapsLasted ==
    \A a, b \in PoolNames : a # b =>
        \A g \in GapEpisodes(PairSeries(a, b)), s \in Range(taken) :
            g.first <= s /\ s <= g.last =>
                \E i \in DOMAIN edges : edges[i].slot = s /\ edges[i].sell = a /\ edges[i].buy = b
                                        /\ edges[i].gross > Cost
=============================================================================
