-------------------------------- MODULE Amm ---------------------------------
(***************************************************************************)
(* Pool prices from the pools' own accounts (market/src/amm/): the wide    *)
(* arithmetic, the square-root price of a tick, the swap of a concentrated *)
(* liquidity pool and of a pool of bins, and how much of a pool is known   *)
(* from the arrays that exist around its price.                            *)
(*                                                                         *)
(* The machine's widths are parameters: Half is 2^64, Half^2 what a u128   *)
(* holds.  An Option is the value or None.                                 *)
(***************************************************************************)
EXTENDS Integers, Sequences, SequencesExt

CONSTANTS
    HalfBits, Half,       \* 64 and 2^64
    HalfTickPowers,       \* HALF_TICK_POWERS
    MaxTick,              \* MAX_TICK, -MIN_TICK
    FeeOne,               \* a whole, in the units of a fee (PPM, FEE_PRECISION)
    MaxFeeRate,           \* MAX_FEE_RATE
    VolatilityUnit, VariableScale, \* 10_000 and 100_000_000_000 of fee_rate
    ArrayTicks,           \* ticks (bins) of an array
    ArraysEachSide,       \* ARRAYS_EACH_SIDE
    None

Word == Half * Half

ASSUME AmmAssumption ==
    /\ Half = 2 ^ HalfBits
    /\ \A i \in DOMAIN HalfTickPowers : HalfTickPowers[i] \in 1..(Word - 1)
    /\ {MaxTick, FeeOne, ArrayTicks, VariableScale} \subseteq Nat \ {0}
    /\ MaxFeeRate \in 0..(FeeOne - 1) /\ VolatilityUnit \in Nat /\ ArraysEachSide \in Nat

----------------------------------------------------------------------------
(* math.rs: 256-bit integers as two halves *)

\* U256::mul, by halves of its factors.
WideMul(a, b) ==
    LET a1 == a \div Half a0 == a % Half b1 == b \div Half b0 == b % Half
        mid == (a0 * b0) \div Half + ((a0 * b1) % Half) + ((a1 * b0) % Half)
    IN  [hi |-> a1 * b1 + (a0 * b1) \div Half + (a1 * b0) \div Half + mid \div Half,
         lo |-> ((a0 * b0) % Half) + ((mid * Half) % Word)]

\* U256::div_rem, bit by bit.
\* Mutant of Subtracts: the bit shifted out of the remainder is forgotten.
SubtractsNoCarry(carry, rem, d) == rem >= d

Subtracts(carry, rem, d) == carry = 1 \/ rem >= d

DivRem(w, d) ==
    LET bits == 4 * HalfBits
        BitOf(i) == IF i >= 2 * HalfBits THEN (w.hi \div 2 ^ (i - 2 * HalfBits)) % 2
                    ELSE (w.lo \div 2 ^ i) % 2
        Divided[n \in 0..bits] ==
            IF n = 0 THEN [hi |-> 0, lo |-> 0, rem |-> 0]
            ELSE LET s == Divided[n - 1] i == bits - n
                     carry == s.rem \div (Word \div 2)
                     rem == ((2 * s.rem) % Word) + BitOf(i)
                     sub == Subtracts(carry, rem, d)
                 IN  [hi |-> s.hi + IF sub /\ i >= 2 * HalfBits THEN 2 ^ (i - 2 * HalfBits) ELSE 0,
                      lo |-> s.lo + IF sub /\ i < 2 * HalfBits THEN 2 ^ i ELSE 0,
                      rem |-> IF sub THEN (rem - d) % Word ELSE rem]
    IN  IF d = 0 THEN None ELSE Divided[bits]

\* low: the value, if it fits.
Low(x) == IF x < Word THEN x ELSE None

MulDiv(a, b, d) == IF d = 0 THEN None ELSE Low((a * b) \div d)
MulDivUp(a, b, d) == IF d = 0 THEN None ELSE Low((a * b + d - 1) \div d)

\* The price of a tick: the powers of its bits multiplied.
SqrtPriceAtTick(tick) ==
    LET abs == IF tick < 0 THEN -tick ELSE tick
        Ratio[i \in 0..Len(HalfTickPowers)] ==
            IF i = 0 THEN Word - 1
            ELSE IF (abs \div 2 ^ (i - 1)) % 2 = 1 THEN (Ratio[i - 1] * HalfTickPowers[i]) \div Word
            ELSE Ratio[i - 1]
        r == Ratio[Len(HalfTickPowers)]
    IN  IF abs > MaxTick THEN None
        ELSE IF tick > 0 THEN Low((Half * Word) \div r) ELSE r \div Half

\* The largest tick with a price of at most this, by bisection.
TickAtSqrtPrice(sp) ==
    LET Bisect[n \in 0..(2 * MaxTick + 1)] ==
            IF n = 0 THEN [lo |-> -MaxTick, hi |-> MaxTick]
            ELSE LET b == Bisect[n - 1] mid == b.lo + (b.hi - b.lo + 1) \div 2
                 IN  IF b.lo >= b.hi THEN b
                     ELSE IF SqrtPriceAtTick(mid) <= sp THEN [b EXCEPT !.lo = mid]
                     ELSE [b EXCEPT !.hi = mid - 1]
    IN  IF sp < SqrtPriceAtTick(-MaxTick) THEN None ELSE Bisect[2 * MaxTick + 1].lo

----------------------------------------------------------------------------
(* clmm.rs *)

Up(up, rest) == IF up /\ rest THEN 1 ELSE 0

\* Token A, and token B, between two prices at liquidity l.
AmountA(p, q, l, up) ==
    LET lo == IF p <= q THEN p ELSE q hi == IF p <= q THEN q ELSE p
        n == l * (hi - lo) * Half
    IN  IF n >= Word * Word THEN None
        ELSE Low((n \div hi) \div lo + Up(up, n % hi # 0 \/ (n \div hi) % lo # 0))

AmountB(p, q, l, up) ==
    LET n == l * (IF p <= q THEN q - p ELSE p - q)
    IN  IF n >= Word * Half THEN None ELSE n \div Half + Up(up, n % Half # 0)

\* The price after an input, rounded against the trader.
PriceAfter(sp, l, amount, aToB) ==
    IF amount = 0 THEN sp
    ELSE IF aToB
    THEN IF l * Half + amount * sp >= Word THEN None ELSE MulDivUp(l * Half, sp, l * Half + amount * sp)
    ELSE IF l = 0 THEN None ELSE Low(sp + (amount * Half) \div l)

\* One stretch at constant liquidity towards a price, as far as the input goes:
\* the input a stretch takes, the price it ends at, and what it is worth.
StretchIn(sp, to, l, aToB) == IF aToB THEN AmountA(to, sp, l, TRUE) ELSE AmountB(sp, to, l, TRUE)

StretchEnd(sp, target, l, whole, afterFee, aToB) ==
    IF whole = None \/ afterFee = None THEN None
    ELSE IF afterFee >= whole THEN target ELSE PriceAfter(sp, l, afterFee, aToB)

Stretched(next, in, out, paid) ==
    IF next = None \/ in = None \/ out = None \/ paid = None \/ paid < 0 THEN None
    ELSE [sp |-> next, in |-> in, out |-> out, fee |-> paid]

StretchTo(sp, target, l, remaining, fee, aToB, next, in) ==
    Stretched(next, in,
              IF aToB THEN AmountB(next, sp, l, FALSE) ELSE AmountA(sp, next, l, FALSE),
              IF next = target THEN MulDivUp(in, fee, FeeOne - fee) ELSE remaining - in)

StretchFrom(sp, target, l, remaining, fee, aToB, next) ==
    IF next = None THEN None
    ELSE StretchTo(sp, target, l, remaining, fee, aToB, next, StretchIn(sp, next, l, aToB))

Stretch(sp, target, l, remaining, fee, aToB) ==
    StretchFrom(sp, target, l, remaining, fee, aToB,
                StretchEnd(sp, target, l, StretchIn(sp, target, l, aToB),
                           MulDiv(remaining, FeeOne - fee, FeeOne), aToB))

\* The next initialized tick in the swap's direction, or the edge of what is
\* known.
Target(p, tick, aToB) ==
    LET next == {t \in ToSet(p.ticks) : IF aToB THEN t.index <= tick ELSE t.index > tick}
    IN  IF next = {} THEN [index |-> IF aToB THEN p.lo ELSE p.hi, net |-> None]
        ELSE CHOOSE t \in next : \A o \in next : IF aToB THEN o.index <= t.index ELSE o.index >= t.index

\* Mutant of PastEdge: the swap ends at the edge with what it has got.
PastEdgePaid(net, left) == FALSE

\* The edge of the known ticks with input left: unknown from here.
PastEdge(net, left) == net = None /\ left > 0

\* Clmm::swap: one round of its loop, on [sp, tick, l, left, out, fees, on], and
\* all of it.
Crossed(s, st, tick, l, left) ==
    [sp |-> st.sp, tick |-> tick, l |-> l, left |-> left,
     out |-> s.out + st.out, fees |-> s.fees + st.fee, on |-> left > 0]

AfterStretch(s, to, target, st, left, l, aToB) ==
    IF left < 0 THEN None
    ELSE IF st.sp # target
    THEN [s EXCEPT !.sp = st.sp, !.left = left, !.out = @ + st.out, !.fees = @ + st.fee, !.on = FALSE]
    ELSE IF PastEdge(to.net, left) \/ l < 0 THEN None
    ELSE Crossed(s, st, IF aToB THEN to.index - 1 ELSE to.index, l, left)

RoundTo(s, to, target, st, aToB) ==
    IF target = None \/ st = None THEN None
    ELSE AfterStretch(s, to, target, st, s.left - st.in - st.fee,
                      IF to.net = None THEN s.l ELSE IF aToB THEN s.l - to.net ELSE s.l + to.net, aToB)

RoundTowards(p, s, to, target, aToB) ==
    RoundTo(s, to, target, Stretch(s.sp, target, s.l, s.left, p.fee, aToB), aToB)

ClmmRound(p, aToB, s) ==
    LET to == Target(p, s.tick, aToB) IN RoundTowards(p, s, to, SqrtPriceAtTick(to.index), aToB)

ClmmSwap(p, aToB, amount) ==
    LET Rounds[n \in 0..(Len(p.ticks) + 2)] ==
            IF n = 0 THEN [sp |-> p.sp, tick |-> p.tick, l |-> p.liquidity, left |-> amount,
                           out |-> 0, fees |-> 0, on |-> amount > 0]
            ELSE LET s == Rounds[n - 1] IN IF s = None \/ ~s.on THEN s ELSE ClmmRound(p, aToB, s)
        s == Rounds[Len(p.ticks) + 2]
    IN  IF s = None THEN None ELSE [out |-> s.out, fee |-> s.fees, sp |-> s.sp]

\* First tick of the array that holds a tick (div_euclid).
ArrayStart(tick) == (tick \div ArrayTicks) * ArrayTicks

\* with_arrays: the arrays [start, ticks] have to be side by side around the
\* current tick, and the stored tick the one of the stored price.
WithArrays(p, arrays) ==
    LET first == arrays[1].start past == Last(arrays).start + ArrayTicks
        at == TickAtSqrtPrice(p.sp)
        Joined[n \in 0..Len(arrays)] == IF n = 0 THEN <<>> ELSE Joined[n - 1] \o arrays[n].ticks
    IN  IF \/ arrays = <<>>
           \/ \E i \in 1..(Len(arrays) - 1) : arrays[i + 1].start # arrays[i].start + ArrayTicks
           \/ p.tick \notin first..(past - 1)
           \/ at = None
        THEN None
        ELSE IF at \notin (p.tick - 1)..(p.tick + 1) THEN None
        ELSE [p EXCEPT !.lo = first, !.hi = past, !.ticks = Joined[Len(arrays)]]

----------------------------------------------------------------------------
(* dlmm.rs *)

\* The fee while the active bin is id.
FeeRate(p, id, indexRef, volRef) ==
    LET moved == (IF indexRef > id THEN indexRef - id ELSE id - indexRef) * VolatilityUnit
        acc == IF volRef + moved < p.maxVol THEN volRef + moved ELSE p.maxVol
        variable == (acc * p.binStep * acc * p.binStep * p.varControl + VariableScale - 1) \div VariableScale
    IN  IF p.baseFee + variable < MaxFeeRate THEN p.baseFee + variable ELSE MaxFeeRate

\* What a swap after some time counts from: <<bin, volatility>>.
References(p, elapsed) ==
    IF elapsed < p.filter THEN <<p.indexRef, p.volRef>>
    ELSE <<p.active, IF elapsed < p.decay THEN (p.vol * p.reduction) \div VolatilityUnit ELSE 0>>

\* The input that empties a bin, and what an input gets of it.
Empties(bin, xToY) ==
    IF xToY THEN (bin.y * Half + bin.price - 1) \div bin.price
    ELSE (bin.x * bin.price + Half - 1) \div Half

\* Mutant of Gets: rounded for the trader.
GetsUp(bin, xToY, amount) ==
    IF xToY THEN (amount * bin.price + Half - 1) \div Half
    ELSE (amount * Half + bin.price - 1) \div bin.price

Gets(bin, xToY, amount) ==
    IF xToY THEN (amount * bin.price) \div Half ELSE (amount * Half) \div bin.price

\* Dlmm::swap: one bin, on [id, left, out, fees], and all of it.
DlmmBin(p, xToY, s, refs) ==
    LET bin == p.bins[s.id]
        rate == FeeRate(p, s.id, refs[1], refs[2])
        available == IF xToY THEN bin.y ELSE bin.x
        full == Empties(bin, xToY) + MulDivUp(Empties(bin, xToY), rate, FeeOne - rate)
        fee == MulDivUp(s.left, rate, FeeOne)
        got == Gets(bin, xToY, s.left - fee)
        after == IF available = 0 THEN s
                 ELSE IF s.left >= full
                 THEN [s EXCEPT !.left = @ - full, !.out = @ + available,
                                !.fees = @ + full - Empties(bin, xToY)]
                 ELSE [s EXCEPT !.left = 0, !.out = @ + (IF got < available THEN got ELSE available),
                                !.fees = @ + fee]
    IN  IF after.left > 0 THEN [after EXCEPT !.id = IF xToY THEN @ - 1 ELSE @ + 1] ELSE after

DlmmSwap(p, xToY, amount, elapsed) ==
    LET refs == References(p, elapsed)
        Bins[n \in 0..(2 * MaxTick + 2)] ==
            IF n = 0 THEN [id |-> p.active, left |-> amount, out |-> 0, fees |-> 0]
            ELSE LET s == Bins[n - 1]
                 IN  IF s = None THEN None ELSE IF s.left = 0 THEN s
                     ELSE IF s.id \notin DOMAIN p.bins THEN None ELSE DlmmBin(p, xToY, s, refs)
        s == Bins[2 * MaxTick + 2]
    IN  IF s = None THEN None ELSE [out |-> s.out, fee |-> s.fees]

----------------------------------------------------------------------------
(* mod.rs: the arrays around the price *)

\* dependencies: the starts of the arrays to read.
Dependencies(tick) ==
    [k \in 1..(2 * ArraysEachSide + 1) |-> ArrayStart(tick) + (k - 1 - ArraysEachSide) * ArrayTicks]

\* run: the arrays around the middle one that exist without a gap.
RunOf(starts, exists) ==
    LET mid == ArraysEachSide + 1
        Joined(i) == \A j \in (IF i < mid THEN i..(mid - 1) ELSE (mid + 1)..i) : starts[j] \in exists
    IN  SelectSeq([i \in DOMAIN starts |-> IF i = mid \/ Joined(i) THEN starts[i] ELSE None],
                  LAMBDA x : x # None /\ x \in exists)

InArray(start, index) == index \in start..(start + ArrayTicks - 1)

\* decode: the pool as far as its arrays tell.
DecodeClmm(p, exists) ==
    LET starts == RunOf(Dependencies(p.tick), exists)
    IN  WithArrays(p, [i \in DOMAIN starts |->
            [start |-> starts[i], ticks |-> SelectSeq(p.ticks, LAMBDA t : InArray(starts[i], t.index))]])

DecodeDlmm(p, exists) ==
    LET starts == ToSet(RunOf(Dependencies(p.active), exists))
        known == {id \in DOMAIN p.bins : \E s \in starts : InArray(s, id)}
    IN  IF p.active \notin known THEN None ELSE [p EXCEPT !.bins = [id \in known |-> p.bins[id]]]

=============================================================================
