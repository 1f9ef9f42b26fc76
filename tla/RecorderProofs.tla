--------------------------- MODULE RecorderProofs ---------------------------
(***************************************************************************)
(* Proofs about Recorder, for any number of sessions and any sizes of      *)
(* queue, batch and block: what was recorded is there, and what a closed   *)
(* session does not have is counted.                                       *)
(***************************************************************************)
EXTENDS Recorder, WellFoundedInduction, FiniteSetTheorems, TLAPS

----------------------------------------------------------------------------
(* The types, by session *)

Event == [seq : Nat, kind : Kinds]
Rows == Seq(Event)

BusType == [queue : Seq(Kinds), emitted : Nat, dropped : Nat, closed : BOOLEAN, skipped : BOOLEAN]
RecType == [pc : {"off", "run", "join", "drain", "done", "crashed"}, seq : Nat, buf : Rows, stop : BOOLEAN]
ThinType == [quotes : SUBSET Nat, notable : BOOLEAN, metric : BOOLEAN]
DbType == [row : {"none", "open", "ended"}, activity : Nat, events : Rows, blocks : Seq(Rows),
           counted : Nat, quotes : SUBSET Nat, traded : BOOLEAN, total : Nat, dropped : Nat]
PastType == [written : SUBSET Event, thinned : Nat, failed : Nat, expired : SUBSET Nat, deleted : BOOLEAN]
Entry == [id : Sessions, open : BOOLEAN, activity : Nat]
Judged == [id : Sessions, protected : BOOLEAN, running : BOOLEAN]
Doomed == Sessions \X {"expire", "cap"}
JanitorType == [pc : {"off", "rest", "expire", "rows", "row", "cap"}, runs : Nat,
                todo : Seq(Entry), kept : Seq(Judged), of : {<<>>} \cup Doomed]

Janitors == Sessions \cup {Command}

Types ==
    /\ bus \in [Sessions -> BusType] /\ rec \in [Sessions -> RecType]
    /\ thin \in [Sessions -> ThinType] /\ db \in [Sessions -> DbType]
    /\ past \in [Sessions -> PastType] /\ aged \in [Sessions -> Nat]
    /\ janitor \in [Janitors -> JanitorType]

----------------------------------------------------------------------------
(* The invariant, of a session with its records b, r, t, d, p and a *)

\* Where the recorder is goes with the session's row and its bus.
Fits(b, r, d, p) ==
    /\ d.row # "none" => r.pc \notin {"off", "drain"}
    /\ d.row = "ended" => r.pc = "done"
    /\ r.pc \in {"run", "join"} /\ d.row = "open" => d.activity = 0
    /\ d.row = "none" => d.activity = 0
    /\ p.deleted => r.pc \in {"done", "crashed"}
    /\ r.pc \in {"off", "drain"} => p.written = {}
    /\ r.pc # "run" => r.buf = <<>>
    /\ r.pc = "join" => b.queue = <<>>
    /\ r.pc \in {"join", "done"} => b.closed

\* Events are numbered as they come.
Numbered(r, p, a) ==
    /\ \A i \in DOMAIN r.buf : r.buf[i].seq = r.seq - Len(r.buf) + i
    /\ \A e \in p.written : e.seq <= r.seq - Len(r.buf)
    /\ a <= r.seq

\* What the log holds, in its blocks or in its tail, and in which order.
InBlocks(d, e) == \E c \in DOMAIN d.blocks : \E i \in DOMAIN d.blocks[c] : d.blocks[c][i] = e
InTail(d, e) == \E i \in DOMAIN d.events : d.events[i] = e
Holds(d, e) == InBlocks(d, e) \/ InTail(d, e)

Rising(rows) == \A i, j \in DOMAIN rows : i < j => rows[i].seq < rows[j].seq
InOrder(d) ==
    /\ Rising(d.events)
    /\ \A c \in DOMAIN d.blocks : d.blocks[c] # <<>> /\ Rising(d.blocks[c])
    /\ \A c1, c2 \in DOMAIN d.blocks : c1 < c2 =>
          \A i \in DOMAIN d.blocks[c1], j \in DOMAIN d.blocks[c2] : d.blocks[c1][i].seq < d.blocks[c2][j].seq
    /\ \A c \in DOMAIN d.blocks : \A i \in DOMAIN d.blocks[c], j \in DOMAIN d.events :
          d.blocks[c][i].seq < d.events[j].seq

\* The log is what was written of the session, but for what is older than
\* keep_days.
Faithful(d, p, a) ==
    /\ InOrder(d)
    /\ ~p.deleted =>
        /\ \A e \in Event : Holds(d, e) => e \in p.written
        /\ \A e \in p.written : e.seq > a => Holds(d, e)

\* After it was skipped no verdict comes of an opportunity.
SkippedLast(b, r) ==
    /\ \A i, j \in DOMAIN b.queue : i < j /\ b.queue[i] = "skipped" => b.queue[j] # "notable"
    /\ \A i, j \in DOMAIN r.buf : i < j /\ r.buf[i].kind = "skipped" => r.buf[j].kind # "notable"
    /\ \A i \in DOMAIN r.buf, j \in DOMAIN b.queue : r.buf[i].kind = "skipped" => b.queue[j] # "notable"
    /\ \A i \in DOMAIN b.queue : b.queue[i] = "skipped" => b.skipped
    /\ \A i \in DOMAIN r.buf : r.buf[i].kind = "skipped" => b.skipped
NoVerdict(b, r) ==
    /\ b.skipped
    /\ \A j \in DOMAIN b.queue : b.queue[j] # "notable"
    /\ \A j \in DOMAIN r.buf : r.buf[j].kind # "notable"

\* The raw quotes that count are with the notable verdict, or wait for one that
\* may come.
Raws(p) == {e \in p.written : e.kind = "raw" /\ e.seq \notin p.expired}
Quoted(b, r, t, d, p, a) ==
    r.pc \in {"run", "join"} /\ p.failed = 0 =>
        IF t.notable THEN \A e \in Raws(p) : e.seq > a => e.seq \in d.quotes
        ELSE (\A e \in Raws(p) : e.seq \in t.quotes) \/ NoVerdict(b, r)

\* Every event emitted is somewhere.
Balanced(emitted, dropped, queued, taken, counted, thinned, failed) ==
    emitted = dropped + queued + taken + counted + thinned + failed
Counted(b, r, d, p) ==
    /\ r.pc \in {"off", "run", "join"} =>
          /\ Balanced(b.emitted, b.dropped, Len(b.queue), Len(r.buf), d.counted, p.thinned, p.failed)
          /\ d.dropped = 0
    /\ d.row = "ended" => Balanced(b.emitted, d.dropped, 0, 0, d.total, p.thinned, p.failed)

Sound(b, r, t, d, p, a) ==
    /\ Fits(b, r, d, p) /\ Numbered(r, p, a) /\ Faithful(d, p, a)
    /\ SkippedLast(b, r) /\ Quoted(b, r, t, d, p, a) /\ Counted(b, r, d, p)

Recorded(s) == Sound(bus[s], rec[s], thin[s], db[s], past[s], aged[s])

\* Whoever is or will be deleted is not being recorded any more.
Over(r) == r.pc \in {"done", "crashed"}
Spares(s, j, rc) ==
    /\ \A i \in DOMAIN j.todo : RunningSession(s, j.todo[i]) \/ Over(rc[j.todo[i].id])
    /\ \A i \in DOMAIN j.kept : j.kept[i].running \/ Over(rc[j.kept[i].id])
    /\ j.pc \in {"rows", "row"} => j.of # <<>> /\ Over(rc[j.of[1]])

RecorderInv ==
    /\ Types
    /\ \A s \in Sessions : Recorded(s)
    /\ \A s \in Janitors : Spares(s, janitor[s], rec)

----------------------------------------------------------------------------
(* Numbers *)

LEMMA LeastOf ==
    ASSUME NEW T \in SUBSET Nat, T # {}
    PROVE  \E x \in T : \A y \in T : x <= y
  <1>1. PICK x \in T : \A y \in T : ~(<<y, x>> \in OpToRel(<, Nat))
    BY NatLessThanWellFounded, WFMin
  <1>2. \A y \in T : ~(y < x)
    BY <1>1 DEF OpToRel
  <1> HIDE <1>1
  <1> QED BY <1>2

LEMMA SetInduction ==
    ASSUME NEW S, 0 \in S, \A n \in Nat : n \in S => n + 1 \in S
    PROVE  \A n \in Nat : n \in S
  <1> DEFINE T == {n \in Nat : n \notin S}
  <1>1. SUFFICES ASSUME T # {} PROVE FALSE
    OBVIOUS
  <1>2. PICK x \in T : \A y \in T : x <= y
    BY <1>1, LeastOf
  <1>3. x # 0 /\ x - 1 \in Nat
    BY <1>2
  <1>4. x - 1 \in S
    BY <1>2, <1>3
  <1> QED BY <1>2, <1>3, <1>4

\* The last of some places in a list, or none.
LEMMA MaxOf ==
    ASSUME NEW n \in Nat, NEW T \in SUBSET (0..n), T # {}
    PROVE  Max(T) \in T /\ \A i \in T : i <= Max(T)
  <1> DEFINE U == {n - i : i \in T}
  <1>1. \A i \in T : i \in Nat /\ i <= n /\ n - i \in Nat
    OBVIOUS
  <1>2. U \in SUBSET Nat /\ U # {}
    BY <1>1
  <1>3. PICK u \in U : \A y \in U : u <= y
    BY <1>2, LeastOf
  <1>4. PICK x \in T : u = n - x
    BY <1>3
  <1>5. ASSUME NEW i \in T PROVE x >= i
    <2>1. u <= n - i
      BY <1>3
    <2> QED BY <2>1, <1>1, <1>4
  <1>6. \E m \in T : \A i \in T : m >= i
    BY <1>5
  <1>7. Max(T) \in T /\ \A i \in T : Max(T) >= i
    BY <1>6 DEF Max
  <1> QED BY <1>1, <1>7

\* Where a row goes when rows are cut into blocks.
LEMMA Products ==
    ASSUME NEW B \in Nat \ {0}
    PROVE  /\ \A m \in Int : (m + 1) * B = m * B + B /\ (m - 1) * B = m * B - B
           /\ \A m, k \in Int : m <= k => m * B <= k * B
           /\ \A m \in Nat : m * B \in Nat
  <1>1. \A m \in Int : (m + 1) * B = m * B + B /\ (m - 1) * B = m * B - B
    OBVIOUS
  <1>2. ASSUME NEW m \in Int, NEW k \in Int, m <= k PROVE m * B <= k * B
    <2>1. k - m \in Nat /\ (k - m) * B \in Nat
      BY <1>2
    <2>2. (k - m) * B = k * B - m * B
      OBVIOUS
    <2>3. k * B \in Int /\ m * B \in Int
      OBVIOUS
    <2> QED BY <2>1, <2>2, <2>3
  <1>3. \A m \in Nat : m * B \in Nat
    OBVIOUS
  <1> QED BY <1>1, <1>2, <1>3

LEMMA Quotient ==
    ASSUME NEW B \in Nat \ {0}, NEW x \in Nat
    PROVE  x \div B \in Nat /\ (x \div B) * B <= x /\ x < (x \div B) * B + B
  <1>1. B \in Int /\ B > 0 /\ x \in Int /\ x >= 0
    OBVIOUS
  <1>2. (x \div B) * B <= x
    BY <1>1
  <1>3. x < (x \div B) * B + B
    BY <1>1
  <1>4. x \div B \in Int /\ x \div B >= 0
    BY <1>1
  <1> QED BY <1>2, <1>3, <1>4

LEMMA InRows ==
    ASSUME NEW q \in Rows
    PROVE  /\ Len(q) \in Nat /\ DOMAIN q = 1..Len(q)
           /\ \A i \in DOMAIN q : q[i] \in Event /\ q[i].seq \in Nat /\ q[i].kind \in Kinds
  <1>1. Len(q) \in Nat /\ DOMAIN q = 1..Len(q) /\ \A i \in DOMAIN q : q[i] \in Event
    BY DEF Rows
  <1>2. \A e \in Event : e.seq \in Nat /\ e.kind \in Kinds
    BY DEF Event
  <1> QED BY <1>1, <1>2

----------------------------------------------------------------------------
(* The log: appended to, compacted and cut *)

LEMMA Appended ==
    ASSUME NEW d \in DbType, NEW d2 \in DbType, NEW e \in Event, InOrder(d),
           \A x \in Event : Holds(d, x) => x.seq < e.seq,
           d2.blocks = d.blocks, d2.events = Append(d.events, e)
    PROVE  InOrder(d2) /\ \A x \in Event : Holds(d2, x) <=> Holds(d, x) \/ x = e
  <1> DEFINE n == Len(d.events)
  <1>1. /\ d.events \in Rows /\ n \in Nat /\ DOMAIN d.events = 1..n
        /\ DOMAIN d2.events = 1..(n + 1) /\ d2.events[n + 1] = e
        /\ \A i \in 1..n : d2.events[i] = d.events[i]
    BY DEF DbType, Rows
  <1>2. \A i \in 1..n : d.events[i] \in Event /\ d.events[i].seq \in Nat
    BY <1>1, InRows
  <1>3. \A c \in DOMAIN d.blocks : \A i \in DOMAIN d.blocks[c] : d.blocks[c][i] \in Event
    <2>1. d.blocks \in Seq(Rows)
      BY DEF DbType
    <2>2. \A c \in DOMAIN d.blocks : d.blocks[c] \in Rows
      BY <2>1
    <2> QED BY <2>2, InRows
  <1>4. e.seq \in Nat
    BY DEF Event
  <1>5. \A i \in 1..n : d.events[i].seq < e.seq
    BY <1>1, <1>2 DEF Holds, InTail
  <1>6. \A c \in DOMAIN d.blocks : \A i \in DOMAIN d.blocks[c] : d.blocks[c][i].seq < e.seq
    BY <1>3 DEF Holds, InBlocks
  <1> HIDE DEF n
  <1>7. Rising(d2.events)
    BY <1>1, <1>2, <1>4, <1>5 DEF Rising, InOrder
  <1>8. ASSUME NEW c \in DOMAIN d.blocks, NEW i \in DOMAIN d.blocks[c], NEW j \in 1..(n + 1)
        PROVE  d.blocks[c][i].seq < d2.events[j].seq
    <2>1. CASE j = n + 1
      BY <2>1, <1>1, <1>6
    <2>2. CASE j \in 1..n
      BY <2>2, <1>1 DEF InOrder
    <2> QED BY <2>1, <2>2, <1>1
  <1>9. InOrder(d2)
    BY <1>1, <1>7, <1>8 DEF InOrder
  <1>10. \A x : InTail(d2, x) <=> InTail(d, x) \/ x = e
    BY <1>1 DEF InTail
  <1> QED BY <1>9, <1>10 DEF Holds, InBlocks

\* What a part of a list holds.
LEMMA Part ==
    ASSUME NEW q \in Rows, NEW lo \in Nat, NEW hi \in Nat, lo <= hi, hi <= Len(q)
    PROVE  /\ SubSeq(q, lo + 1, hi) \in Rows /\ Len(SubSeq(q, lo + 1, hi)) = hi - lo
           /\ \A i \in 1..(hi - lo) : SubSeq(q, lo + 1, hi)[i] = q[lo + i]
  BY DEF Rows

LEMMA Prefix ==
    ASSUME NEW q \in Rows, NEW n \in 0..Len(q)
    PROVE  /\ SubSeq(q, 1, n) \in Rows /\ Len(SubSeq(q, 1, n)) = n
           /\ \A i \in 1..n : SubSeq(q, 1, n)[i] = q[i]
  <1>1. q \in Seq(Event) /\ Len(q) \in Nat /\ n \in Nat /\ n <= Len(q)
    BY DEF Rows
  <1>2. SubSeq(q, 1, n) \in Seq(Event) /\ Len(SubSeq(q, 1, n)) = n
    BY <1>1
  <1>3. \A i \in 1..n : SubSeq(q, 1, n)[i] = q[i]
    BY <1>1
  <1> QED BY <1>2, <1>3 DEF Rows

Low(c) == (c - 1) * Block
High(q, c) == IF c * Block < Len(q) THEN c * Block ELSE Len(q)
Pieces(q) == (Len(q) + Block - 1) \div Block

LEMMA Bounds ==
    ASSUME NEW q \in Rows
    PROVE  /\ Pieces(q) \in Nat
           /\ \A c \in 1..Pieces(q) :
                 /\ Low(c) \in Nat /\ High(q, c) \in Nat /\ Low(c) < High(q, c)
                 /\ High(q, c) <= Len(q) /\ High(q, c) <= c * Block /\ c * Block \in Nat
           /\ \A b, c \in 1..Pieces(q) : b < c => High(q, b) <= Low(c)
           /\ \A k \in 1..Len(q) : \E c \in 1..Pieces(q) : Low(c) < k /\ k <= High(q, c)
  <1> DEFINE L == Len(q)  N == Pieces(q)
  <1>1. Block \in Nat \ {0} /\ Block \in Int /\ Block >= 1
    BY RecorderAssumption
  <1>2. L \in Nat /\ L + Block - 1 \in Nat
    BY <1>1, InRows
  <1>3. N \in Nat /\ N * Block <= L + Block - 1 /\ L + Block - 1 < N * Block + Block
    BY <1>1, <1>2, Quotient DEF Pieces
  <1>4. /\ \A m \in Int : (m + 1) * Block = m * Block + Block /\ (m - 1) * Block = m * Block - Block
        /\ \A m, k \in Int : m <= k => m * Block <= k * Block
        /\ \A m \in Nat : m * Block \in Nat
    BY <1>1, Products
  <1> HIDE DEF N, L
  <1>5. ASSUME NEW c \in 1..N
        PROVE  /\ Low(c) \in Nat /\ c * Block \in Nat /\ Low(c) = c * Block - Block /\ Low(c) + 1 <= L
    <2>1. c \in Nat /\ c - 1 \in Nat /\ c <= N /\ c \in Int /\ N \in Int
      BY <1>3
    <2>2. c * Block <= N * Block /\ c * Block \in Nat /\ (c - 1) * Block \in Nat /\ (c - 1) * Block = c * Block - Block
      BY <2>1, <1>4
    <2>3. N * Block \in Nat
      BY <1>3, <1>4
    <2> QED BY <2>2, <2>3, <1>1, <1>2, <1>3 DEF Low
  <1>6. ASSUME NEW c \in 1..N
        PROVE  /\ High(q, c) \in Nat /\ Low(c) < High(q, c) /\ High(q, c) <= L /\ High(q, c) <= c * Block
    BY <1>1, <1>2, <1>5 DEF High, L
  <1>7. ASSUME NEW b \in 1..N, NEW c \in 1..N, b < c
        PROVE  High(q, b) <= Low(c)
    <2>1. b \in Int /\ c - 1 \in Int /\ b <= c - 1
      BY <1>3, <1>7
    <2>2. b * Block <= (c - 1) * Block
      BY <2>1, <1>4
    <2> QED BY <2>2, <1>5, <1>6 DEF Low
  <1>8. ASSUME NEW k \in 1..L
        PROVE  \E c \in 1..N : Low(c) < k /\ k <= High(q, c)
    <2> DEFINE w == (k - 1) \div Block
    <2>1. k - 1 \in Nat /\ k \in Nat /\ k <= L
      BY <1>2
    <2>2. w \in Nat /\ w * Block <= k - 1 /\ k - 1 < w * Block + Block
      BY <1>1, <2>1, Quotient
    <2> HIDE DEF w
    <2>3. w * Block \in Nat /\ N * Block \in Nat /\ (w + 1) * Block = w * Block + Block
      BY <2>2, <1>3, <1>4
    <2>4. L <= N * Block
      BY <1>1, <1>2, <1>3, <2>3
    <2>5. w < N
      <3>1. SUFFICES ASSUME N <= w PROVE FALSE
        BY <2>2, <1>3
      <3>2. N * Block <= w * Block
        BY <3>1, <2>2, <1>3, <1>4
      <3> QED BY <3>2, <2>1, <2>2, <2>3, <2>4, <1>2
    <2>6. w + 1 \in 1..N /\ (w + 1) - 1 = w
      BY <2>2, <2>5, <1>3
    <2>7. Low(w + 1) < k
      BY <2>1, <2>2, <2>3, <2>6 DEF Low
    <2>8. k <= High(q, w + 1)
      BY <2>1, <2>2, <2>3, <1>1, <1>2 DEF High, L
    <2> QED BY <2>6, <2>7, <2>8
  <1> QED BY <1>3, <1>5, <1>6, <1>7, <1>8 DEF N, L

LEMMA ChunksAre ==
    ASSUME NEW q \in Rows
    PROVE  /\ Chunks(q) \in Seq(Rows) /\ DOMAIN Chunks(q) = 1..Pieces(q) /\ Len(Chunks(q)) = Pieces(q)
           /\ \A c \in 1..Pieces(q) :
                 /\ Chunks(q)[c] # <<>> /\ DOMAIN Chunks(q)[c] = 1..(High(q, c) - Low(c))
                 /\ \A i \in DOMAIN Chunks(q)[c] :
                       /\ Low(c) + i \in DOMAIN q /\ Low(c) + i <= High(q, c) /\ Low(c) + i > Low(c)
                       /\ Chunks(q)[c][i] = q[Low(c) + i]
           /\ \A k \in DOMAIN q : \E c \in 1..Pieces(q) : \E i \in DOMAIN Chunks(q)[c] : Chunks(q)[c][i] = q[k]
  <1> DEFINE N == Pieces(q)  ch == Chunks(q)
  <1>1. /\ N \in Nat
        /\ \A c \in 1..N : /\ Low(c) \in Nat /\ High(q, c) \in Nat /\ Low(c) < High(q, c)
                           /\ High(q, c) <= Len(q)
        /\ \A k \in 1..Len(q) : \E c \in 1..N : Low(c) < k /\ k <= High(q, c)
    BY Bounds
  <1>2. ch = [c \in 1..N |-> SubSeq(q, Low(c) + 1, High(q, c))]
    BY DEF Chunks, Low, High, Pieces
  <1> HIDE DEF N, ch
  <1>3. ASSUME NEW c \in 1..N
        PROVE  /\ ch[c] \in Rows /\ Len(ch[c]) = High(q, c) - Low(c) /\ DOMAIN ch[c] = 1..(High(q, c) - Low(c))
               /\ \A i \in 1..(High(q, c) - Low(c)) : ch[c][i] = q[Low(c) + i]
    <2> DEFINE lo == Low(c)  hi == High(q, c)
    <2>1. ch[c] = SubSeq(q, lo + 1, hi)
      BY <1>2
    <2>2. lo \in Nat /\ hi \in Nat /\ lo <= hi /\ hi <= Len(q)
      BY <1>1
    <2> HIDE DEF lo, hi
    <2>3. ch[c] \in Rows /\ Len(ch[c]) = hi - lo /\ \A i \in 1..(hi - lo) : ch[c][i] = q[lo + i]
      BY <2>1, <2>2, Part
    <2>4. DOMAIN ch[c] = 1..(hi - lo)
      BY <2>3, InRows
    <2> QED BY <2>3, <2>4 DEF lo, hi
  <1>4. ASSUME NEW c \in 1..N
        PROVE  /\ ch[c] # <<>>
               /\ \A i \in DOMAIN ch[c] : Low(c) + i \in DOMAIN q /\ Low(c) + i <= High(q, c) /\ Low(c) + i > Low(c)
    <2>1. /\ Low(c) \in Nat /\ High(q, c) \in Nat /\ Low(c) < High(q, c) /\ High(q, c) <= Len(q)
          /\ Len(q) \in Nat /\ DOMAIN q = 1..Len(q)
      BY <1>1, InRows
    <2>2. Len(ch[c]) > 0 /\ DOMAIN ch[c] = 1..(High(q, c) - Low(c))
      BY <2>1, <1>3
    <2>3. ch[c] # <<>>
      BY <2>2
    <2>4. \A i \in 1..(High(q, c) - Low(c)) : Low(c) + i \in 1..Len(q) /\ Low(c) + i <= High(q, c) /\ Low(c) + i > Low(c)
      BY <2>1
    <2> QED BY <2>1, <2>2, <2>3, <2>4
  <1>5. ch \in Seq(Rows) /\ DOMAIN ch = 1..N /\ Len(ch) = N
    BY <1>1, <1>2, <1>3
  <1>6. ASSUME NEW k \in DOMAIN q
        PROVE  \E c \in 1..N : \E i \in DOMAIN ch[c] : ch[c][i] = q[k]
    <2>1. k \in 1..Len(q) /\ k \in Nat
      BY InRows
    <2>2. PICK c \in 1..N : Low(c) < k /\ k <= High(q, c)
      BY <2>1, <1>1
    <2>3. Low(c) \in Nat /\ High(q, c) \in Nat
      BY <1>1
    <2>4. k - Low(c) \in 1..(High(q, c) - Low(c)) /\ Low(c) + (k - Low(c)) = k
      BY <2>1, <2>2, <2>3
    <2> QED BY <2>4, <1>3
  <1> QED BY <1>3, <1>4, <1>5, <1>6 DEF N, ch

\* A log of lists: what InOrder and Holds read of it.
LEMMA LogIs ==
    ASSUME NEW d \in DbType
    PROVE  /\ d.events \in Rows /\ Len(d.events) \in Nat /\ DOMAIN d.events = 1..Len(d.events)
           /\ \A i \in DOMAIN d.events : d.events[i] \in Event /\ d.events[i].seq \in Nat
           /\ d.blocks \in Seq(Rows) /\ Len(d.blocks) \in Nat /\ DOMAIN d.blocks = 1..Len(d.blocks)
           /\ \A c \in DOMAIN d.blocks : d.blocks[c] \in Rows
           /\ \A c \in DOMAIN d.blocks : \A i \in DOMAIN d.blocks[c] :
                 d.blocks[c][i] \in Event /\ d.blocks[c][i].seq \in Nat
  <1>1. d.events \in Rows /\ d.blocks \in Seq(Rows)
    BY DEF DbType
  <1>2. /\ Len(d.events) \in Nat /\ DOMAIN d.events = 1..Len(d.events)
        /\ \A i \in DOMAIN d.events : d.events[i] \in Event /\ d.events[i].seq \in Nat
    BY <1>1, InRows
  <1>3. Len(d.blocks) \in Nat /\ DOMAIN d.blocks = 1..Len(d.blocks) /\ \A c \in DOMAIN d.blocks : d.blocks[c] \in Rows
    BY <1>1
  <1>4. \A c \in DOMAIN d.blocks : \A i \in DOMAIN d.blocks[c] :
                 d.blocks[c][i] \in Event /\ d.blocks[c][i].seq \in Nat
    BY <1>3, InRows
  <1> QED BY <1>1, <1>2, <1>3, <1>4

LEMMA Joined ==
    ASSUME NEW q \in Seq(Rows), NEW r \in Seq(Rows)
    PROVE  /\ q \o r \in Seq(Rows) /\ Len(q \o r) = Len(q) + Len(r)
           /\ DOMAIN (q \o r) = 1..(Len(q) + Len(r))
           /\ \A i \in 1..Len(q) : (q \o r)[i] = q[i]
           /\ \A i \in 1..Len(r) : (q \o r)[Len(q) + i] = r[i]
  <1>1. q \o r \in Seq(Rows) /\ Len(q \o r) = Len(q) + Len(r)
    OBVIOUS
  <1>2. DOMAIN (q \o r) = 1..(Len(q) + Len(r))
    BY <1>1
  <1>3. \A i \in 1..Len(q) : (q \o r)[i] = q[i]
    OBVIOUS
  <1>4. \A i \in 1..Len(r) : (q \o r)[Len(q) + i] = r[i]
    OBVIOUS
  <1> QED BY <1>1, <1>2, <1>3, <1>4

\* Compaction loses nothing and keeps the order.
LEMMA Compacted ==
    ASSUME NEW d \in DbType, NEW d2 \in DbType, InOrder(d), NEW take \in 0..Len(d.events),
           d2.blocks = d.blocks \o Chunks(SubSeq(d.events, 1, take)),
           d2.events = SubSeq(d.events, take + 1, Len(d.events))
    PROVE  InOrder(d2) /\ \A x : Holds(d2, x) <=> Holds(d, x)
  <1> DEFINE ev == d.events  L == Len(d.events)  q == SubSeq(d.events, 1, take)
             nb == Len(d.blocks)  N == Pieces(q)  ch == Chunks(q)
  <1>1. /\ ev \in Rows /\ L \in Nat /\ DOMAIN ev = 1..L /\ (\A i \in 1..L : ev[i].seq \in Nat)
        /\ d.blocks \in Seq(Rows) /\ nb \in Nat /\ DOMAIN d.blocks = 1..nb
        /\ take \in Nat /\ take <= L
    BY LogIs
  <1>2. q \in Rows /\ Len(q) = take /\ DOMAIN q = 1..take /\ \A k \in 1..take : q[k] = ev[k]
    <2>1. q \in Rows /\ Len(q) = take - 0 /\ \A k \in 1..(take - 0) : q[k] = ev[0 + k]
      BY <1>1, Part, 0 + 1 = 1
    <2>2. DOMAIN q = 1..take
      BY <2>1, <1>1, InRows
    <2> QED BY <2>1, <2>2, <1>1
  <1>3. d2.events \in Rows /\ DOMAIN d2.events = 1..(L - take) /\ \A j \in 1..(L - take) : d2.events[j] = ev[take + j]
    <2>1. d2.events \in Rows /\ Len(d2.events) = L - take /\ \A j \in 1..(L - take) : d2.events[j] = ev[take + j]
      BY <1>1, Part
    <2> QED BY <2>1, InRows
  <1>4. /\ ch \in Seq(Rows) /\ Len(ch) = N /\ N \in Nat
        /\ \A c \in 1..N : /\ ch[c] # <<>>
                           /\ \A i \in DOMAIN ch[c] : /\ Low(c) + i \in 1..take /\ Low(c) + i <= High(q, c)
                                                      /\ Low(c) + i > Low(c) /\ ch[c][i] = ev[Low(c) + i]
        /\ \A k \in 1..take : \E c \in 1..N : \E i \in DOMAIN ch[c] : ch[c][i] = ev[k]
    <2>1. /\ ch \in Seq(Rows) /\ Len(ch) = N /\ N \in Nat
          /\ \A c \in 1..N : /\ ch[c] # <<>>
                             /\ \A i \in DOMAIN ch[c] : /\ Low(c) + i \in DOMAIN q /\ Low(c) + i <= High(q, c)
                                                        /\ Low(c) + i > Low(c) /\ ch[c][i] = q[Low(c) + i]
          /\ \A k \in DOMAIN q : \E c \in 1..N : \E i \in DOMAIN ch[c] : ch[c][i] = q[k]
      BY <1>2, ChunksAre, Bounds
    <2> HIDE DEF ch, q, N, ev
    <2>2. ASSUME NEW c \in 1..N, NEW i \in DOMAIN ch[c]
          PROVE  Low(c) + i \in 1..take /\ ch[c][i] = ev[Low(c) + i]
      <3>1. Low(c) + i \in DOMAIN q /\ ch[c][i] = q[Low(c) + i]
        BY <2>1
      <3>2. Low(c) + i \in 1..take
        BY <3>1, <1>2
      <3>3. q[Low(c) + i] = ev[Low(c) + i]
        BY <3>2, <1>2
      <3> QED BY <3>1, <3>2, <3>3
    <2>3. ASSUME NEW k \in 1..take PROVE \E c \in 1..N : \E i \in DOMAIN ch[c] : ch[c][i] = ev[k]
      <3>1. k \in DOMAIN q /\ q[k] = ev[k]
        BY <1>2
      <3> QED BY <3>1, <2>1
    <2> QED BY <2>1, <2>2, <2>3
  <1>5. \A b, c \in 1..N : b < c => High(q, b) <= Low(c)
    BY <1>2, Bounds
  <1>6. \A c \in 1..N : Low(c) \in Nat /\ High(q, c) \in Nat
    BY <1>2, Bounds
  <1> HIDE DEF ev, L, q, nb, N, ch
  <1>7. /\ DOMAIN d2.blocks = 1..(nb + N)
        /\ \A c \in 1..nb : d2.blocks[c] = d.blocks[c]
        /\ \A m \in 1..N : d2.blocks[nb + m] = ch[m]
        /\ \A c \in 1..(nb + N) : c \in 1..nb \/ \E m \in 1..N : c = nb + m
    <2>1. d2.blocks = d.blocks \o ch /\ Len(d.blocks) = nb
      BY DEF ch, q, nb
    <2>a. d.blocks \in Seq(Rows) /\ ch \in Seq(Rows) /\ Len(ch) = N /\ N \in Nat /\ nb \in Nat
      BY <1>1, <1>4
    <2>2. /\ DOMAIN d2.blocks = 1..(nb + N)
          /\ \A c \in 1..nb : d2.blocks[c] = d.blocks[c]
          /\ \A m \in 1..N : d2.blocks[nb + m] = ch[m]
      <3>1. /\ DOMAIN (d.blocks \o ch) = 1..(Len(d.blocks) + Len(ch))
            /\ \A i \in 1..Len(d.blocks) : (d.blocks \o ch)[i] = d.blocks[i]
            /\ \A i \in 1..Len(ch) : (d.blocks \o ch)[Len(d.blocks) + i] = ch[i]
        BY <2>a, Joined
      <3> QED BY <3>1, <2>1, <2>a, Zenon
    <2>3. ASSUME NEW c \in 1..(nb + N), c \notin 1..nb PROVE \E m \in 1..N : c = nb + m
      <3>1. nb \in Nat /\ N \in Nat
        BY <1>1, <1>4
      <3>2. c - nb \in 1..N /\ c = nb + (c - nb)
        BY <2>3, <3>1
      <3> QED BY <3>2
    <2> QED BY <2>2, <2>3
  <1>c. ASSUME NEW m \in 1..N, NEW i \in DOMAIN ch[m]
        PROVE  /\ Low(m) + i \in 1..take /\ Low(m) + i \in 1..L /\ Low(m) + i \in Nat /\ Low(m) \in Nat
               /\ i \in Nat /\ ch[m][i] = ev[Low(m) + i] /\ Low(m) < Low(m) + i /\ Low(m) + i <= High(q, m)
    <2>1. Low(m) + i \in 1..take /\ ch[m][i] = ev[Low(m) + i] /\ Low(m) + i > Low(m) /\ Low(m) + i <= High(q, m)
      BY <1>4
    <2>2. take \in Nat /\ L \in Nat /\ take <= L
      BY <1>1
    <2>3. Low(m) \in Nat
      BY <1>6
    <2>4. ch[m] \in Rows
      BY <1>4
    <2>5. i \in Nat
      BY <2>4, InRows
    <2>6. Low(m) + i \in 1..L /\ Low(m) + i \in Nat
      BY <2>1, <2>2
    <2> QED BY <2>1, <2>3, <2>5, <2>6
  <1>k. /\ \A m \in 1..N : nb + m \in 1..(nb + N) /\ nb + m \notin 1..nb
        /\ \A c \in 1..nb : c \in 1..(nb + N)
        /\ \A j \in 1..(L - take) : take + j \in 1..L /\ take + j > take /\ j \in Nat
        /\ \A k \in 1..L : k <= take => k \in 1..take
        /\ \A k \in 1..L : k > take => k - take \in 1..(L - take) /\ take + (k - take) = k
    <2>1. nb \in Nat /\ N \in Nat /\ take \in Nat /\ L \in Nat /\ take <= L
      BY <1>1, <1>4
    <2> QED BY <2>1
  <1>8. /\ \A i, j \in 1..L : i < j => ev[i].seq < ev[j].seq
        /\ \A c \in 1..nb : d.blocks[c] # <<>> /\ Rising(d.blocks[c])
        /\ \A c1, c2 \in 1..nb : c1 < c2 =>
              \A i \in DOMAIN d.blocks[c1], j \in DOMAIN d.blocks[c2] : d.blocks[c1][i].seq < d.blocks[c2][j].seq
        /\ \A c \in 1..nb : \A i \in DOMAIN d.blocks[c], j \in 1..L : d.blocks[c][i].seq < ev[j].seq
    BY <1>1 DEF InOrder, Rising, ev
  <1>9. Rising(d2.events)
    <2>1. ASSUME NEW i \in 1..(L - take), NEW j \in 1..(L - take), i < j
          PROVE  d2.events[i].seq < d2.events[j].seq
      <3>1. take + i \in 1..L /\ take + j \in 1..L /\ take + i < take + j
        BY <1>k, <1>1, <2>1
      <3> QED BY <3>1, <1>3, <1>8
    <2> QED BY <2>1, <1>3 DEF Rising
  <1>10. ASSUME NEW m \in 1..N
         PROVE  ch[m] # <<>> /\ Rising(ch[m])
    <2>1. ASSUME NEW i \in DOMAIN ch[m], NEW j \in DOMAIN ch[m], i < j PROVE ch[m][i].seq < ch[m][j].seq
      <3>1. i \in Nat /\ j \in Nat /\ Low(m) \in Nat
        BY <1>c
      <3>2. Low(m) + i < Low(m) + j
        BY <3>1, <2>1
      <3> QED BY <3>2, <1>c, <1>8
    <2> QED BY <2>1, <1>4 DEF Rising
  <1>11. ASSUME NEW m1 \in 1..N, NEW m2 \in 1..N, m1 < m2, NEW i \in DOMAIN ch[m1], NEW j \in DOMAIN ch[m2]
         PROVE  ch[m1][i].seq < ch[m2][j].seq
    <2>1. Low(m1) + i <= High(q, m1) /\ High(q, m1) <= Low(m2) /\ Low(m2) < Low(m2) + j
      BY <1>c, <1>5, <1>11
    <2>2. /\ Low(m1) + i \in Nat /\ Low(m2) + j \in Nat /\ Low(m2) \in Nat /\ High(q, m1) \in Nat
      BY <1>c, <1>6
    <2>3. Low(m1) + i < Low(m2) + j
      BY <2>1, <2>2
    <2> QED BY <2>3, <1>c, <1>8
  <1>12. ASSUME NEW m \in 1..N, NEW i \in DOMAIN ch[m], NEW j \in 1..(L - take)
         PROVE  ch[m][i].seq < d2.events[j].seq
    <2>1. /\ Low(m) + i \in 1..take /\ take + j \in 1..L /\ take + j > take /\ Low(m) + i \in 1..L
          /\ ch[m][i] = ev[Low(m) + i] /\ d2.events[j] = ev[take + j]
      BY <1>c, <1>k, <1>3
    <2>2. Low(m) + i < take + j
      BY <2>1, <1>1
    <2> QED BY <2>1, <2>2, <1>8
  <1>13. \A c \in DOMAIN d2.blocks : d2.blocks[c] # <<>> /\ Rising(d2.blocks[c])
    <2>1. ASSUME NEW c \in 1..(nb + N) PROVE d2.blocks[c] # <<>> /\ Rising(d2.blocks[c])
      <3>1. CASE c \in 1..nb
        BY <3>1, <1>7, <1>8
      <3>2. CASE \E m \in 1..N : c = nb + m
        BY <3>2, <1>7, <1>10
      <3> QED BY <3>1, <3>2, <1>7
    <2> QED BY <2>1, <1>7
  <1>14. ASSUME NEW c1 \in DOMAIN d2.blocks, NEW c2 \in DOMAIN d2.blocks, c1 < c2,
                NEW i \in DOMAIN d2.blocks[c1], NEW j \in DOMAIN d2.blocks[c2]
         PROVE  d2.blocks[c1][i].seq < d2.blocks[c2][j].seq
    <2>1. CASE c1 \in 1..nb /\ c2 \in 1..nb
      BY <2>1, <1>7, <1>8, <1>14
    <2>2. CASE c1 \in 1..nb /\ \E m \in 1..N : c2 = nb + m
      <3>1. PICK m \in 1..N : c2 = nb + m
        BY <2>2
      <3>2. d2.blocks[c1] = d.blocks[c1] /\ d2.blocks[c2] = ch[m]
        BY <2>2, <3>1, <1>7
      <3>3. Low(m) + j \in 1..L /\ ch[m][j] = ev[Low(m) + j]
        BY <3>2, <1>c
      <3> QED BY <2>2, <3>2, <3>3, <1>8
    <2>3. CASE \E m1 \in 1..N : c1 = nb + m1
      <3>1. PICK m1 \in 1..N : c1 = nb + m1
        BY <2>3
      <3>2. c2 \notin 1..nb
        BY <3>1, <1>1, <1>14, <1>7
      <3>3. PICK m2 \in 1..N : c2 = nb + m2
        BY <3>2, <1>7
      <3>4. m1 < m2
        BY <3>1, <3>3, <1>14, <1>1, <1>4
      <3> QED BY <3>1, <3>3, <3>4, <1>7, <1>11
    <2> QED BY <2>1, <2>2, <2>3, <1>7
  <1>15. ASSUME NEW c \in DOMAIN d2.blocks, NEW i \in DOMAIN d2.blocks[c], NEW j \in DOMAIN d2.events
         PROVE  d2.blocks[c][i].seq < d2.events[j].seq
    <2>1. CASE c \in 1..nb
      <3>1. take + j \in 1..L /\ d2.events[j] = ev[take + j]
        BY <1>k, <1>3
      <3> QED BY <2>1, <3>1, <1>7, <1>8
    <2>2. CASE \E m \in 1..N : c = nb + m
      <3>1. PICK m \in 1..N : c = nb + m
        BY <2>2
      <3>2. d2.blocks[c] = ch[m] /\ i \in DOMAIN ch[m] /\ j \in 1..(L - take)
        BY <3>1, <1>3, <1>7
      <3> QED BY <3>2, <1>12, Zenon
    <2> QED BY <2>1, <2>2, <1>7
  <1>16. InOrder(d2)
    BY <1>9, <1>13, <1>14, <1>15 DEF InOrder
  <1>17. ASSUME NEW x, Holds(d2, x) PROVE Holds(d, x)
    <2>1. CASE InTail(d2, x)
      <3>1. PICK j \in 1..(L - take) : d2.events[j] = x
        BY <2>1, <1>3 DEF InTail
      <3>2. take + j \in 1..L /\ ev[take + j] = x
        BY <3>1, <1>k, <1>3
      <3>3. take + j \in DOMAIN d.events /\ d.events[take + j] = x
        BY <3>2, <1>1 DEF ev
      <3> QED BY <3>3 DEF Holds, InTail
    <2>2. CASE InBlocks(d2, x)
      <3>1. PICK c \in DOMAIN d2.blocks : \E i \in DOMAIN d2.blocks[c] : d2.blocks[c][i] = x
        BY <2>2 DEF InBlocks
      <3>2. CASE c \in 1..nb
        BY <3>1, <3>2, <1>1, <1>7 DEF Holds, InBlocks
      <3>3. CASE \E m \in 1..N : c = nb + m
        <4>1. PICK m \in 1..N : c = nb + m
          BY <3>3
        <4>2. PICK i \in DOMAIN ch[m] : ch[m][i] = x
          BY <4>1, <3>1, <1>7
        <4>3. Low(m) + i \in 1..L /\ ev[Low(m) + i] = x
          BY <4>2, <1>c
        <4> QED BY <4>3, <1>1 DEF Holds, InTail, ev
      <3> QED BY <3>2, <3>3, <1>7
    <2> QED BY <2>1, <2>2, <1>17 DEF Holds
  <1>18. ASSUME NEW x, Holds(d, x) PROVE Holds(d2, x)
    <2>1. CASE InTail(d, x)
      <3>1. PICK k \in 1..L : ev[k] = x
        BY <2>1, <1>1 DEF InTail, ev
      <3>2. CASE k <= take
        <4>1. k \in 1..take
          BY <3>2, <1>k
        <4>2. PICK m \in 1..N : \E i \in DOMAIN ch[m] : ch[m][i] = ev[k]
          BY <4>1, <1>4
        <4>3. nb + m \in DOMAIN d2.blocks /\ d2.blocks[nb + m] = ch[m]
          BY <1>k, <1>7
        <4> QED BY <3>1, <4>2, <4>3 DEF Holds, InBlocks
      <3>3. CASE k > take
        <4>1. k - take \in 1..(L - take) /\ take + (k - take) = k
          BY <3>3, <1>k
        <4>2. k - take \in DOMAIN d2.events /\ d2.events[k - take] = x
          BY <4>1, <3>1, <1>3
        <4> QED BY <4>2 DEF Holds, InTail
      <3> QED BY <3>2, <3>3, <1>1
    <2>2. CASE InBlocks(d, x)
      <3>1. PICK c \in 1..nb : \E i \in DOMAIN d.blocks[c] : d.blocks[c][i] = x
        BY <2>2, <1>1 DEF InBlocks
      <3>2. c \in DOMAIN d2.blocks /\ d2.blocks[c] = d.blocks[c]
        BY <1>k, <1>7
      <3> QED BY <3>1, <3>2 DEF Holds, InBlocks
    <2> QED BY <2>1, <2>2, <1>18 DEF Holds
  <1> QED BY <1>16, <1>17, <1>18

\* What is cut off a list with everything up to the last of some places.
LEMMA CutAt ==
    ASSUME NEW q, NEW n \in Nat, Len(q) = n, NEW old \in SUBSET (1..n)
    PROVE  \E m \in 0..n : /\ AfterLast(q, old) = SubSeq(q, m + 1, n)
                           /\ (m = 0 \/ m \in old) /\ \A i \in old : i <= m
  <1> DEFINE T == old \cup {0}
  <1>1. T \in SUBSET (0..n) /\ T # {}
    OBVIOUS
  <1>2. Max(T) \in T /\ \A i \in T : i <= Max(T)
    BY <1>1, MaxOf
  <1>3. AfterLast(q, old) = SubSeq(q, Max(T) + 1, n)
    BY DEF AfterLast
  <1> HIDE DEF T
  <1>4. Max(T) \in 0..n
    BY <1>1, <1>2
  <1> QED BY <1>2, <1>3, <1>4 DEF T

\* What is left of a list of lists.
LEMMA PartOfBlocks ==
    ASSUME NEW q \in Seq(Rows), NEW m \in Nat, m <= Len(q)
    PROVE  /\ SubSeq(q, m + 1, Len(q)) \in Seq(Rows)
           /\ DOMAIN SubSeq(q, m + 1, Len(q)) = 1..(Len(q) - m)
           /\ \A i \in 1..(Len(q) - m) : SubSeq(q, m + 1, Len(q))[i] = q[m + i]
  OBVIOUS

\* Of a log without its old detail nothing younger is missing.
LEMMA Aged ==
    ASSUME NEW d \in DbType, NEW a \in Nat, InOrder(d)
    PROVE  /\ WithoutAged(d, a) \in DbType /\ InOrder(WithoutAged(d, a))
           /\ \A x \in Event : Holds(WithoutAged(d, a), x) => Holds(d, x)
           /\ \A x \in Event : Holds(d, x) /\ x.seq > a => Holds(WithoutAged(d, a), x)
           /\ WithoutAged(d, a).quotes = {q \in d.quotes : q > a}
           /\ \A f \in {"row", "activity", "counted", "traded", "total", "dropped"} : WithoutAged(d, a)[f] = d[f]
  <1> DEFINE ev == d.events  L == Len(d.events)  bl == d.blocks  nb == Len(d.blocks)
             d2 == WithoutAged(d, a)
             oldE == {i \in DOMAIN ev : ev[i].seq <= a}
             oldB == {i \in DOMAIN bl : Last(bl[i]).seq <= a}
  <1>1. /\ ev \in Rows /\ L \in Nat /\ DOMAIN ev = 1..L /\ (\A i \in 1..L : ev[i] \in Event /\ ev[i].seq \in Nat)
        /\ bl \in Seq(Rows) /\ nb \in Nat /\ DOMAIN bl = 1..nb
        /\ \A c \in 1..nb : bl[c] \in Rows
        /\ \A c \in 1..nb : \A i \in DOMAIN bl[c] : bl[c][i] \in Event /\ bl[c][i].seq \in Nat
    BY LogIs
  <1>2. /\ d2.events = AfterLast(ev, oldE) /\ d2.blocks = AfterLast(bl, oldB)
        /\ d2.quotes = {q \in d.quotes : q > a}
        /\ \A f \in {"row", "activity", "counted", "traded", "total", "dropped"} : d2[f] = d[f]
    BY DEF WithoutAged, DbType
  <1>3. PICK m \in 0..L : /\ d2.events = SubSeq(ev, m + 1, L)
                          /\ (m = 0 \/ m \in oldE) /\ \A i \in oldE : i <= m
    <2>1. oldE \in SUBSET (1..L)
      BY <1>1
    <2>2. Len(ev) = L /\ L \in Nat
      BY <1>1
    <2>3. d2.events = AfterLast(ev, oldE)
      BY <1>2
    <2> HIDE DEF oldE, ev, L, d2
    <2>4. \E m \in 0..L : /\ AfterLast(ev, oldE) = SubSeq(ev, m + 1, L)
                         /\ (m = 0 \/ m \in oldE) /\ \A i \in oldE : i <= m
      BY <2>1, <2>2, CutAt
    <2> QED BY <2>3, <2>4
  <1>4. PICK n \in 0..nb : /\ d2.blocks = SubSeq(bl, n + 1, nb)
                           /\ (n = 0 \/ n \in oldB) /\ \A i \in oldB : i <= n
    <2>1. oldB \in SUBSET (1..nb)
      BY <1>1
    <2>2. Len(bl) = nb /\ nb \in Nat
      BY <1>1
    <2>3. d2.blocks = AfterLast(bl, oldB)
      BY <1>2
    <2> HIDE DEF oldB, bl, nb, d2
    <2>4. \E n \in 0..nb : /\ AfterLast(bl, oldB) = SubSeq(bl, n + 1, nb)
                         /\ (n = 0 \/ n \in oldB) /\ \A i \in oldB : i <= n
      BY <2>1, <2>2, CutAt
    <2> QED BY <2>3, <2>4
  <1>5. d2.events \in Rows /\ DOMAIN d2.events = 1..(L - m) /\ \A j \in 1..(L - m) : d2.events[j] = ev[m + j]
    <2>1. m \in Nat /\ m <= L /\ L <= Len(ev)
      BY <1>1, <1>3
    <2>2. d2.events \in Rows /\ Len(d2.events) = L - m /\ \A j \in 1..(L - m) : d2.events[j] = ev[m + j]
      BY <1>1, <1>3, <2>1, Part
    <2> QED BY <2>2, InRows
  <1>6. d2.blocks \in Seq(Rows) /\ DOMAIN d2.blocks = 1..(nb - n) /\ \A j \in 1..(nb - n) : d2.blocks[j] = bl[n + j]
    BY <1>1, <1>4, PartOfBlocks
  <1>7. d2 \in DbType
    <2>1. d2.quotes \in SUBSET Nat
      BY <1>2 DEF DbType
    <2> QED BY <2>1, <1>5, <1>6 DEF WithoutAged, DbType
  <1>8. /\ \A i, j \in 1..L : i < j => ev[i].seq < ev[j].seq
        /\ \A c \in 1..nb : bl[c] # <<>> /\ Rising(bl[c])
        /\ \A c1, c2 \in 1..nb : c1 < c2 =>
              \A i \in DOMAIN bl[c1], j \in DOMAIN bl[c2] : bl[c1][i].seq < bl[c2][j].seq
        /\ \A c \in 1..nb : \A i \in DOMAIN bl[c], j \in 1..L : bl[c][i].seq < ev[j].seq
    BY <1>1 DEF InOrder, Rising
  <1>o. /\ m # 0 => m \in 1..L /\ ev[m].seq <= a
        /\ n # 0 => n \in 1..nb /\ Last(bl[n]).seq <= a
    BY <1>1, <1>3, <1>4
  <1> HIDE DEF ev, L, bl, nb, d2, oldE, oldB
  <1>k. /\ \A j \in 1..(L - m) : m + j \in 1..L /\ j \in Nat
        /\ \A j \in 1..(nb - n) : n + j \in 1..nb /\ j \in Nat
        /\ \A k \in 1..L : k > m => k - m \in 1..(L - m) /\ m + (k - m) = k
        /\ \A k \in 1..nb : k > n => k - n \in 1..(nb - n) /\ n + (k - n) = k
    <2>1. m \in Nat /\ n \in Nat /\ L \in Nat /\ nb \in Nat
      BY <1>1
    <2> QED BY <2>1
  <1>9. InOrder(d2)
    <2>1. ASSUME NEW i \in 1..(L - m), NEW j \in 1..(L - m), i < j
          PROVE  d2.events[i].seq < d2.events[j].seq
      <3>1. m + i \in 1..L /\ m + j \in 1..L /\ m + i < m + j
        BY <1>k, <1>1, <2>1
      <3> QED BY <3>1, <1>5, <1>8
    <2>2. ASSUME NEW c \in 1..(nb - n) PROVE d2.blocks[c] # <<>> /\ Rising(d2.blocks[c])
      BY <1>6, <1>8, <1>k
    <2>3. ASSUME NEW c1 \in 1..(nb - n), NEW c2 \in 1..(nb - n), c1 < c2,
                 NEW i \in DOMAIN d2.blocks[c1], NEW j \in DOMAIN d2.blocks[c2]
          PROVE  d2.blocks[c1][i].seq < d2.blocks[c2][j].seq
      <3>1. n + c1 \in 1..nb /\ n + c2 \in 1..nb /\ n + c1 < n + c2
        BY <1>k, <1>1, <2>3
      <3> QED BY <3>1, <1>6, <1>8
    <2>4. ASSUME NEW c \in 1..(nb - n), NEW i \in DOMAIN d2.blocks[c], NEW j \in 1..(L - m)
          PROVE  d2.blocks[c][i].seq < d2.events[j].seq
      <3>1. n + c \in 1..nb /\ m + j \in 1..L /\ d2.blocks[c] = bl[n + c] /\ d2.events[j] = ev[m + j]
        BY <1>k, <1>5, <1>6
      <3> QED BY <3>1, <1>8
    <2> QED BY <2>1, <2>2, <2>3, <2>4, <1>5, <1>6 DEF InOrder, Rising
  <1>10. ASSUME NEW x \in Event, Holds(d2, x) PROVE Holds(d, x)
    <2>1. CASE InTail(d2, x)
      <3>1. PICK j \in 1..(L - m) : ev[m + j] = x
        BY <2>1, <1>5 DEF InTail
      <3>2. m + j \in 1..L
        BY <1>k
      <3> QED BY <3>1, <3>2, <1>1 DEF Holds, InTail, ev
    <2>2. CASE InBlocks(d2, x)
      <3>1. PICK c \in 1..(nb - n) : \E i \in DOMAIN bl[n + c] : bl[n + c][i] = x
        BY <2>2, <1>6 DEF InBlocks
      <3>2. n + c \in 1..nb
        BY <1>k
      <3> QED BY <3>1, <3>2, <1>1 DEF Holds, InBlocks, bl
    <2> QED BY <2>1, <2>2, <1>10 DEF Holds
  <1>11. ASSUME NEW x \in Event, Holds(d, x), x.seq > a PROVE Holds(d2, x)
    <2>0. x.seq \in Nat
      BY DEF Event
    <2>1. CASE InTail(d, x)
      <3>1. PICK k \in 1..L : ev[k] = x
        BY <2>1, <1>1 DEF InTail, ev
      <3>2. k > m
        <4>1. SUFFICES ASSUME k <= m PROVE FALSE
          BY <1>1
        <4>2. m # 0 /\ m \in 1..L /\ ev[m].seq <= a
          BY <4>1, <1>o, <1>1
        <4>3. ev[k].seq <= ev[m].seq /\ ev[m].seq \in Nat
          BY <4>1, <4>2, <1>8, <1>1
        <4> QED BY <4>2, <4>3, <3>1, <2>0, <1>11
      <3>3. k - m \in DOMAIN d2.events /\ d2.events[k - m] = x
        BY <3>1, <3>2, <1>5, <1>k
      <3> QED BY <3>3 DEF Holds, InTail
    <2>2. CASE InBlocks(d, x)
      <3>1. PICK k \in 1..nb : \E i \in DOMAIN bl[k] : bl[k][i] = x
        BY <2>2, <1>1 DEF InBlocks, bl
      <3>2. PICK i \in DOMAIN bl[k] : bl[k][i] = x
        BY <3>1
      <3>3. k > n
        <4>1. SUFFICES ASSUME k <= n PROVE FALSE
          BY <1>1
        <4>2. n # 0 /\ n \in 1..nb /\ Last(bl[n]).seq <= a
          BY <4>1, <1>o, <1>1
        <4>3. bl[n] \in Rows /\ bl[n] # <<>> /\ Rising(bl[n])
          BY <4>2, <1>1, <1>8
        <4>4. /\ Len(bl[n]) \in DOMAIN bl[n] /\ DOMAIN bl[n] = 1..Len(bl[n]) /\ Len(bl[n]) \in Nat
              /\ Last(bl[n]) = bl[n][Len(bl[n])]
          BY <4>3, InRows DEF Last, Rows
        <4>5. bl[k][i].seq <= Last(bl[n]).seq /\ Last(bl[n]).seq \in Nat
          <5>1. CASE k = n
            <6>1. i <= Len(bl[n]) /\ i \in Nat
              BY <5>1, <4>4
            <6> QED BY <5>1, <6>1, <4>3, <4>4, <4>2, <1>1 DEF Rising
          <5>2. CASE k < n
            BY <5>2, <4>2, <4>4, <1>8, <1>1
          <5> QED BY <5>1, <5>2, <4>1, <4>2
        <4> QED BY <4>2, <4>5, <3>2, <2>0, <1>11
      <3>4. k - n \in DOMAIN d2.blocks /\ d2.blocks[k - n] = bl[k]
        BY <3>3, <1>6, <1>k
      <3> QED BY <3>2, <3>4 DEF Holds, InBlocks
    <2> QED BY <2>1, <2>2, <1>11 DEF Holds
  <1> QED BY <1>2, <1>7, <1>9, <1>10, <1>11 DEF d2

----------------------------------------------------------------------------
(* Recursion along a list *)

Steps(A, n) == [A \X (1..n) -> A]
Run(A, z, n, F, g) == g \in [0..n -> A] /\ g[0] = z /\ \A k \in 1..n : g[k] = F[<<g[k - 1], k>>]

LEMMA Recursion ==
    ASSUME NEW A, NEW z \in A, NEW n \in Nat, NEW F \in Steps(A, n)
    PROVE  \E g : Run(A, z, n, F, g)
  <1> DEFINE S == {m \in Nat : m <= n =>
                     \E g \in [0..m -> A] : g[0] = z /\ \A k \in 1..m : g[k] = F[<<g[k - 1], k>>]}
  <1>1. 0 \in S
    <2> DEFINE g == [k \in 0..0 |-> z]
    <2>1. g \in [0..0 -> A] /\ g[0] = z /\ \A k \in 1..0 : g[k] = F[<<g[k - 1], k>>]
      OBVIOUS
    <2> QED BY <2>1
  <1>2. ASSUME NEW m \in Nat, m \in S PROVE m + 1 \in S
    <2>1. SUFFICES ASSUME m + 1 <= n
          PROVE \E g \in [0..(m + 1) -> A] : g[0] = z /\ \A k \in 1..(m + 1) : g[k] = F[<<g[k - 1], k>>]
      OBVIOUS
    <2>2. PICK g \in [0..m -> A] : g[0] = z /\ \A k \in 1..m : g[k] = F[<<g[k - 1], k>>]
      BY <1>2, <2>1
    <2>3. m + 1 \in 1..n /\ g[m] \in A
      BY <2>1, <2>2
    <2> DEFINE v == F[<<g[m], m + 1>>]
               h == [k \in 0..(m + 1) |-> IF k = m + 1 THEN v ELSE g[k]]
    <2>4. v \in A
      BY <2>3 DEF Steps
    <2> HIDE DEF v
    <2>5. h \in [0..(m + 1) -> A] /\ h[0] = z /\ h[m + 1] = v /\ \A k \in 0..m : h[k] = g[k]
      BY <2>2, <2>4
    <2> HIDE DEF h
    <2>6. ASSUME NEW k \in 1..(m + 1) PROVE h[k] = F[<<h[k - 1], k>>]
      <3>1. CASE k = m + 1
        <4>1. k - 1 = m /\ m \in 0..m
          BY <3>1
        <4> QED BY <4>1, <3>1, <2>5 DEF v
      <3>2. CASE k # m + 1
        <4>1. k \in 1..m /\ k \in 0..m /\ k - 1 \in 0..m
          BY <3>2
        <4> QED BY <4>1, <2>2, <2>5
      <3> QED BY <3>1, <3>2
    <2> QED BY <2>5, <2>6
  <1> HIDE DEF S
  <1>3. n \in S
    BY <1>1, <1>2, SetInduction
  <1> QED BY <1>3 DEF S, Run

----------------------------------------------------------------------------
(* The replay *)

Has(rows, x) == \E i \in DOMAIN rows : rows[i] = x

LEMMA Concatenated ==
    ASSUME NEW q \in Rows, NEW r \in Rows
    PROVE  /\ q \o r \in Rows /\ \A x : Has(q \o r, x) <=> Has(q, x) \/ Has(r, x)
           /\ /\ Rising(q) /\ Rising(r)
              /\ \A i \in DOMAIN q, j \in DOMAIN r : q[i].seq < r[j].seq
              => Rising(q \o r)
  <1> DEFINE n == Len(q)  m == Len(r)  t == q \o r
  <1>1. /\ n \in Nat /\ DOMAIN q = 1..n /\ m \in Nat /\ DOMAIN r = 1..m
    BY InRows
  <1>2. t \in Rows /\ DOMAIN t = 1..(n + m)
    <2>1. t \in Rows /\ Len(t) = n + m
      BY DEF Rows
    <2> QED BY <2>1, InRows
  <1>3. (\A i \in 1..n : t[i] = q[i]) /\ \A i \in 1..m : t[n + i] = r[i]
    BY DEF Rows
  <1> HIDE DEF n, m, t
  <1>k. /\ \A i \in 1..n : i \in 1..(n + m)
        /\ \A i \in 1..m : n + i \in 1..(n + m)
        /\ \A i \in 1..(n + m) : i \in 1..n \/ (i - n \in 1..m /\ n + (i - n) = i)
    BY <1>1
  <1>4. \A i \in 1..(n + m) : (i \in 1..n /\ t[i] = q[i]) \/ (i - n \in 1..m /\ t[i] = r[i - n])
    BY <1>k, <1>3
  <1>5. \A x : Has(t, x) <=> Has(q, x) \/ Has(r, x)
    BY <1>1, <1>2, <1>3, <1>4, <1>k DEF Has
  <1>6. ASSUME /\ Rising(q) /\ Rising(r)
               /\ \A i \in DOMAIN q, j \in DOMAIN r : q[i].seq < r[j].seq
        PROVE  Rising(t)
    <2>1. ASSUME NEW i \in 1..(n + m), NEW j \in 1..(n + m), i < j PROVE t[i].seq < t[j].seq
      <3>1. CASE i \in 1..n /\ j \in 1..n
        BY <3>1, <2>1, <1>1, <1>3, <1>6 DEF Rising
      <3>2. CASE i \in 1..n /\ j - n \in 1..m /\ t[j] = r[j - n]
        BY <3>2, <1>1, <1>3, <1>6
      <3>3. CASE i - n \in 1..m /\ t[i] = r[i - n] /\ j - n \in 1..m /\ t[j] = r[j - n]
        <4>1. i - n < j - n
          BY <2>1, <1>1
        <4> QED BY <3>3, <4>1, <1>1, <1>6 DEF Rising
      <3>4. ~(i - n \in 1..m /\ j \in 1..n)
        BY <2>1, <1>1
      <3> QED BY <3>1, <3>2, <3>3, <3>4, <1>4
    <2> QED BY <2>1, <1>2 DEF Rising
  <1> QED BY <1>2, <1>5, <1>6 DEF t

LEMMA ReplayIs ==
    ASSUME NEW d \in DbType
    PROVE  \E g : /\ g[0] = <<>> /\ \A k \in 1..Len(d.blocks) : g[k] = g[k - 1] \o d.blocks[k]
                 /\ Replay(d) = g[Len(d.blocks)] \o d.events
  <1> DEFINE n == Len(d.blocks)
             F == [x \in Rows \X (1..n) |-> x[1] \o d.blocks[x[2]]]
             E(g) == g = [k \in 0..n |-> IF k = 0 THEN <<>> ELSE g[k - 1] \o d.blocks[k]]
             L == CHOOSE g : E(g)
  <1>1. n \in Nat /\ \A k \in 1..n : d.blocks[k] \in Rows
    BY LogIs
  <1>2. \A q \in Rows, k \in 1..n : q \o d.blocks[k] \in Rows
    BY <1>1 DEF Rows
  <1>3. F \in Steps(Rows, n) /\ \A q \in Rows, k \in 1..n : F[<<q, k>>] = q \o d.blocks[k]
    BY <1>2 DEF Steps
  <1>4. <<>> \in Rows
    BY DEF Rows
  <1>5. Replay(d) = L[n] \o d.events
    BY DEF Replay
  <1> HIDE DEF F, n
  <1>6. PICK g : Run(Rows, <<>>, n, F, g)
    BY <1>1, <1>3, <1>4, Recursion
  <1>7. E(g)
    <2>1. \A k \in 1..n : k \in 0..n /\ k - 1 \in 0..n
      BY <1>1
    <2>2. g[0] = <<>> /\ \A k \in 1..n : g[k] = g[k - 1] \o d.blocks[k]
      BY <1>3, <1>6, <2>1 DEF Run
    <2>3. g \in [0..n -> Rows]
      BY <1>6 DEF Run
    <2>4. \A k \in 0..n : k # 0 => k \in 1..n
      BY <1>1
    <2>5. \A k \in 0..n : g[k] = IF k = 0 THEN <<>> ELSE g[k - 1] \o d.blocks[k]
      BY <2>2, <2>4
    <2> QED BY <2>3, <2>5, Zenon
  <1>8. E(L)
    BY <1>7
  <1> HIDE DEF L
  <1>9. L[0] = <<>> /\ \A k \in 1..n : L[k] = L[k - 1] \o d.blocks[k]
    <2>1. 0 \in 0..n /\ \A k \in 1..n : k \in 0..n /\ k # 0
      BY <1>1
    <2> QED BY <1>8, <2>1
  <1> QED BY <1>5, <1>9 DEF n

\* What is replayed is what the log holds, in order if it is.
LEMMA ReplayHolds ==
    ASSUME NEW d \in DbType
    PROVE  /\ Replay(d) \in Rows /\ \A x : Has(Replay(d), x) <=> Holds(d, x)
           /\ InOrder(d) => Rising(Replay(d))
  <1> DEFINE n == Len(d.blocks)
  <1>1. /\ n \in Nat /\ DOMAIN d.blocks = 1..n /\ d.events \in Rows
        /\ \A k \in 1..n : d.blocks[k] \in Rows
    BY LogIs
  <1> HIDE DEF n
  <1>2. PICK g : /\ g[0] = <<>> /\ \A k \in 1..n : g[k] = g[k - 1] \o d.blocks[k]
                 /\ Replay(d) = g[n] \o d.events
    BY ReplayIs DEF n
  <1> DEFINE Sofar(m) == /\ g[m] \in Rows
                         /\ \A x : Has(g[m], x) <=> \E c \in 1..m : Has(d.blocks[c], x)
                         /\ InOrder(d) => Rising(g[m])
             S == {m \in Nat : m <= n => Sofar(m)}
  <1>3. 0 \in S
    <2>1. g[0] \in Rows /\ DOMAIN g[0] = {} /\ \A c \in 1..0 : FALSE
      BY <1>2 DEF Rows
    <2> QED BY <2>1 DEF Has, Rising
  <1>4. ASSUME NEW m \in Nat, m \in S PROVE m + 1 \in S
    <2>1. SUFFICES ASSUME m + 1 <= n PROVE Sofar(m + 1)
      OBVIOUS
    <2> DEFINE q == g[m]  b == d.blocks[m + 1]
    <2>2. Sofar(m)
      BY <1>1, <1>4, <2>1
    <2>3. m + 1 \in 1..n /\ (m + 1) - 1 = m /\ 1..m \subseteq 1..n /\ 1..(m + 1) = (1..m) \cup {m + 1}
          /\ \A c \in 1..m : c < m + 1
      BY <1>1, <2>1
    <2>4. g[m + 1] = q \o b /\ b \in Rows /\ q \in Rows
      <3>1. g[m + 1] = g[(m + 1) - 1] \o d.blocks[m + 1]
        <4>1. m + 1 \in 1..n
          BY <2>3
        <4>2. \A k \in 1..n : g[k] = g[k - 1] \o d.blocks[k]
          BY <1>2
        <4> QED BY <4>1, <4>2, Zenon
      <3>2. q \in Rows
        BY <2>2
      <3>3. b \in Rows
        BY <1>1, <2>3
      <3> QED BY <3>1, <3>2, <3>3, <2>3
    <2>5. \A x : Has(q, x) <=> \E c \in 1..m : Has(d.blocks[c], x)
      BY <2>2
    <2> HIDE DEF q, b
    <2>6. g[m + 1] \in Rows /\ \A x : Has(g[m + 1], x) <=> Has(q, x) \/ Has(b, x)
      BY <2>4, Concatenated
    <2>7. \A x : Has(g[m + 1], x) <=> \E c \in 1..(m + 1) : Has(d.blocks[c], x)
      BY <2>3, <2>5, <2>6 DEF b
    <2>8. ASSUME InOrder(d) PROVE Rising(g[m + 1])
      <3>1. Rising(q) /\ Rising(b)
        BY <2>2, <2>3, <2>8, <1>1 DEF InOrder, q, b
      <3>2. ASSUME NEW i \in DOMAIN q, NEW j \in DOMAIN b PROVE q[i].seq < b[j].seq
        <4>1. PICK c \in 1..m : Has(d.blocks[c], q[i])
          BY <2>5 DEF Has
        <4>2. PICK k \in DOMAIN d.blocks[c] : d.blocks[c][k] = q[i]
          BY <4>1 DEF Has
        <4>3. c \in 1..n /\ m + 1 \in 1..n /\ c < m + 1
          BY <2>3
        <4>4. \A i1 \in DOMAIN d.blocks[c], j1 \in DOMAIN d.blocks[m + 1] :
                  d.blocks[c][i1].seq < d.blocks[m + 1][j1].seq
          BY <2>8, <4>3, <1>1 DEF InOrder
        <4> QED BY <4>2, <4>4 DEF b
      <3> QED BY <3>1, <3>2, <2>4, Concatenated
    <2> QED BY <2>6, <2>7, <2>8
  <1> HIDE DEF S
  <1>5. n \in S
    BY <1>1, <1>3, <1>4, SetInduction
  <1>6. Sofar(n)
    BY <1>5, <1>1 DEF S
  <1>7. Replay(d) \in Rows /\ \A x : Has(Replay(d), x) <=> Has(g[n], x) \/ Has(d.events, x)
    BY <1>1, <1>2, <1>6, Concatenated
  <1>8. \A x : Has(Replay(d), x) <=> Holds(d, x)
    BY <1>1, <1>6, <1>7 DEF Holds, InBlocks, InTail, Has
  <1>9. ASSUME InOrder(d) PROVE Rising(Replay(d))
    <2>1. ASSUME NEW i \in DOMAIN g[n], NEW j \in DOMAIN d.events PROVE g[n][i].seq < d.events[j].seq
      <3>1. PICK c \in 1..n : Has(d.blocks[c], g[n][i])
        BY <1>6 DEF Has
      <3> QED BY <3>1, <1>1, <1>9 DEF InOrder, Has
    <2>2. Rising(g[n]) /\ Rising(d.events)
      BY <1>6, <1>9 DEF InOrder
    <2>3. g[n] \in Rows /\ d.events \in Rows
      BY <1>1, <1>6
    <2>4. Rising(g[n] \o d.events)
      BY <2>1, <2>2, <2>3, Concatenated
    <2> QED BY <2>4, <1>2
  <1> QED BY <1>7, <1>8, <1>9

\* The invariant makes the replay what the property asks of it.
LEMMA FaithfulReplay ==
    ASSUME NEW d \in DbType, NEW p \in PastType, NEW a \in Nat, Faithful(d, p, a), ~p.deleted
    PROVE  /\ \A i, j \in DOMAIN Replay(d) : i < j => Replay(d)[i].seq < Replay(d)[j].seq
           /\ ToSet(Replay(d)) \subseteq p.written
           /\ \A e \in p.written : e.seq > a => e \in ToSet(Replay(d))
  <1> DEFINE r == Replay(d)
  <1>1. r \in Rows /\ Rising(r) /\ \A x : Has(r, x) <=> Holds(d, x)
    BY ReplayHolds DEF Faithful
  <1>2. \A i \in DOMAIN r : r[i] \in Event
    BY <1>1, InRows
  <1> HIDE DEF r
  <1>3. \A x : x \in ToSet(r) <=> Has(r, x)
    BY DEF ToSet, Has
  <1>4. \A e \in p.written : e \in Event
    BY DEF PastType
  <1>5. ToSet(r) \subseteq p.written
    BY <1>1, <1>2, <1>3 DEF Faithful, Has
  <1>6. \A e \in p.written : e.seq > a => e \in ToSet(r)
    BY <1>1, <1>3, <1>4 DEF Faithful
  <1>7. \A i, j \in DOMAIN r : i < j => r[i].seq < r[j].seq
    BY <1>1 DEF Rising
  <1> QED BY <1>5, <1>6, <1>7 DEF r

----------------------------------------------------------------------------
(* A batch *)

Writing == [db : DbType, thin : ThinType, thinned : Nat]

\* What the projection of an event does to the quotes of the opportunity.
Verdict(a, w, e) ==
    CASE e.kind = "raw" /\ a.thin.notable ->
            w.thin.notable /\ w.db.quotes = a.db.quotes \cup {e.seq}
      [] e.kind = "raw" /\ ~a.thin.notable ->
            ~w.thin.notable /\ w.thin.quotes = a.thin.quotes \cup {e.seq}
      [] e.kind = "notable" -> w.thin.notable /\ w.db.quotes = a.db.quotes \cup a.thin.quotes
      [] e.kind = "skipped" -> w.thin.notable = a.thin.notable /\ w.db.quotes = a.db.quotes
      [] OTHER -> /\ w.thin.notable = a.thin.notable /\ w.thin.quotes = a.thin.quotes
                  /\ w.db.quotes = a.db.quotes

SameSession(d, d2) ==
    /\ d2.row = d.row /\ d2.total = d.total /\ d2.dropped = d.dropped /\ d2.blocks = d.blocks
    /\ d2.activity \in {0, d.activity}

\* The rows and the memory of a session with other quotes and marks.
QuoteSets == SUBSET Nat

LEMMA WithQuotes ==
    ASSUME NEW d \in DbType, NEW q \in QuoteSets
    PROVE  /\ [d EXCEPT !.quotes = q] \in DbType /\ [d EXCEPT !.quotes = q].quotes = q
           /\ [d EXCEPT !.quotes = q].events = d.events /\ [d EXCEPT !.quotes = q].counted = d.counted
           /\ SameSession(d, [d EXCEPT !.quotes = q])
  <1>1. SameSession(d, [d EXCEPT !.quotes = q])
    BY DEF DbType, QuoteSets, SameSession
  <1> QED BY <1>1 DEF DbType, QuoteSets

LEMMA WithTrade ==
    ASSUME NEW d \in DbType
    PROVE  /\ [d EXCEPT !.traded = TRUE] \in DbType /\ [d EXCEPT !.traded = TRUE].quotes = d.quotes
           /\ [d EXCEPT !.traded = TRUE].events = d.events /\ [d EXCEPT !.traded = TRUE].counted = d.counted
           /\ SameSession(d, [d EXCEPT !.traded = TRUE])
  <1>1. SameSession(d, [d EXCEPT !.traded = TRUE])
    BY DEF DbType, QuoteSets, SameSession
  <1> QED BY <1>1 DEF DbType, QuoteSets

LEMMA WithWaiting ==
    ASSUME NEW t \in ThinType, NEW q \in QuoteSets
    PROVE  /\ [t EXCEPT !.quotes = q] \in ThinType /\ [t EXCEPT !.quotes = q].quotes = q
           /\ [t EXCEPT !.quotes = q].notable = t.notable
           /\ [t EXCEPT !.notable = TRUE, !.quotes = q] \in ThinType
           /\ [t EXCEPT !.notable = TRUE, !.quotes = q].notable
  BY DEF ThinType, QuoteSets

LEMMA WithMetric ==
    ASSUME NEW t \in ThinType
    PROVE  /\ [t EXCEPT !.metric = TRUE] \in ThinType /\ [t EXCEPT !.metric = TRUE].notable = t.notable
           /\ [t EXCEPT !.metric = TRUE].quotes = t.quotes
  BY DEF ThinType, QuoteSets

LEMMA WroteIs ==
    ASSUME NEW a \in Writing, NEW e \in Event
    PROVE  /\ Wrote(a, e) \in Writing /\ Verdict(a, Wrote(a, e), e)
           /\ SameSession(a.db, Wrote(a, e).db)
           /\ \/ /\ Wrote(a, e).db.events = Append(a.db.events, e)
                 /\ Wrote(a, e).db.counted = a.db.counted + 1 /\ Wrote(a, e).thinned = a.thinned
              \/ /\ Wrote(a, e).db = a.db /\ Wrote(a, e).thinned = a.thinned + 1
  <1> DEFINE d1 == [a.db EXCEPT !.events = Append(@, e), !.counted = @ + 1, !.activity = 0]
             p == Project(d1, a.thin, e)
             w == Wrote(a, e)
  <1>1. /\ a.db \in DbType /\ a.thin \in ThinType /\ a.thinned \in Nat
        /\ e.seq \in Nat /\ e.kind \in Kinds
    BY DEF Writing, Event
  <1>2. /\ d1 \in DbType /\ d1.events = Append(a.db.events, e) /\ d1.counted = a.db.counted + 1
        /\ d1.quotes = a.db.quotes /\ SameSession(a.db, d1)
    <2>1. Append(a.db.events, e) \in Rows
      BY <1>1 DEF DbType, Rows
    <2>2. a.db.counted + 1 \in Nat
      BY <1>1 DEF DbType
    <2> QED BY <1>1, <2>1, <2>2 DEF DbType, SameSession
  <1>3. w = IF Keep(a.thin, e.kind) THEN [a EXCEPT !.db = p.db, !.thin = p.thin]
            ELSE [a EXCEPT !.thinned = @ + 1]
    BY DEF Wrote
  <1>4. /\ p.db \in DbType /\ p.thin \in ThinType /\ SameSession(a.db, p.db)
        /\ p.db.events = d1.events /\ p.db.counted = d1.counted
        /\ Verdict(a, p, e)
    <2> HIDE DEF d1, p
    <2>0. /\ {} \in QuoteSets
          /\ d1.quotes \cup {e.seq} \in QuoteSets /\ a.thin.quotes \cup {e.seq} \in QuoteSets
          /\ d1.quotes \cup a.thin.quotes \in QuoteSets
      BY <1>1, <1>2 DEF ThinType, DbType, QuoteSets
    <2>d. d1 \in DbType
      BY <1>2
    <2>t. a.thin \in ThinType
      BY <1>1
    <2>s. \A d : SameSession(d1, d) => SameSession(a.db, d)
      BY <1>2 DEF SameSession
    <2>q. ASSUME NEW q \in QuoteSets
          PROVE  /\ [d1 EXCEPT !.quotes = q] \in DbType /\ [d1 EXCEPT !.quotes = q].quotes = q
                 /\ [d1 EXCEPT !.quotes = q].events = d1.events
                 /\ [d1 EXCEPT !.quotes = q].counted = d1.counted
                 /\ SameSession(a.db, [d1 EXCEPT !.quotes = q])
      <3>1. /\ [d1 EXCEPT !.quotes = q] \in DbType /\ [d1 EXCEPT !.quotes = q].quotes = q
            /\ [d1 EXCEPT !.quotes = q].events = d1.events
            /\ [d1 EXCEPT !.quotes = q].counted = d1.counted
            /\ SameSession(d1, [d1 EXCEPT !.quotes = q])
        BY <2>d, WithQuotes, Zenon
      <3> QED BY <3>1, <2>s, Zenon
    <2>w. ASSUME NEW q \in QuoteSets
          PROVE  /\ [a.thin EXCEPT !.quotes = q] \in ThinType /\ [a.thin EXCEPT !.quotes = q].quotes = q
                 /\ [a.thin EXCEPT !.quotes = q].notable = a.thin.notable
                 /\ [a.thin EXCEPT !.notable = TRUE, !.quotes = q] \in ThinType
                 /\ [a.thin EXCEPT !.notable = TRUE, !.quotes = q].notable
      BY <2>t, WithWaiting, Zenon
    <2>x. {} \in QuoteSets
      BY <2>0
    <2>u. d1.quotes \cup {e.seq} \in QuoteSets
      BY <2>0
    <2>y. a.thin.quotes \cup {e.seq} \in QuoteSets
      BY <2>0
    <2>z. d1.quotes \cup a.thin.quotes \in QuoteSets
      BY <2>0
    <2>1. CASE e.kind = "raw" /\ a.thin.notable
      <3>1. p.db = [d1 EXCEPT !.quotes = d1.quotes \cup {e.seq}] /\ p.thin = a.thin
        BY <2>1 DEF Project, p
      <3>2. /\ p.db \in DbType /\ SameSession(a.db, p.db) /\ p.db.quotes = d1.quotes \cup {e.seq}
            /\ p.db.events = d1.events /\ p.db.counted = d1.counted
        BY <3>1, <2>u, <2>q, Zenon
      <3> QED BY <3>1, <3>2, <2>1, <1>1, <1>2 DEF Verdict
    <2>2. CASE e.kind = "raw" /\ ~a.thin.notable
      <3>1. p.db = d1 /\ p.thin = [a.thin EXCEPT !.quotes = a.thin.quotes \cup {e.seq}]
        BY <2>2 DEF Project, p
      <3>2. /\ p.thin \in ThinType /\ p.thin.quotes = a.thin.quotes \cup {e.seq}
            /\ p.thin.notable = a.thin.notable
        BY <3>1, <2>y, <2>w, Zenon
      <3> QED BY <3>1, <3>2, <2>2, <1>2 DEF Verdict
    <2>3. CASE e.kind = "notable"
      <3>1. /\ p.db = [d1 EXCEPT !.quotes = d1.quotes \cup a.thin.quotes]
            /\ p.thin = [a.thin EXCEPT !.notable = TRUE, !.quotes = {}]
        BY <2>3 DEF Project, p
      <3>2. p.thin \in ThinType /\ p.thin.notable
        BY <3>1, <2>x, <2>w, Zenon
      <3>3. /\ p.db \in DbType /\ p.db.quotes = d1.quotes \cup a.thin.quotes
            /\ p.db.events = d1.events /\ p.db.counted = d1.counted /\ SameSession(a.db, p.db)
        BY <3>1, <2>z, <2>q, Zenon
      <3> QED BY <3>2, <3>3, <2>3, <1>2 DEF Verdict
    <2>4. CASE e.kind = "skipped"
      <3>1. p.db = d1 /\ p.thin = [a.thin EXCEPT !.quotes = {}]
        BY <2>4 DEF Project, p
      <3>2. p.thin \in ThinType /\ p.thin.notable = a.thin.notable
        BY <3>1, <2>x, <2>w, Zenon
      <3> QED BY <3>1, <3>2, <2>4, <1>2 DEF Verdict
    <2>5. CASE e.kind = "trade"
      <3>1. p.db = [d1 EXCEPT !.traded = TRUE] /\ p.thin = a.thin
        BY <2>5 DEF Project, p
      <3>2. /\ p.db \in DbType /\ p.db.quotes = d1.quotes
            /\ p.db.events = d1.events /\ p.db.counted = d1.counted /\ SameSession(a.db, p.db)
        BY <3>1, <2>d, <2>s, WithTrade, Zenon
      <3> QED BY <3>1, <3>2, <2>5, <1>1, <1>2 DEF Verdict
    <2>6. CASE e.kind = "metric"
      <3>1. p.db = d1 /\ p.thin = [a.thin EXCEPT !.metric = TRUE]
        BY <2>6 DEF Project, p
      <3>2. /\ p.thin \in ThinType /\ p.thin.notable = a.thin.notable
            /\ p.thin.quotes = a.thin.quotes
        BY <3>1, <2>t, WithMetric, Zenon
      <3> QED BY <3>1, <3>2, <2>6, <1>2 DEF Verdict
    <2>7. CASE e.kind \in {"quoted", "other"}
      <3>1. p = [db |-> d1, thin |-> a.thin]
        BY <2>7 DEF Project, p
      <3> QED BY <3>1, <2>7, <1>1, <1>2 DEF Verdict
    <2> QED BY <2>1, <2>2, <2>3, <2>4, <2>5, <2>6, <2>7, <1>1 DEF Kinds
  <1> HIDE DEF p, w, d1
  <1>5. CASE Keep(a.thin, e.kind)
    <2>1. /\ w = [a EXCEPT !.db = p.db, !.thin = p.thin] /\ w \in Writing
          /\ w.db = p.db /\ w.thin = p.thin /\ w.thinned = a.thinned
      BY <1>3, <1>4, <1>5 DEF Writing
    <2>2. Verdict(a, w, e)
      BY <2>1, <1>4 DEF Verdict
    <2> QED BY <2>1, <2>2, <1>2, <1>4 DEF w
  <1>6. CASE ~Keep(a.thin, e.kind)
    <2>1. e.kind = "metric"
      BY <1>6 DEF Keep
    <2>2. w \in Writing /\ w.db = a.db /\ w.thin = a.thin /\ w.thinned = a.thinned + 1
      BY <1>1, <1>3, <1>6 DEF Writing
    <2> QED BY <2>1, <2>2 DEF Verdict, SameSession, w
  <1> QED BY <1>5, <1>6

\* A batch is written event by event.
LEMMA BatchIs ==
    ASSUME NEW d \in DbType, NEW t \in ThinType, NEW batch \in Rows
    PROVE  \E g : /\ g[0] = [db |-> d, thin |-> t, thinned |-> 0]
                  /\ \A k \in 1..Len(batch) : g[k] = Wrote(g[k - 1], batch[k])
                  /\ WriteBatch(d, t, batch) = g[Len(batch)]
  <1> DEFINE n == Len(batch)
             z == [db |-> d, thin |-> t, thinned |-> 0]
             F == [x \in Writing \X (1..n) |-> Wrote(x[1], batch[x[2]])]
             E(g) == g = [k \in 0..n |-> IF k = 0 THEN z ELSE Wrote(g[k - 1], batch[k])]
             L == CHOOSE g : E(g)
  <1>1. n \in Nat /\ \A k \in 1..n : batch[k] \in Event
    BY InRows
  <1>2. \A a \in Writing, k \in 1..n : Wrote(a, batch[k]) \in Writing
    BY <1>1, WroteIs
  <1>3. F \in Steps(Writing, n) /\ \A a \in Writing, k \in 1..n : F[<<a, k>>] = Wrote(a, batch[k])
    BY <1>2 DEF Steps
  <1>4. z \in Writing
    BY DEF Writing
  <1>5. WriteBatch(d, t, batch) = L[n]
    BY DEF WriteBatch
  <1> HIDE DEF F, n, z
  <1>6. PICK g : Run(Writing, z, n, F, g)
    BY <1>1, <1>3, <1>4, Recursion
  <1>7. E(g)
    <2>1. \A k \in 1..n : k \in 0..n /\ k - 1 \in 0..n
      BY <1>1
    <2>2. g[0] = z /\ \A k \in 1..n : g[k] = Wrote(g[k - 1], batch[k])
      BY <1>3, <1>6, <2>1 DEF Run
    <2>3. g \in [0..n -> Writing]
      BY <1>6 DEF Run
    <2>4. \A k \in 0..n : k # 0 => k \in 1..n
      BY <1>1
    <2>5. \A k \in 0..n : g[k] = IF k = 0 THEN z ELSE Wrote(g[k - 1], batch[k])
      BY <2>2, <2>4
    <2> QED BY <2>3, <2>5, Zenon
  <1>8. E(L)
    BY <1>7
  <1> HIDE DEF L
  <1>9. L[0] = z /\ \A k \in 1..n : L[k] = Wrote(L[k - 1], batch[k])
    <2>1. 0 \in 0..n /\ \A k \in 1..n : k \in 0..n /\ k # 0
      BY <1>1
    <2> QED BY <1>8, <2>1
  <1> QED BY <1>5, <1>9 DEF n, z

\* The log that a batch is written to, and the batch: numbered after it.
Ready(d, batch, base) ==
    /\ InOrder(d) /\ \A x \in Event : Holds(d, x) => x.seq <= base
    /\ \A i \in DOMAIN batch : batch[i].seq = base + i

\* After m events of the batch the rows of the session are in order, those that
\* were there and some of the batch, and each event is counted or thinned.
LogSofar(d, batch, m, w) ==
    /\ SameSession(d, w.db) /\ InOrder(w.db)
    /\ \A x : InTail(d, x) => InTail(w.db, x)
    /\ \A x : InTail(w.db, x) => InTail(d, x) \/ \E i \in 1..m : x = batch[i]
CountSofar(d, m, w) == w.db.counted + w.thinned = d.counted + m

LEMMA LogStep ==
    ASSUME NEW d \in DbType, NEW batch \in Rows, NEW base \in Int, Ready(d, batch, base),
           NEW m \in Nat, m + 1 <= Len(batch), NEW w \in Writing, LogSofar(d, batch, m, w)
    PROVE  LogSofar(d, batch, m + 1, Wrote(w, batch[m + 1]))
  <1> DEFINE e == batch[m + 1]  v == Wrote(w, e)
  <1>0. /\ m + 1 \in DOMAIN batch /\ 1..m \subseteq DOMAIN batch /\ 1..(m + 1) = (1..m) \cup {m + 1}
        /\ \A i \in 1..m : i \in Nat /\ i < m + 1
    BY InRows
  <1>1. e \in Event /\ e.seq = base + (m + 1) /\ w.db \in DbType
    BY <1>0, InRows DEF Ready, Writing
  <1> HIDE DEF e
  <1>2. /\ v \in Writing /\ SameSession(w.db, v.db)
        /\ v.db.events = Append(w.db.events, e) \/ v.db = w.db
    BY <1>1, WroteIs
  <1> HIDE DEF v
  <1>3. v.db \in DbType
    BY <1>2 DEF Writing
  <1>4. SameSession(d, v.db)
    BY <1>2 DEF LogSofar, SameSession
  <1>5. CASE v.db.events = Append(w.db.events, e)
    <2>1. ASSUME NEW x \in Event, Holds(w.db, x) PROVE x.seq < e.seq
      <3>0. x.seq \in Nat
        BY DEF Event
      <3>1. CASE Holds(d, x)
        <4>1. x.seq <= base
          BY <3>1 DEF Ready
        <4> QED BY <4>1, <3>0, <1>1
      <3>2. CASE ~Holds(d, x)
        <4>1. InTail(w.db, x)
          BY <3>2, <2>1 DEF Holds, InBlocks, LogSofar, SameSession
        <4>2. PICK i \in 1..m : x = batch[i]
          BY <3>2, <4>1 DEF LogSofar, Holds
        <4>3. x.seq = base + i /\ i \in Nat /\ i < m + 1
          BY <4>2, <1>0 DEF Ready
        <4> QED BY <4>3, <1>1
      <3> QED BY <3>1, <3>2
    <2>2. InOrder(w.db) /\ v.db.blocks = w.db.blocks
      BY <1>2 DEF LogSofar, SameSession
    <2>3. InOrder(v.db)
      BY <1>1, <1>3, <1>5, <2>1, <2>2, Appended
    <2>4. w.db.events \in Rows
      BY <1>1 DEF DbType
    <2>5. \A x : InTail(v.db, x) <=> InTail(w.db, x) \/ x = e
      <3>1. /\ Len(w.db.events) \in Nat /\ DOMAIN w.db.events = 1..Len(w.db.events)
            /\ DOMAIN v.db.events = 1..(Len(w.db.events) + 1)
            /\ v.db.events[Len(w.db.events) + 1] = e
            /\ \A i \in 1..Len(w.db.events) : v.db.events[i] = w.db.events[i]
        BY <2>4, <1>1, <1>5 DEF Rows
      <3> DEFINE n == Len(w.db.events)
      <3>2. /\ \A i \in 1..n : i \in 1..(n + 1)
            /\ \A i \in 1..(n + 1) : i \in 1..n \/ i = n + 1
            /\ n + 1 \in 1..(n + 1)
        BY <3>1
      <3> HIDE DEF n
      <3>3. /\ DOMAIN w.db.events = 1..n /\ DOMAIN v.db.events = 1..(n + 1) /\ v.db.events[n + 1] = e
            /\ \A i \in 1..n : v.db.events[i] = w.db.events[i]
        BY <3>1 DEF n
      <3> QED BY <3>2, <3>3, Zenon DEF InTail
    <2>6. ASSUME NEW x, InTail(v.db, x) PROVE InTail(d, x) \/ \E i \in 1..(m + 1) : x = batch[i]
      <3>1. CASE x = e
        BY <3>1, <1>0 DEF e
      <3>2. CASE InTail(w.db, x)
        BY <3>2, <1>0 DEF LogSofar
      <3> QED BY <3>1, <3>2, <2>5, <2>6
    <2>7. \A x : InTail(d, x) => InTail(v.db, x)
      BY <2>5 DEF LogSofar
    <2> QED BY <2>3, <2>6, <2>7, <1>4 DEF LogSofar, v, e
  <1>6. CASE v.db = w.db
    <2>1. ASSUME NEW x, InTail(w.db, x) PROVE InTail(d, x) \/ \E i \in 1..(m + 1) : x = batch[i]
      BY <2>1, <1>0 DEF LogSofar
    <2>2. InOrder(w.db) /\ \A x : InTail(d, x) => InTail(w.db, x)
      BY DEF LogSofar
    <2> QED BY <2>1, <2>2, <1>4, <1>6 DEF LogSofar, v, e
  <1> QED BY <1>2, <1>5, <1>6 DEF v, e

LEMMA CountStep ==
    ASSUME NEW d \in DbType, NEW e \in Event, NEW m \in Nat, NEW w \in Writing, CountSofar(d, m, w)
    PROVE  CountSofar(d, m + 1, Wrote(w, e))
  <1> DEFINE v == Wrote(w, e)
  <1>1. /\ w.db.counted \in Nat /\ w.thinned \in Nat /\ d.counted \in Nat
        /\ w.db.counted + w.thinned = d.counted + m
    BY DEF Writing, DbType, CountSofar
  <1>2. \/ v.db.counted = w.db.counted + 1 /\ v.thinned = w.thinned
        \/ v.db = w.db /\ v.thinned = w.thinned + 1
    BY WroteIs
  <1> HIDE DEF v
  <1>3. v.db.counted + v.thinned = d.counted + (m + 1)
    BY <1>1, <1>2
  <1> QED BY <1>3 DEF CountSofar, v

\* The raw quotes of R and those of the batch so far are with the notable
\* verdict, or wait, or no such verdict comes.
QuotesSofar(R, a, b, batch, m, w) ==
    IF w.thin.notable
    THEN \A e \in R \cup {batch[i] : i \in {i \in 1..m : batch[i].kind = "raw"}} :
            e.seq > a => e.seq \in w.db.quotes
    ELSE \/ \A e \in R \cup {batch[i] : i \in {i \in 1..m : batch[i].kind = "raw"}} :
               e.seq \in w.thin.quotes
         \/ /\ b.skipped /\ \A j \in DOMAIN b.queue : b.queue[j] # "notable"
            /\ \A j \in DOMAIN batch : j > m => batch[j].kind # "notable"

LEMMA QuotesStep ==
    ASSUME NEW R, NEW a, NEW b, NEW batch \in Rows, NEW r, r.buf = batch, SkippedLast(b, r),
           NEW m \in Nat, m + 1 <= Len(batch), NEW w \in Writing, QuotesSofar(R, a, b, batch, m, w)
    PROVE  QuotesSofar(R, a, b, batch, m + 1, Wrote(w, batch[m + 1]))
  <1> DEFINE e == batch[m + 1]  v == Wrote(w, e)
             Q(k) == R \cup {batch[i] : i \in {i \in 1..k : batch[i].kind = "raw"}}
  <1>0. /\ m + 1 \in DOMAIN batch /\ 1..(m + 1) = (1..m) \cup {m + 1}
        /\ \A j \in DOMAIN batch : j > m + 1 => j > m
        /\ m + 1 > m
    BY InRows
  <1>1. e \in Event /\ e.kind \in Kinds
    BY <1>0, InRows
  <1>2. Q(m + 1) = Q(m) \cup (IF e.kind = "raw" THEN {e} ELSE {})
    BY <1>0
  <1>3. Verdict(w, v, e) /\ v \in Writing
    BY <1>1, WroteIs
  <1>4. /\ \A j \in DOMAIN batch : m + 1 < j /\ e.kind = "skipped" => batch[j].kind # "notable"
        /\ e.kind = "skipped" => b.skipped /\ \A j \in DOMAIN b.queue : b.queue[j] # "notable"
    BY <1>0 DEF SkippedLast
  <1>5. IF w.thin.notable THEN \A x \in Q(m) : x.seq > a => x.seq \in w.db.quotes
        ELSE \/ \A x \in Q(m) : x.seq \in w.thin.quotes
             \/ /\ b.skipped /\ \A j \in DOMAIN b.queue : b.queue[j] # "notable"
                /\ \A j \in DOMAIN batch : j > m => batch[j].kind # "notable"
    BY DEF QuotesSofar
  <1> HIDE DEF Q, v
  <1>6. IF v.thin.notable THEN \A x \in Q(m + 1) : x.seq > a => x.seq \in v.db.quotes
        ELSE \/ \A x \in Q(m + 1) : x.seq \in v.thin.quotes
             \/ /\ b.skipped /\ \A j \in DOMAIN b.queue : b.queue[j] # "notable"
                /\ \A j \in DOMAIN batch : j > m + 1 => batch[j].kind # "notable"
    <2>1. CASE e.kind = "raw" /\ w.thin.notable
      <3>1. v.thin.notable /\ v.db.quotes = w.db.quotes \cup {e.seq} /\ Q(m + 1) = Q(m) \cup {e}
        BY <2>1, <1>2, <1>3 DEF Verdict
      <3> QED BY <3>1, <2>1, <1>5, Zenon
    <2>2. CASE e.kind = "raw" /\ ~w.thin.notable
      <3>1. ~v.thin.notable /\ v.thin.quotes = w.thin.quotes \cup {e.seq} /\ Q(m + 1) = Q(m) \cup {e}
        BY <2>2, <1>2, <1>3 DEF Verdict
      <3> QED BY <3>1, <2>2, <1>5, <1>0, Zenon
    <2>3. CASE e.kind = "notable"
      <3>1. v.thin.notable /\ v.db.quotes = w.db.quotes \cup w.thin.quotes /\ Q(m + 1) = Q(m)
        BY <2>3, <1>2, <1>3 DEF Verdict
      <3>2. \E j \in DOMAIN batch : j > m /\ batch[j].kind = "notable"
        BY <2>3, <1>0
      <3> QED BY <3>1, <3>2, <1>5, Zenon
    <2>4. CASE e.kind = "skipped"
      <3>1. v.thin.notable = w.thin.notable /\ v.db.quotes = w.db.quotes /\ Q(m + 1) = Q(m)
        BY <2>4, <1>2, <1>3 DEF Verdict
      <3>2. \A j \in DOMAIN batch : j > m + 1 => batch[j].kind # "notable"
        BY <2>4, <1>4, <1>0, InRows
      <3> QED BY <3>1, <3>2, <2>4, <1>4, <1>5, Zenon
    <2>5. CASE e.kind \notin {"raw", "notable", "skipped"}
      <3>1. /\ v.thin.notable = w.thin.notable /\ v.thin.quotes = w.thin.quotes
            /\ v.db.quotes = w.db.quotes /\ Q(m + 1) = Q(m)
        BY <2>5, <1>2, <1>3 DEF Verdict
      <3> QED BY <3>1, <1>0, <1>5, Zenon
    <2> QED BY <2>1, <2>2, <2>3, <2>4, <2>5
  <1> QED BY <1>6 DEF QuotesSofar, Q, v

LEMMA BatchKeeps ==
    ASSUME NEW d \in DbType, NEW t \in ThinType, NEW batch \in Rows, NEW base \in Int,
           NEW R, NEW a, NEW b, NEW r, r.buf = batch, SkippedLast(b, r)
    PROVE  /\ WriteBatch(d, t, batch) \in Writing
           /\ CountSofar(d, Len(batch), WriteBatch(d, t, batch))
           /\ Ready(d, batch, base) => LogSofar(d, batch, Len(batch), WriteBatch(d, t, batch))
           /\ QuotesSofar(R, a, b, batch, 0, [db |-> d, thin |-> t, thinned |-> 0])
              => QuotesSofar(R, a, b, batch, Len(batch), WriteBatch(d, t, batch))
  <1> DEFINE n == Len(batch)  z == [db |-> d, thin |-> t, thinned |-> 0]
             OK(m, w) == /\ w \in Writing /\ CountSofar(d, m, w)
                         /\ Ready(d, batch, base) => LogSofar(d, batch, m, w)
                         /\ QuotesSofar(R, a, b, batch, 0, z) => QuotesSofar(R, a, b, batch, m, w)
  <1>1. n \in Nat /\ DOMAIN batch = 1..n /\ \A i \in 1..n : batch[i] \in Event
    BY InRows
  <1>2. z \in Writing /\ z.db = d /\ z.thinned = 0
    BY DEF Writing
  <1>3. OK(0, z)
    <2>1. CountSofar(d, 0, z)
      <3>1. d.counted \in Nat
        BY DEF DbType
      <3> QED BY <3>1, <1>2 DEF CountSofar
    <2>2. Ready(d, batch, base) => LogSofar(d, batch, 0, z)
      BY <1>2 DEF LogSofar, Ready, SameSession
    <2> QED BY <2>1, <2>2, <1>2
  <1> HIDE DEF n, z
  <1>4. PICK g : /\ g[0] = z /\ \A k \in 1..n : g[k] = Wrote(g[k - 1], batch[k])
                 /\ WriteBatch(d, t, batch) = g[n]
    BY BatchIs DEF n, z
  <1> DEFINE S == {m \in Nat : m <= n => OK(m, g[m])}
  <1>5. 0 \in S
    BY <1>3, <1>4
  <1>6. ASSUME NEW m \in Nat, m \in S PROVE m + 1 \in S
    <2>1. SUFFICES ASSUME m + 1 <= n PROVE OK(m + 1, g[m + 1])
      OBVIOUS
    <2>2. OK(m, g[m])
      BY <1>1, <1>6, <2>1
    <2>3. m + 1 \in 1..n /\ (m + 1) - 1 = m /\ m + 1 <= Len(batch)
      BY <1>1, <2>1 DEF n
    <2>4. g[m + 1] = Wrote(g[m], batch[m + 1])
      <3>1. g[m + 1] = Wrote(g[(m + 1) - 1], batch[m + 1])
        BY <1>4, <2>3
      <3> QED BY <3>1, <2>3
    <2> DEFINE w == g[m]  v == g[m + 1]
    <2>5. w \in Writing /\ batch[m + 1] \in Event /\ v = Wrote(w, batch[m + 1])
      BY <1>1, <2>2, <2>3, <2>4
    <2>6. /\ CountSofar(d, m, w)
          /\ Ready(d, batch, base) => LogSofar(d, batch, m, w)
          /\ QuotesSofar(R, a, b, batch, 0, z) => QuotesSofar(R, a, b, batch, m, w)
      BY <2>2
    <2> HIDE DEF w, v
    <2>7. v \in Writing
      BY <2>5, WroteIs
    <2>8. CountSofar(d, m + 1, v)
      BY <2>5, <2>6, CountStep
    <2>9. ASSUME Ready(d, batch, base) PROVE LogSofar(d, batch, m + 1, v)
      <3>1. LogSofar(d, batch, m, w)
        BY <2>6, <2>9
      <3> QED BY <3>1, <2>3, <2>5, <2>9, LogStep
    <2>10. ASSUME QuotesSofar(R, a, b, batch, 0, z) PROVE QuotesSofar(R, a, b, batch, m + 1, v)
      <3>1. QuotesSofar(R, a, b, batch, m, w)
        BY <2>6, <2>10
      <3> QED BY <3>1, <2>3, <2>5, QuotesStep
    <2> QED BY <2>7, <2>8, <2>9, <2>10 DEF v
  <1> HIDE DEF S, OK
  <1>7. n \in S
    BY <1>1, <1>5, <1>6, SetInduction
  <1>8. OK(n, g[n])
    BY <1>7, <1>1 DEF S
  <1> QED BY <1>4, <1>8 DEF OK, n, z

LEMMA BatchTyped ==
    ASSUME NEW d \in DbType, NEW t \in ThinType, NEW batch \in Rows
    PROVE  WriteBatch(d, t, batch) \in Writing
  <1> DEFINE n == Len(batch)
  <1>1. n \in Nat /\ \A i \in 1..n : batch[i] \in Event
    BY InRows
  <1> HIDE DEF n
  <1>2. PICK g : /\ g[0] = [db |-> d, thin |-> t, thinned |-> 0]
                 /\ \A k \in 1..n : g[k] = Wrote(g[k - 1], batch[k])
                 /\ WriteBatch(d, t, batch) = g[n]
    BY BatchIs DEF n
  <1> DEFINE S == {m \in Nat : m <= n => g[m] \in Writing}
  <1>3. 0 \in S
    BY <1>2 DEF Writing
  <1>4. ASSUME NEW m \in Nat, m \in S PROVE m + 1 \in S
    <2>1. SUFFICES ASSUME m + 1 <= n PROVE g[m + 1] \in Writing
      OBVIOUS
    <2>2. g[m] \in Writing /\ m + 1 \in 1..n /\ (m + 1) - 1 = m
      BY <1>1, <1>4, <2>1
    <2>3. g[m + 1] = Wrote(g[(m + 1) - 1], batch[m + 1])
      BY <1>2, <2>2
    <2>4. g[m + 1] = Wrote(g[m], batch[m + 1]) /\ batch[m + 1] \in Event
      BY <1>1, <2>2, <2>3
    <2> QED BY <2>2, <2>4, WroteIs
  <1> HIDE DEF S
  <1>5. n \in S
    BY <1>1, <1>3, <1>4, SetInduction
  <1> QED BY <1>1, <1>2, <1>5 DEF S

----------------------------------------------------------------------------
(* What the steps do to a session, by its records *)

Typed(b, r, t, d, p, a) ==
    /\ b \in BusType /\ r \in RecType /\ t \in ThinType /\ d \in DbType /\ p \in PastType /\ a \in Nat

\* Where an event may go.
LEMMA Balances ==
    ASSUME NEW e \in Nat, NEW x \in Nat, NEW q \in Nat, NEW n \in Nat, NEW c \in Nat, NEW h \in Nat,
           NEW f \in Nat, Balanced(e, x, q, n, c, h, f)
    PROVE  /\ Balanced(e + 1, x + 1, q, n, c, h, f) /\ Balanced(e + 1, x, q + 1, n, c, h, f)
           /\ q > 0 => Balanced(e, x, q - 1, n + 1, c, h, f)
           /\ Balanced(e, x, q, 0, c, h, f + n)
  BY DEF Balanced

LEMMA BalanceWritten ==
    ASSUME NEW e \in Nat, NEW x \in Nat, NEW q \in Nat, NEW n \in Nat, NEW c \in Nat, NEW h \in Nat,
           NEW f \in Nat, NEW c2 \in Nat, NEW h2 \in Nat, c2 + h2 = c + n, Balanced(e, x, q, n, c, h, f)
    PROVE  Balanced(e, x, q, 0, c2, h + h2, f)
  BY DEF Balanced

LEMMA BalanceClosed ==
    ASSUME NEW e \in Nat, NEW x \in Nat, NEW c \in Nat, NEW h \in Nat, NEW f \in Nat,
           Balanced(e, x, 0, 0, c, h, f)
    PROVE  x + c + h + f = e
  BY DEF Balanced

\* An event is emitted: into the queue or dropped.
LEMMA EmitSound ==
    ASSUME NEW b, NEW r, NEW t, NEW d, NEW p, NEW a, Typed(b, r, t, d, p, a), Sound(b, r, t, d, p, a),
           NEW kind \in Kinds, NEW b2 \in BusType,
           r.pc \notin {"off", "crashed"}, ~b.closed,
           b.skipped => kind \notin {"raw", "quoted", "skipped", "notable"},
           b2.emitted = b.emitted + 1, b2.closed = b.closed,
           b2.skipped <=> b.skipped \/ kind = "skipped",
           \/ b2.queue = Append(b.queue, kind) /\ b2.dropped = b.dropped
           \/ b2.queue = b.queue /\ b2.dropped = b.dropped + 1
    PROVE  Sound(b2, r, t, d, p, a)
  <1> USE DEF Sound
  <1>1. r.pc \in {"run", "drain"} /\ d.row # "ended"
    BY DEF Fits, Typed, RecType
  <1>2. /\ Len(b.queue) \in Nat /\ DOMAIN b.queue = 1..Len(b.queue) /\ b.emitted \in Nat /\ b.dropped \in Nat
        /\ r.buf \in Rows /\ Len(r.buf) \in Nat /\ d.counted \in Nat /\ p.thinned \in Nat /\ p.failed \in Nat
        /\ b.queue \in Seq(Kinds)
    BY InRows DEF Typed, BusType, RecType, DbType, PastType
  <1>3. Fits(b2, r, d, p)
    BY <1>1 DEF Fits
  <1>4. CASE b2.queue = b.queue /\ b2.dropped = b.dropped + 1
    <2>1. SkippedLast(b2, r)
      BY <1>4 DEF SkippedLast
    <2>2. Quoted(b2, r, t, d, p, a)
      BY <1>4 DEF Quoted, NoVerdict
    <2>3. Counted(b2, r, d, p)
      <3>1. b2.queue = b.queue /\ b2.dropped = b.dropped + 1 /\ b2.emitted = b.emitted + 1
        BY <1>4
      <3>2. /\ Len(b.queue) \in Nat /\ b.emitted \in Nat /\ b.dropped \in Nat
            /\ Len(r.buf) \in Nat /\ d.counted \in Nat /\ p.thinned \in Nat /\ p.failed \in Nat
        BY <1>2
      <3>3. ASSUME r.pc \in {"off", "run", "join"}
            PROVE  Balanced(b2.emitted, b2.dropped, Len(b2.queue), Len(r.buf), d.counted, p.thinned, p.failed)
        <4>1. Balanced(b.emitted, b.dropped, Len(b.queue), Len(r.buf), d.counted, p.thinned, p.failed)
          BY <3>3 DEF Counted
        <4>2. Balanced(b.emitted + 1, b.dropped + 1, Len(b.queue), Len(r.buf), d.counted, p.thinned, p.failed)
          BY ONLY <3>2, <4>1, Balances
        <4> QED BY <3>1, <4>2, Zenon
      <3>4. r.pc \in {"off", "run", "join"} => d.dropped = 0
        BY DEF Counted
      <3> QED BY <3>3, <3>4, <1>1, Zenon DEF Counted
    <2> QED BY <1>3, <2>1, <2>2, <2>3
  <1>5. CASE b2.queue = Append(b.queue, kind) /\ b2.dropped = b.dropped
    <2> DEFINE n == Len(b.queue)
    <2>1. /\ Len(b2.queue) = n + 1 /\ DOMAIN b2.queue = 1..(n + 1) /\ b2.queue[n + 1] = kind
          /\ \A i \in 1..n : b2.queue[i] = b.queue[i]
      BY <1>2, <1>5
    <2> HIDE DEF n
    <2>n. n \in Nat /\ DOMAIN b.queue = 1..n
      BY <1>2 DEF n
    <2>2. /\ \A i \in 1..(n + 1) : i \in 1..n \/ i = n + 1
          /\ \A i \in 1..(n + 1), j \in 1..n : i < j => i \in 1..n
          /\ n \in Nat
      BY <2>n
    <2>3. \A i \in DOMAIN b2.queue : \/ i \in DOMAIN b.queue /\ b2.queue[i] = b.queue[i]
                                     \/ i = n + 1 /\ b2.queue[i] = kind
      BY <2>n, <2>1, <2>2
    <2>4. SkippedLast(b2, r)
      <3>1. kind = "notable" => /\ \A i \in DOMAIN b.queue : b.queue[i] # "skipped"
                                /\ \A i \in DOMAIN r.buf : r.buf[i].kind # "skipped"
        BY DEF SkippedLast
      <3>2. ASSUME NEW i \in DOMAIN b2.queue, NEW j \in DOMAIN b2.queue, i < j, b2.queue[i] = "skipped"
            PROVE  b2.queue[j] # "notable"
        <4>1. CASE j \in DOMAIN b.queue /\ b2.queue[j] = b.queue[j]
          <5>1. i \in DOMAIN b.queue /\ b2.queue[i] = b.queue[i]
            BY <4>1, <3>2, <1>2, <2>1, <2>2 DEF n
          <5> QED BY <4>1, <5>1, <3>2 DEF SkippedLast
        <4>2. CASE j = n + 1 /\ b2.queue[j] = kind
          <5>1. i \in 1..n /\ b2.queue[i] = b.queue[i]
            BY <4>2, <3>2, <2>1, <2>2
          <5> QED BY <4>2, <5>1, <3>1, <3>2, <1>2 DEF n
        <4> QED BY <4>1, <4>2, <2>3
      <3>3. \A i \in DOMAIN r.buf, j \in DOMAIN b2.queue : r.buf[i].kind = "skipped" => b2.queue[j] # "notable"
        BY <2>3, <3>1 DEF SkippedLast
      <3>4. /\ \A i \in DOMAIN b2.queue : b2.queue[i] = "skipped" => b2.skipped
            /\ \A i \in DOMAIN r.buf : r.buf[i].kind = "skipped" => b2.skipped
        BY <2>3 DEF SkippedLast
      <3> QED BY <3>2, <3>3, <3>4 DEF SkippedLast
    <2>5. Quoted(b2, r, t, d, p, a)
      <3>1. NoVerdict(b, r) => NoVerdict(b2, r)
        BY <2>3 DEF NoVerdict
      <3> QED BY <3>1 DEF Quoted
    <2>6. Counted(b2, r, d, p)
      <3>1. Len(b2.queue) = n + 1 /\ Len(b.queue) = n /\ b2.dropped = b.dropped /\ b2.emitted = b.emitted + 1
        BY <1>5, <2>1 DEF n
      <3>2. /\ Len(b.queue) \in Nat /\ b.emitted \in Nat /\ b.dropped \in Nat
            /\ Len(r.buf) \in Nat /\ d.counted \in Nat /\ p.thinned \in Nat /\ p.failed \in Nat
        BY <1>2
      <3>3. ASSUME r.pc \in {"off", "run", "join"}
            PROVE  Balanced(b2.emitted, b2.dropped, Len(b2.queue), Len(r.buf), d.counted, p.thinned, p.failed)
        <4>1. Balanced(b.emitted, b.dropped, Len(b.queue), Len(r.buf), d.counted, p.thinned, p.failed)
          BY <3>3 DEF Counted
        <4>2. Balanced(b.emitted + 1, b.dropped, Len(b.queue) + 1, Len(r.buf), d.counted, p.thinned, p.failed)
          BY ONLY <3>2, <4>1, Balances
        <4> QED BY <3>1, <4>2, Zenon
      <3>4. r.pc \in {"off", "run", "join"} => d.dropped = 0
        BY DEF Counted
      <3> QED BY <3>3, <3>4, <1>1, Zenon DEF Counted
    <2> QED BY <1>3, <2>4, <2>5, <2>6
  <1> QED BY <1>4, <1>5

LEMMA TailIs ==
    ASSUME NEW q \in Seq(Kinds), q # <<>>
    PROVE  /\ Len(q) \in Nat /\ Len(q) > 0 /\ DOMAIN q = 1..Len(q)
           /\ Head(q) \in Kinds /\ 1 \in DOMAIN q /\ Head(q) = q[1]
           /\ Tail(q) \in Seq(Kinds) /\ Len(Tail(q)) = Len(q) - 1
           /\ \A i \in DOMAIN Tail(q) : i \in Nat /\ i + 1 \in DOMAIN q /\ 1 < i + 1 /\ Tail(q)[i] = q[i + 1]
  <1>1. Len(q) \in Nat /\ Len(q) > 0 /\ DOMAIN q = 1..Len(q)
    OBVIOUS
  <1>2. Head(q) \in Kinds /\ 1 \in DOMAIN q /\ Head(q) = q[1]
    BY <1>1
  <1>3. Tail(q) \in Seq(Kinds) /\ Len(Tail(q)) = Len(q) - 1 /\ DOMAIN Tail(q) = 1..(Len(q) - 1)
    BY <1>1
  <1>4. \A i \in 1..(Len(q) - 1) : Tail(q)[i] = q[i + 1]
    BY <1>1
  <1>5. \A i \in 1..(Len(q) - 1) : i \in Nat /\ i + 1 \in 1..Len(q) /\ 1 < i + 1
    BY <1>1
  <1> QED BY <1>1, <1>2, <1>3, <1>4, <1>5

LEMMA AddedIs ==
    ASSUME NEW q \in Rows, NEW e \in Event
    PROVE  /\ Append(q, e) \in Rows /\ Len(Append(q, e)) = Len(q) + 1 /\ Len(q) \in Nat
           /\ DOMAIN Append(q, e) = 1..(Len(q) + 1) /\ DOMAIN q = 1..Len(q)
           /\ Append(q, e)[Len(q) + 1] = e
           /\ \A i \in DOMAIN q : i \in DOMAIN Append(q, e) /\ Append(q, e)[i] = q[i] /\ i < Len(q) + 1
           /\ \A i \in DOMAIN Append(q, e) : i \in DOMAIN q \/ i = Len(q) + 1
  <1>1. Len(q) \in Nat /\ DOMAIN q = 1..Len(q)
    BY InRows
  <1>2. Append(q, e) \in Rows /\ Len(Append(q, e)) = Len(q) + 1
    BY DEF Rows
  <1>3. DOMAIN Append(q, e) = 1..(Len(q) + 1)
    BY <1>2, InRows
  <1>4. Append(q, e)[Len(q) + 1] = e /\ \A i \in 1..Len(q) : Append(q, e)[i] = q[i]
    BY DEF Rows
  <1>5. /\ \A i \in 1..Len(q) : i \in 1..(Len(q) + 1) /\ i < Len(q) + 1
        /\ \A i \in 1..(Len(q) + 1) : i \in 1..Len(q) \/ i = Len(q) + 1
    BY <1>1
  <1> QED BY <1>1, <1>2, <1>3, <1>4, <1>5

\* The next event is taken off the queue and numbered.
LEMMA ReceiveSound ==
    ASSUME NEW b, NEW r, NEW t, NEW d, NEW p, NEW a, Typed(b, r, t, d, p, a), Sound(b, r, t, d, p, a),
           r.pc = "run", b.queue # <<>>, NEW b2 \in BusType, NEW r2 \in RecType,
           b2.queue = Tail(b.queue), b2.emitted = b.emitted, b2.dropped = b.dropped,
           b2.closed = b.closed, b2.skipped = b.skipped,
           r2.pc = r.pc, r2.seq = r.seq + 1,
           r2.buf = Append(r.buf, [seq |-> r.seq + 1, kind |-> Head(b.queue)])
    PROVE  Sound(b2, r2, t, d, p, a)
  <1> DEFINE e == [seq |-> r.seq + 1, kind |-> Head(b.queue)]  m == Len(r.buf)
  <1>1. b.queue \in Seq(Kinds) /\ r.buf \in Rows /\ r.seq \in Nat
    BY DEF Typed, BusType, RecType
  <1>2. /\ Len(b.queue) \in Nat /\ Len(b.queue) > 0 /\ Head(b.queue) \in Kinds
        /\ 1 \in DOMAIN b.queue /\ Head(b.queue) = b.queue[1]
        /\ Len(b2.queue) = Len(b.queue) - 1
        /\ \A i \in DOMAIN b2.queue : i + 1 \in DOMAIN b.queue /\ 1 < i + 1 /\ b2.queue[i] = b.queue[i + 1]
    BY <1>1, TailIs
  <1>t. \A i, j \in DOMAIN b2.queue : i < j => i + 1 < j + 1
    <2>1. \A i \in DOMAIN b2.queue : i \in Nat
      BY <1>1, TailIs
    <2> QED BY <2>1
  <1>3. e \in Event /\ e.seq = r.seq + 1 /\ e.kind = Head(b.queue)
    BY <1>1, <1>2 DEF Event
  <1> HIDE DEF e
  <1>4. /\ r2.buf \in Rows /\ Len(r2.buf) = m + 1 /\ m \in Nat /\ r2.buf[m + 1] = e
        /\ DOMAIN r2.buf = 1..(m + 1) /\ DOMAIN r.buf = 1..m
        /\ \A i \in DOMAIN r.buf : i \in DOMAIN r2.buf /\ r2.buf[i] = r.buf[i] /\ i < m + 1
        /\ \A i \in DOMAIN r2.buf : i \in DOMAIN r.buf \/ i = m + 1
    BY <1>1, <1>3, AddedIs DEF e
  <1> HIDE DEF m
  <1>5. Fits(b2, r2, d, p)
    BY DEF Fits, Sound
  <1>6. Numbered(r2, p, a)
    <2>1. /\ \A i \in DOMAIN r.buf : r.buf[i].seq = r.seq - m + i
          /\ \A x \in p.written : x.seq <= r.seq - m
          /\ a <= r.seq /\ a \in Nat
      BY DEF Numbered, Sound, m, Typed
    <2>2. r2.seq - Len(r2.buf) = r.seq - m /\ a <= r2.seq
      <3>1. r2.seq = r.seq + 1 /\ Len(r2.buf) = m + 1 /\ r.seq \in Nat /\ m \in Nat /\ a \in Nat /\ a <= r.seq
        BY <2>1, <1>1, <1>4
      <3> QED BY ONLY <3>1
    <2>3. ASSUME NEW i \in DOMAIN r2.buf PROVE r2.buf[i].seq = r.seq - m + i
      <3>1. CASE i = m + 1
        BY <3>1, <1>1, <1>3, <1>4
      <3>2. CASE i \in DOMAIN r.buf
        BY <3>2, <2>1, <1>4
      <3> QED BY <3>1, <3>2, <1>4
    <2> QED BY <2>1, <2>2, <2>3 DEF Numbered
  <1>7. SkippedLast(b2, r2)
    <2>s. /\ \A i, j \in DOMAIN b.queue : i < j /\ b.queue[i] = "skipped" => b.queue[j] # "notable"
          /\ \A i, j \in DOMAIN r.buf : i < j /\ r.buf[i].kind = "skipped" => r.buf[j].kind # "notable"
          /\ \A i \in DOMAIN r.buf, j \in DOMAIN b.queue : r.buf[i].kind = "skipped" => b.queue[j] # "notable"
          /\ \A i \in DOMAIN b.queue : b.queue[i] = "skipped" => b.skipped
          /\ \A i \in DOMAIN r.buf : r.buf[i].kind = "skipped" => b.skipped
      BY DEF SkippedLast, Sound
    <2>1. \A i, j \in DOMAIN b2.queue : i < j /\ b2.queue[i] = "skipped" => b2.queue[j] # "notable"
      BY <2>s, <1>2, <1>t
    <2>2. ASSUME NEW i \in DOMAIN r2.buf, NEW j \in DOMAIN r2.buf, i < j, r2.buf[i].kind = "skipped"
          PROVE  r2.buf[j].kind # "notable"
      <3>1. i \in DOMAIN r.buf /\ r2.buf[i] = r.buf[i]
        BY <2>2, <1>4
      <3>2. CASE j \in DOMAIN r.buf
        BY <2>2, <3>1, <3>2, <2>s, <1>4
      <3>3. CASE j = m + 1
        BY <2>2, <3>1, <3>3, <2>s, <1>2, <1>3, <1>4
      <3> QED BY <3>2, <3>3, <1>4
    <2>3. ASSUME NEW i \in DOMAIN r2.buf, NEW j \in DOMAIN b2.queue, r2.buf[i].kind = "skipped"
          PROVE  b2.queue[j] # "notable"
      <3>1. CASE i \in DOMAIN r.buf
        BY <2>3, <3>1, <2>s, <1>2, <1>4
      <3>2. CASE i = m + 1
        BY <2>3, <3>2, <2>s, <1>2, <1>3, <1>4
      <3> QED BY <3>1, <3>2, <1>4
    <2>4. \A i \in DOMAIN b2.queue : b2.queue[i] = "skipped" => b2.skipped
      BY <2>s, <1>2
    <2>5. \A i \in DOMAIN r2.buf : r2.buf[i].kind = "skipped" => b2.skipped
      BY <2>s, <1>2, <1>3, <1>4
    <2> QED BY <2>1, <2>2, <2>3, <2>4, <2>5 DEF SkippedLast
  <1>8. Quoted(b2, r2, t, d, p, a)
    <2>1. NoVerdict(b, r) => NoVerdict(b2, r2)
      <3>1. SUFFICES ASSUME NoVerdict(b, r) PROVE NoVerdict(b2, r2)
        OBVIOUS
      <3>2. \A j \in DOMAIN r2.buf : r2.buf[j].kind # "notable"
        BY <3>1, <1>2, <1>3, <1>4 DEF NoVerdict
      <3>3. \A j \in DOMAIN b2.queue : b2.queue[j] # "notable"
        BY <3>1, <1>2 DEF NoVerdict
      <3> QED BY <3>1, <3>2, <3>3 DEF NoVerdict
    <2> QED BY <2>1 DEF Quoted, Sound
  <1>9. Counted(b2, r2, d, p)
    <2>1. Balanced(b.emitted, b.dropped, Len(b.queue), m, d.counted, p.thinned, p.failed) /\ d.dropped = 0
      BY DEF Counted, Sound, m
    <2>2. /\ Len(b.queue) \in Nat /\ m \in Nat /\ b.emitted \in Nat /\ b.dropped \in Nat
          /\ d.counted \in Nat /\ p.thinned \in Nat /\ p.failed \in Nat /\ Len(b.queue) > 0
      BY <1>2, <1>4 DEF Typed, BusType, DbType, PastType
    <2>3. Balanced(b.emitted, b.dropped, Len(b.queue) - 1, m + 1, d.counted, p.thinned, p.failed)
      BY ONLY <2>1, <2>2, Balances
    <2>4. Balanced(b2.emitted, b2.dropped, Len(b2.queue), Len(r2.buf), d.counted, p.thinned, p.failed)
      BY <2>3, <1>2, <1>4, Zenon
    <2>5. d.row # "ended"
      BY DEF Fits, Sound
    <2> QED BY <2>1, <2>4, <2>5, Zenon DEF Counted
  <1> QED BY <1>5, <1>6, <1>7, <1>8, <1>9, Zenon DEF Sound, Faithful

\* Without a database the next event is thrown away.
LEMMA DrainSound ==
    ASSUME NEW b, NEW r, NEW t, NEW d, NEW p, NEW a, Typed(b, r, t, d, p, a), Sound(b, r, t, d, p, a),
           r.pc = "drain", b.queue # <<>>, NEW b2 \in BusType,
           b2.queue = Tail(b.queue), b2.closed = b.closed, b2.skipped = b.skipped
    PROVE  Sound(b2, r, t, d, p, a)
  <1>1. b.queue \in Seq(Kinds)
    BY DEF Typed, BusType
  <1>2. /\ \A i \in DOMAIN b2.queue : i \in Nat /\ i + 1 \in DOMAIN b.queue /\ b2.queue[i] = b.queue[i + 1]
    BY <1>1, TailIs
  <1>3. \A i, j \in DOMAIN b2.queue : i < j => i + 1 < j + 1
    BY <1>2
  <1>4. d.row # "ended"
    BY DEF Fits, Sound
  <1>5. SkippedLast(b2, r)
    BY <1>2, <1>3 DEF SkippedLast, Sound
  <1>6. Fits(b2, r, d, p) /\ Quoted(b2, r, t, d, p, a) /\ Counted(b2, r, d, p)
    BY <1>4 DEF Fits, Quoted, Counted, Sound
  <1> QED BY <1>5, <1>6 DEF Sound

\* Whatever goes into blocks, the log holds the same in the same order.
LEMMA CompactIs ==
    ASSUME NEW d \in DbType, NEW take \in 0..Len(d.events)
    PROVE  /\ Compact(d, take) \in DbType
           /\ InOrder(d) => InOrder(Compact(d, take)) /\ \A x : Holds(Compact(d, take), x) <=> Holds(d, x)
           /\ \A f \in {"row", "activity", "counted", "quotes", "traded", "total", "dropped"} :
                 Compact(d, take)[f] = d[f]
  <1> DEFINE c == Compact(d, take)  q == SubSeq(d.events, 1, take)  tail == SubSeq(d.events, take + 1, Len(d.events))
             bl == d.blocks \o Chunks(q)
  <1>1. d.events \in Rows /\ Len(d.events) \in Nat /\ d.blocks \in Seq(Rows) /\ take \in Nat /\ take <= Len(d.events)
    BY LogIs
  <1>2. q \in Rows /\ tail \in Rows
    <2>1. q \in Rows
      BY <1>1, Prefix
    <2>2. tail \in Rows
      BY <1>1, Part
    <2> QED BY <2>1, <2>2
  <1>3. bl \in Seq(Rows)
    <2>1. Chunks(q) \in Seq(Rows)
      BY <1>2, ChunksAre
    <2> QED BY <2>1, <1>1
  <1>4. c = [d EXCEPT !.blocks = bl, !.events = tail]
    BY DEF Compact
  <1> HIDE DEF bl, tail
  <1>5. /\ c \in DbType /\ c.blocks = bl /\ c.events = tail
        /\ \A f \in {"row", "activity", "counted", "quotes", "traded", "total", "dropped"} : c[f] = d[f]
    BY <1>2, <1>3, <1>4 DEF DbType
  <1> HIDE DEF c
  <1>6. InOrder(d) => InOrder(c) /\ \A x : Holds(c, x) <=> Holds(d, x)
    BY <1>5, Compacted DEF bl, tail
  <1> QED BY <1>5, <1>6 DEF c

LEMMA TakesFit ==
    ASSUME NEW d \in DbType, NEW take \in Takes(d)
    PROVE  take \in 0..Len(d.events)
  <1> DEFINE n == Len(d.events)
  <1>1. n \in Nat
    BY LogIs
  <1>2. take \in {0, (n \div Block) * Block, n}
    BY DEF Takes
  <1> HIDE DEF n
  <1>3. Block \in Nat \ {0}
    BY RecorderAssumption
  <1>4. n \div Block \in Nat /\ (n \div Block) * Block <= n
    BY <1>1, <1>3, Quotient
  <1>5. (n \div Block) * Block \in Nat
    BY <1>3, <1>4, Products
  <1>6. take \in 0..n
    BY <1>1, <1>2, <1>4, <1>5
  <1> QED BY <1>6 DEF n

\* A batch that fails is rolled back, and counted.
LEMMA FailedSound ==
    ASSUME NEW b, NEW r, NEW t, NEW d, NEW p, NEW a, Typed(b, r, t, d, p, a), Sound(b, r, t, d, p, a),
           r.pc = "run", r.buf # <<>>, NEW take \in Takes(d),
           NEW r2 \in RecType, NEW t2, NEW d2, NEW p2 \in PastType,
           r2.pc = r.pc, r2.seq = r.seq, r2.buf = <<>>, d2 = Compact(d, take),
           p2.failed = p.failed + Len(r.buf), p2.written = p.written, p2.thinned = p.thinned,
           p2.expired = p.expired, p2.deleted = p.deleted
    PROVE  d2 \in DbType /\ Sound(b, r2, t2, d2, p2, a)
  <1>0. /\ d \in DbType /\ r.buf \in Rows /\ r.seq \in Nat /\ p.failed \in Nat /\ b.queue \in Seq(Kinds)
        /\ p \in PastType /\ a \in Nat
    BY DEF Typed, RecType, PastType, BusType
  <1>1. take \in 0..Len(d.events)
    BY <1>0, TakesFit
  <1>2. /\ d2 \in DbType
        /\ InOrder(d) => InOrder(d2) /\ \A x : Holds(d2, x) <=> Holds(d, x)
        /\ d2.row = d.row /\ d2.activity = d.activity /\ d2.counted = d.counted /\ d2.dropped = d.dropped
    BY <1>0, <1>1, CompactIs
  <1>3. Len(r.buf) \in Nat /\ Len(r.buf) > 0 /\ Len(r2.buf) = 0 /\ DOMAIN r2.buf = {}
    BY <1>0 DEF Rows
  <1>4. Fits(b, r2, d2, p2)
    BY <1>2 DEF Fits, Sound
  <1>5. Numbered(r2, p2, a)
    <2>1. a <= r.seq /\ \A e \in p.written : e.seq <= r.seq - Len(r.buf)
      BY DEF Numbered, Sound
    <2>2. \A e \in p.written : e.seq \in Nat
      BY <1>0 DEF PastType, Event
    <2>3. r2.seq - Len(r2.buf) = r.seq
      BY <1>0, <1>3
    <2>4. \A e \in p2.written : e.seq <= r.seq
      BY <2>1, <2>2, <1>0, <1>3
    <2> QED BY <2>1, <2>3, <2>4, <1>3 DEF Numbered
  <1>6. Faithful(d2, p2, a)
    BY <1>2 DEF Faithful, Sound
  <1>7. SkippedLast(b, r2)
    BY <1>3 DEF SkippedLast, Sound
  <1>8. Quoted(b, r2, t2, d2, p2, a)
    BY <1>0, <1>3 DEF Quoted
  <1>9. Counted(b, r2, d2, p2)
    <2>1. Balanced(b.emitted, b.dropped, Len(b.queue), Len(r.buf), d.counted, p.thinned, p.failed) /\ d.dropped = 0
      BY DEF Counted, Sound
    <2>2. /\ Len(b.queue) \in Nat /\ Len(r.buf) \in Nat /\ b.emitted \in Nat /\ b.dropped \in Nat
          /\ d.counted \in Nat /\ p.thinned \in Nat /\ p.failed \in Nat
      BY <1>0, <1>3 DEF Typed, BusType, DbType, PastType
    <2>3. Balanced(b.emitted, b.dropped, Len(b.queue), 0, d.counted, p.thinned, p.failed + Len(r.buf))
      BY ONLY <2>1, <2>2, Balances
    <2>4. Balanced(b.emitted, b.dropped, Len(b.queue), Len(r2.buf), d2.counted, p2.thinned, p2.failed)
      BY <2>3, <1>2, <1>3, Zenon
    <2>5. d2.row # "ended" /\ d2.dropped = 0
      BY <2>1, <1>2 DEF Fits, Sound
    <2> QED BY <2>4, <2>5, Zenon DEF Counted
  <1> QED BY <1>2, <1>4, <1>5, <1>6, <1>7, <1>8, <1>9, Zenon DEF Sound

\* A batch is written, and the log compacted.
WrittenAs(r, t, d, p, w, take, expired, r2, t2, d2, p2) ==
    /\ r.pc = "run" /\ r.buf # <<>> /\ d.row = "open" /\ w = WriteBatch(d, t, r.buf)
    /\ take \in Takes(w.db) /\ expired \in {{}, w.thin.quotes} /\ d2 = Compact(w.db, take)
    /\ r2 \in RecType /\ r2.pc = r.pc /\ r2.seq = r.seq /\ r2.buf = <<>>
    /\ t2.quotes = w.thin.quotes \ expired /\ t2.notable = w.thin.notable
    /\ p2 \in PastType /\ p2.written = p.written \cup (ToSet(w.db.events) \ ToSet(d.events))
    /\ p2.thinned = p.thinned + w.thinned /\ p2.expired = p.expired \cup expired
    /\ p2.failed = p.failed /\ p2.deleted = p.deleted

LEMMA WrittenSound ==
    ASSUME NEW b, NEW r, NEW t, NEW d, NEW p, NEW a, Typed(b, r, t, d, p, a), Sound(b, r, t, d, p, a),
           NEW w, NEW take, NEW expired, NEW r2, NEW t2, NEW d2, NEW p2,
           WrittenAs(r, t, d, p, w, take, expired, r2, t2, d2, p2)
    PROVE  d2 \in DbType /\ Sound(b, r2, t2, d2, p2, a)
  <1>w. /\ r.pc = "run" /\ r.buf # <<>> /\ d.row = "open" /\ w = WriteBatch(d, t, r.buf)
        /\ take \in Takes(w.db) /\ expired \in {{}, w.thin.quotes} /\ d2 = Compact(w.db, take)
        /\ r2 \in RecType /\ r2.pc = r.pc /\ r2.seq = r.seq /\ r2.buf = <<>>
        /\ t2.quotes = w.thin.quotes \ expired /\ t2.notable = w.thin.notable
        /\ p2 \in PastType /\ p2.written = p.written \cup (ToSet(w.db.events) \ ToSet(d.events))
        /\ p2.thinned = p.thinned + w.thinned /\ p2.expired = p.expired \cup expired
        /\ p2.failed = p.failed /\ p2.deleted = p.deleted
    BY DEF WrittenAs
  <1> USE <1>w
  <1> DEFINE batch == r.buf  n == Len(r.buf)  base == r.seq - n
  <1>0. /\ d \in DbType /\ t \in ThinType /\ batch \in Rows /\ r.seq \in Nat /\ p.failed \in Nat
        /\ b.queue \in Seq(Kinds) /\ p \in PastType /\ a \in Nat /\ p.written \in SUBSET Event
    BY DEF Typed, RecType, PastType, BusType
  <1>1. n \in Nat /\ n > 0 /\ DOMAIN batch = 1..n /\ base \in Int /\ base + n = r.seq
        /\ Len(r2.buf) = 0 /\ DOMAIN r2.buf = {}
    <2>1. n \in Nat /\ n > 0 /\ DOMAIN batch = 1..n /\ Len(r2.buf) = 0 /\ DOMAIN r2.buf = {}
      BY <1>0 DEF Rows
    <2> QED BY <2>1, <1>0
  <1>2. ~p.deleted /\ SkippedLast(b, r) /\ InOrder(d)
    BY DEF Sound, Fits, Faithful
  <1>3. Ready(d, batch, base)
    <2>1. \A x \in Event : Holds(d, x) => x.seq <= base
      BY <1>2 DEF Sound, Faithful, Numbered
    <2>2. \A i \in DOMAIN batch : batch[i].seq = base + i
      BY DEF Sound, Numbered
    <2> QED BY <2>1, <2>2, <1>2 DEF Ready
  <1>s. /\ w \in Writing /\ CountSofar(d, n, w) /\ LogSofar(d, batch, n, w)
        /\ QuotesSofar(Raws(p), a, b, batch, 0, [db |-> d, thin |-> t, thinned |-> 0])
           => QuotesSofar(Raws(p), a, b, batch, n, w)
    <2>1. base \in Int
      BY <1>1
    <2> HIDE DEF base
    <2> QED BY <2>1, <1>0, <1>2, <1>3, BatchKeeps
  <1> HIDE DEF base, n
  <1>4. /\ w.db \in DbType /\ take \in 0..Len(w.db.events) /\ w.thinned \in Nat
    BY <1>s, TakesFit DEF Writing
  <1>5. /\ d2 \in DbType /\ InOrder(d2) /\ \A x : Holds(d2, x) <=> Holds(w.db, x)
        /\ d2.row = w.db.row /\ d2.activity = w.db.activity /\ d2.counted = w.db.counted
        /\ d2.dropped = w.db.dropped /\ d2.quotes = w.db.quotes
    BY <1>s, <1>4, CompactIs DEF LogSofar
  <1>6. d2.row = "open" /\ d2.activity = 0 /\ d2.dropped = d.dropped
    BY <1>s, <1>5 DEF LogSofar, SameSession, Sound, Fits
  <1>7. Fits(b, r2, d2, p2)
    BY <1>6, <1>2 DEF Fits
  \* What is new in the tail is of the batch.
  <1>8. /\ \A e \in p2.written : e \in p.written \/ (InTail(w.db, e) /\ \E i \in 1..n : e = batch[i])
        /\ \A e \in p2.written : e \in p.written \/ InTail(w.db, e)
        /\ \A e : InTail(w.db, e) => InTail(d, e) \/ e \in p2.written
        /\ \A e \in p.written : e \in p2.written
    <2>1. \A e : /\ e \in ToSet(w.db.events) <=> InTail(w.db, e)
                 /\ e \in ToSet(d.events) <=> InTail(d, e)
      BY DEF ToSet, InTail
    <2>2. \A e : InTail(w.db, e) => InTail(d, e) \/ \E i \in 1..n : e = batch[i]
      BY <1>s DEF LogSofar
    <2> QED BY <2>1, <2>2
  <1>9. Numbered(r2, p2, a)
    <2>1. a <= r.seq /\ \A e \in p.written : e.seq <= base
      BY DEF Numbered, Sound, base, n
    <2>2. \A e \in p.written : e.seq \in Nat
      BY <1>0 DEF Event
    <2>3. r2.seq - Len(r2.buf) = r.seq
      BY <1>0, <1>1
    <2>4. \A i \in 1..n : batch[i].seq = base + i /\ base + i <= r.seq
      BY <1>1, <1>3 DEF Ready
    <2>5. \A e \in p.written : e.seq <= r.seq
      BY <2>1, <2>2, <1>0, <1>1
    <2>6. \A e \in p2.written : e.seq <= r.seq
      BY <2>4, <2>5, <1>8
    <2> QED BY <2>1, <2>3, <2>6, <1>1 DEF Numbered
  <1>10. Faithful(d2, p2, a)
    <2>1. /\ \A e \in Event : Holds(d, e) => e \in p.written
          /\ \A e \in p.written : e.seq > a => Holds(d, e)
      BY <1>2 DEF Sound, Faithful
    <2>2. w.db.blocks = d.blocks /\ \A e : InTail(d, e) => InTail(w.db, e)
      BY <1>s DEF LogSofar, SameSession
    <2>3. ASSUME NEW e \in Event, Holds(d2, e) PROVE e \in p2.written
      <3>1. InBlocks(w.db, e) \/ InTail(w.db, e)
        BY <2>3, <1>5 DEF Holds
      <3>2. InBlocks(w.db, e) => e \in p.written
        BY <2>1, <2>2 DEF Holds, InBlocks
      <3>3. InTail(w.db, e) => InTail(d, e) \/ e \in p2.written
        BY <1>8
      <3>4. InTail(d, e) => e \in p.written
        BY <2>1 DEF Holds
      <3> QED BY <3>1, <3>2, <3>3, <3>4, <1>8, Zenon
    <2>4. ASSUME NEW e \in p2.written, e.seq > a PROVE Holds(d2, e)
      <3>1. CASE e \in p.written
        <4>1. InBlocks(d, e) \/ InTail(d, e)
          BY <2>1, <2>4, <3>1 DEF Holds
        <4>2. InBlocks(d, e) => InBlocks(w.db, e)
          BY <2>2 DEF InBlocks
        <4>3. InTail(d, e) => InTail(w.db, e)
          BY <2>2
        <4>4. Holds(w.db, e)
          BY <4>1, <4>2, <4>3, Zenon DEF Holds
        <4> QED BY <4>4, <1>5
      <3>2. CASE InTail(w.db, e)
        BY <3>2, <1>5 DEF Holds
      <3> QED BY <3>1, <3>2, <1>8
    <2> QED BY <2>3, <2>4, <1>5 DEF Faithful
  <1>11. SkippedLast(b, r2)
    BY <1>1, <1>2 DEF SkippedLast
  <1>12. Quoted(b, r2, t2, d2, p2, a)
    <2>1. SUFFICES ASSUME p.failed = 0
                   PROVE  IF t2.notable THEN \A e \in Raws(p2) : e.seq > a => e.seq \in d2.quotes
                          ELSE (\A e \in Raws(p2) : e.seq \in t2.quotes) \/ NoVerdict(b, r2)
      BY DEF Quoted
    <2> DEFINE Q == Raws(p) \cup {batch[i] : i \in {i \in 1..n : batch[i].kind = "raw"}}
    <2>2. QuotesSofar(Raws(p), a, b, batch, 0, [db |-> d, thin |-> t, thinned |-> 0])
      <3>1. IF t.notable THEN \A e \in Raws(p) : e.seq > a => e.seq \in d.quotes
            ELSE (\A e \in Raws(p) : e.seq \in t.quotes) \/ NoVerdict(b, r)
        BY <2>1 DEF Sound, Quoted
      <3>2. Raws(p) \cup {batch[i] : i \in {i \in 1..0 : batch[i].kind = "raw"}} = Raws(p)
        OBVIOUS
      <3>3. NoVerdict(b, r) => /\ b.skipped /\ \A j \in DOMAIN b.queue : b.queue[j] # "notable"
                               /\ \A j \in DOMAIN batch : j > 0 => batch[j].kind # "notable"
        BY DEF NoVerdict
      <3> HIDE DEF batch
      <3> QED BY <3>1, <3>2, <3>3, Zenon DEF QuotesSofar
    <2>3. IF w.thin.notable THEN \A e \in Q : e.seq > a => e.seq \in w.db.quotes
          ELSE \/ \A e \in Q : e.seq \in w.thin.quotes
               \/ /\ b.skipped /\ \A j \in DOMAIN b.queue : b.queue[j] # "notable"
                  /\ \A j \in DOMAIN batch : j > n => batch[j].kind # "notable"
      BY <2>2, <1>s DEF QuotesSofar
    <2>4. \A e \in Raws(p2) : e \in Q /\ e.seq \notin expired
      <3>1. ASSUME NEW e \in Raws(p2) PROVE e \in Q /\ e.seq \notin expired
        <4>1. e \in p2.written /\ e.kind = "raw" /\ e.seq \notin p.expired /\ e.seq \notin expired
          BY DEF Raws
        <4>2. CASE e \in p.written
          BY <4>1, <4>2 DEF Raws
        <4>3. CASE \E i \in 1..n : e = batch[i]
          BY <4>1, <4>3
        <4> QED BY <4>1, <4>2, <4>3, <1>8
      <3> QED BY <3>1
    <2>5. /\ b.skipped /\ \A j \in DOMAIN b.queue : b.queue[j] # "notable"
          => NoVerdict(b, r2)
      BY <1>1 DEF NoVerdict
    <2> HIDE DEF Q
    <2>6. \A e \in Q : e.seq \in w.thin.quotes /\ e.seq \notin expired => e.seq \in t2.quotes
      OBVIOUS
    <2> QED BY <2>3, <2>4, <2>5, <2>6, <1>5, Zenon
  <1>13. Counted(b, r2, d2, p2)
    <2>1. Balanced(b.emitted, b.dropped, Len(b.queue), n, d.counted, p.thinned, p.failed) /\ d.dropped = 0
      BY DEF Counted, Sound, n
    <2>2. /\ Len(b.queue) \in Nat /\ n \in Nat /\ b.emitted \in Nat /\ b.dropped \in Nat
          /\ d.counted \in Nat /\ p.thinned \in Nat /\ p.failed \in Nat
      BY <1>0, <1>1 DEF Typed, BusType, DbType, PastType
    <2>3. w.db.counted + w.thinned = d.counted + n /\ w.db.counted \in Nat /\ w.thinned \in Nat
      BY <1>s, <1>4 DEF CountSofar, DbType
    <2>4. Balanced(b.emitted, b.dropped, Len(b.queue), 0, w.db.counted, p.thinned + w.thinned, p.failed)
      BY ONLY <2>1, <2>2, <2>3, BalanceWritten
    <2>5. Balanced(b.emitted, b.dropped, Len(b.queue), Len(r2.buf), d2.counted, p2.thinned, p2.failed)
      BY <2>4, <1>1, <1>5, Zenon
    <2>6. d2.row # "ended" /\ d2.dropped = 0
      BY <2>1, <1>6
    <2> QED BY <2>5, <2>6, Zenon DEF Counted
  <1> QED BY <1>5, <1>7, <1>9, <1>10, <1>11, <1>12, <1>13, Zenon DEF Sound

\* The recorder begins, with or without a row of its own.
LEMMA BeginSound ==
    ASSUME NEW b, NEW r, NEW t, NEW d, NEW p, NEW a, Typed(b, r, t, d, p, a), Sound(b, r, t, d, p, a),
           r.pc = "off", NEW d2, d2 = d \/ d2 = [d EXCEPT !.row = "open"],
           NEW r2, r2 = [r EXCEPT !.pc = "run"]
    PROVE  r2 \in RecType /\ d2 \in DbType /\ Sound(b, r2, Fresh, d2, p, a)
  <1>1. /\ r2 \in RecType /\ r2.pc = "run" /\ r2.seq = r.seq /\ r2.buf = r.buf
    BY DEF Typed, RecType
  <1>2. /\ d2 \in DbType /\ d2.row \in {"open", d.row} /\ d2.activity = d.activity /\ d2.events = d.events
        /\ d2.blocks = d.blocks /\ d2.quotes = d.quotes /\ d2.counted = d.counted /\ d2.dropped = d.dropped
    BY DEF Typed, DbType
  <1>3. d.row = "none" /\ d.activity = 0 /\ p.written = {} /\ ~p.deleted /\ r.buf = <<>>
    BY DEF Sound, Fits
  <1>4. Fits(b, r2, d2, p)
    BY <1>1, <1>2, <1>3 DEF Fits
  <1>5. Numbered(r2, p, a) /\ SkippedLast(b, r2)
    BY <1>1 DEF Numbered, SkippedLast, Sound
  <1>6. InOrder(d2) /\ \A e : Holds(d2, e) <=> Holds(d, e)
    BY <1>2, <1>3 DEF Sound, Faithful, InOrder, Holds, InBlocks, InTail
  <1>7. Faithful(d2, p, a)
    BY <1>6 DEF Faithful, Sound
  <1>8. Quoted(b, r2, Fresh, d2, p, a)
    BY <1>3 DEF Quoted, Fresh, Raws
  <1>9. Counted(b, r2, d2, p)
    BY <1>1, <1>2, <1>3 DEF Counted, Sound
  <1> QED BY <1>1, <1>2, <1>4, <1>5, <1>7, <1>8, <1>9 DEF Sound

\* It goes on to its end, or without a database, when nothing is left for it.
LEMMA MovedSound ==
    ASSUME NEW b, NEW r, NEW t, NEW d, NEW p, NEW a, Typed(b, r, t, d, p, a), Sound(b, r, t, d, p, a),
           NEW r2 \in RecType, r2.seq = r.seq, r2.buf = r.buf,
           \/ r.pc = "off" /\ r2.pc = "drain"
           \/ r.pc = "run" /\ r2.pc = "join" /\ b.closed /\ b.queue = <<>> /\ r.buf = <<>>
           \/ r.pc = "drain" /\ r2.pc = "done" /\ b.closed
    PROVE  Sound(b, r2, t, d, p, a)
  <1>1. Fits(b, r2, d, p)
    BY DEF Sound, Fits
  <1>2. Numbered(r2, p, a) /\ SkippedLast(b, r2)
    BY DEF Numbered, SkippedLast, Sound
  <1>3. Quoted(b, r2, t, d, p, a)
    BY DEF Quoted, Sound, NoVerdict
  <1>4. Counted(b, r2, d, p)
    BY DEF Counted, Sound, Fits
  <1> QED BY <1>1, <1>2, <1>3, <1>4 DEF Sound

\* The bus is dropped.
LEMMA StopSound ==
    ASSUME NEW b, NEW r, NEW t, NEW d, NEW p, NEW a, Typed(b, r, t, d, p, a), Sound(b, r, t, d, p, a),
           NEW b2, b2 = [b EXCEPT !.closed = TRUE]
    PROVE  b2 \in BusType /\ Sound(b2, r, t, d, p, a)
  <1>1. /\ b2 \in BusType /\ b2.queue = b.queue /\ b2.emitted = b.emitted /\ b2.dropped = b.dropped
        /\ b2.closed /\ (b2.skipped <=> b.skipped)
    BY DEF Typed, BusType
  <1>2. Fits(b2, r, d, p)
    BY <1>1 DEF Fits, Sound
  <1>3. SkippedLast(b2, r)
    BY <1>1 DEF SkippedLast, Sound
  <1>4. Quoted(b2, r, t, d, p, a)
    BY <1>1 DEF Quoted, Sound, NoVerdict
  <1>5. Counted(b2, r, d, p)
    BY <1>1, Zenon DEF Counted, Sound
  <1> QED BY <1>1, <1>2, <1>3, <1>4, <1>5 DEF Sound

\* A crash leaves the rows.
LEMMA CrashSound ==
    ASSUME NEW b, NEW r, NEW t, NEW d, NEW p, NEW a, Typed(b, r, t, d, p, a), Sound(b, r, t, d, p, a),
           r.pc \in {"run", "join"}, NEW r2, r2 = [r EXCEPT !.pc = "crashed", !.buf = <<>>],
           NEW p2, p2 = [p EXCEPT !.thinned = 0, !.failed = 0, !.expired = {}]
    PROVE  r2 \in RecType /\ p2 \in PastType /\ Sound(NewBus, r2, Fresh, d, p2, a)
  <1>1. r2 \in RecType /\ r2.pc = "crashed" /\ r2.seq = r.seq /\ r2.buf = <<>> /\ Len(r2.buf) = 0 /\ DOMAIN r2.buf = {}
    <2>1. <<>> \in Rows
      BY DEF Rows
    <2>2. r2 \in RecType /\ r2.pc = "crashed" /\ r2.seq = r.seq /\ r2.buf = <<>>
      BY <2>1 DEF Typed, RecType
    <2> QED BY <2>2
  <1>2. p2 \in PastType /\ p2.written = p.written /\ (p2.deleted <=> p.deleted)
    BY DEF Typed, PastType
  <1>3. Fits(NewBus, r2, d, p2)
    BY <1>1, <1>2 DEF Fits, Sound
  <1>4. Numbered(r2, p2, a)
    <2>1. r.buf \in Rows /\ r.seq \in Nat /\ p.written \in SUBSET Event
      BY DEF Typed, RecType, PastType
    <2>2. Len(r.buf) \in Nat
      BY <2>1, InRows
    <2>3. a <= r.seq /\ \A e \in p.written : e.seq <= r.seq - Len(r.buf)
      BY DEF Sound, Numbered
    <2>4. \A e \in p.written : e.seq \in Nat
      BY <2>1 DEF Event
    <2>5. \A e \in p2.written : e.seq <= r2.seq
      BY <2>1, <2>2, <2>3, <2>4, <1>1, <1>2
    <2>6. r2.seq - Len(r2.buf) = r2.seq
      BY <2>1, <1>1
    <2> QED BY <2>3, <2>5, <2>6, <1>1 DEF Numbered
  <1>5. Faithful(d, p2, a)
    BY <1>2 DEF Faithful, Sound
  <1>6. SkippedLast(NewBus, r2)
    BY <1>1 DEF SkippedLast, NewBus
  <1>7. Quoted(NewBus, r2, Fresh, d, p2, a)
    BY <1>1 DEF Quoted
  <1>8. d.row # "ended"
    BY DEF Sound, Fits
  <1>9. Counted(NewBus, r2, d, p2)
    BY <1>1, <1>8 DEF Counted
  <1> QED BY <1>1, <1>2, <1>3, <1>4, <1>5, <1>6, <1>7, <1>9 DEF Sound

LEMMA ClosedTyped ==
    ASSUME NEW c \in DbType, NEW x \in Nat, NEW y \in Nat
    PROVE  [c EXCEPT !.row = "ended", !.dropped = x, !.total = y, !.activity = 0] \in DbType
  BY DEF DbType

\* The session is closed, and its count with it.
Closed(b, d) ==
    [Compact(d, Len(d.events)) EXCEPT !.row = "ended", !.dropped = @ + b.dropped,
         !.total = EventCount(Compact(d, Len(d.events))), !.activity = 0]

LEMMA JoinSound ==
    ASSUME NEW b, NEW r, NEW t, NEW d, NEW p, NEW a, Typed(b, r, t, d, p, a), Sound(b, r, t, d, p, a),
           r.pc = "join", NEW r2, r2 = [r EXCEPT !.pc = "done"], NEW d2,
           d2 = IF d.row = "open" THEN Closed(b, d) ELSE d
    PROVE  r2 \in RecType /\ d2 \in DbType /\ Sound(b, r2, Fresh, d2, p, a)
  <1> DEFINE c == Compact(d, Len(d.events))
  <1>1. r2 \in RecType /\ r2.pc = "done" /\ r2.seq = r.seq /\ r2.buf = r.buf
    BY DEF Typed, RecType
  <1>2. /\ b.closed /\ b.queue = <<>> /\ r.buf = <<>> /\ ~p.deleted /\ d.row # "ended"
        /\ d \in DbType /\ Len(b.queue) = 0 /\ Len(r.buf) = 0
    BY DEF Sound, Fits, Typed
  <1>3. /\ c \in DbType /\ c.row = d.row /\ c.counted = d.counted /\ c.dropped = d.dropped
        /\ InOrder(c) /\ \A x : Holds(c, x) <=> Holds(d, x)
    <2>1. Len(d.events) \in 0..Len(d.events)
      BY <1>2, LogIs
    <2>2. InOrder(d)
      BY <1>2 DEF Sound, Faithful
    <2> HIDE DEF c
    <2> QED BY <1>2, <2>1, <2>2, CompactIs DEF c
  <1> HIDE DEF c
  <1>4. Numbered(r2, p, a) /\ SkippedLast(b, r2) /\ \A d3 : Quoted(b, r2, Fresh, d3, p, a)
    BY <1>1 DEF Numbered, SkippedLast, Sound, Quoted
  <1>5. CASE d.row # "open"
    <2>1. d2 = d
      BY <1>5
    <2>2. Fits(b, r2, d, p)
      BY <1>1, <1>2, <1>5 DEF Fits, Sound
    <2>3. Counted(b, r2, d, p)
      BY <1>1, <1>2 DEF Counted
    <2> QED BY <2>1, <2>2, <2>3, <1>1, <1>2, <1>4 DEF Sound
  <1>6. CASE d.row = "open"
    <2>1. d2 = [c EXCEPT !.row = "ended", !.dropped = @ + b.dropped, !.total = c.counted, !.activity = 0]
      BY <1>6 DEF c, EventCount, Closed
    <2>2. b.dropped \in Nat /\ b.emitted \in Nat /\ d.counted \in Nat /\ p.thinned \in Nat /\ p.failed \in Nat
      BY DEF Typed, BusType, DbType, PastType
    <2>3. d.dropped = 0 /\ Balanced(b.emitted, b.dropped, 0, 0, d.counted, p.thinned, p.failed)
      BY <1>2 DEF Sound, Counted
    <2>4. /\ d2 \in DbType /\ d2.row = "ended" /\ d2.dropped = b.dropped /\ d2.total = d.counted
          /\ d2.activity = 0 /\ d2.events = c.events /\ d2.blocks = c.blocks
      <3>1. d2 = [c EXCEPT !.row = "ended", !.dropped = b.dropped, !.total = d.counted, !.activity = 0]
        <4>1. c.dropped + b.dropped = b.dropped
          BY <2>2, <2>3, <1>3
        <4> QED BY <2>1, <4>1, <1>3 DEF DbType
      <3>2. d2 \in DbType
        BY ONLY <3>1, <2>2, <1>3, ClosedTyped
      <3> QED BY <3>1, <3>2, <1>3 DEF DbType
    <2>5. Fits(b, r2, d2, p)
      BY <2>4, <1>1, <1>2 DEF Fits, Sound
    <2>6. Faithful(d2, p, a)
      <3>1. InOrder(d2) /\ \A x : Holds(d2, x) <=> Holds(c, x)
        BY <2>4, <1>3 DEF InOrder, Holds, InBlocks, InTail
      <3> QED BY <3>1, <1>2, <1>3 DEF Faithful, Sound
    <2>7. Counted(b, r2, d2, p)
      <3>1. Balanced(b.emitted, d2.dropped, 0, 0, d2.total, p.thinned, p.failed)
        BY ONLY <2>3, <2>4, Zenon
      <3> QED BY <3>1, <1>1 DEF Counted
    <2> QED BY <2>4, <2>5, <2>6, <2>7, <1>1, <1>4 DEF Sound
  <1> QED BY <1>5, <1>6

\* Deletion, of a session that nobody records any more.
LEMMA DeletedSound ==
    ASSUME NEW b, NEW r, NEW t, NEW d, NEW p, NEW a, Typed(b, r, t, d, p, a), Sound(b, r, t, d, p, a),
           r.pc \in {"done", "crashed"}, NEW d2, NEW p2,
           d2 = [d EXCEPT !.events = <<>>, !.blocks = <<>>, !.counted = 0, !.quotes = {}, !.traded = FALSE],
           p2 = [p EXCEPT !.deleted = TRUE]
    PROVE  d2 \in DbType /\ p2 \in PastType /\ Sound(b, r, t, d2, p2, a)
  <1>1. <<>> \in Rows /\ <<>> \in Seq(Rows)
    BY DEF Rows
  <1>2. /\ d2 \in DbType /\ d2.row = d.row /\ d2.activity = d.activity /\ d2.dropped = d.dropped /\ d2.total = d.total
    BY <1>1 DEF Typed, DbType
  <1>3. /\ p2 \in PastType /\ p2.deleted /\ p2.written = p.written /\ p2.thinned = p.thinned /\ p2.failed = p.failed
    BY DEF Typed, PastType
  <1>4. Fits(b, r, d2, p2) /\ Numbered(r, p2, a) /\ SkippedLast(b, r)
    BY <1>2, <1>3 DEF Fits, Numbered, Sound
  <1>6. Faithful(d2, p2, a)
    <2>1. d2.events = <<>> /\ d2.blocks = <<>>
      BY DEF Typed, DbType
    <2>2. InOrder(d2)
      BY <2>1 DEF InOrder, Rising
    <2> QED BY <2>2, <1>3 DEF Faithful
  <1>5. Quoted(b, r, t, d2, p2, a) /\ Counted(b, r, d2, p2)
    BY <1>2, <1>3 DEF Quoted, Counted, Sound
  <1> QED BY <1>2, <1>3, <1>4, <1>5, <1>6 DEF Sound

LEMMA RowGoneSound ==
    ASSUME NEW b, NEW r, NEW t, NEW d, NEW p, NEW a, Typed(b, r, t, d, p, a), Sound(b, r, t, d, p, a),
           r.pc \in {"done", "crashed"}, NEW d2, d2 = [d EXCEPT !.row = "none", !.activity = 0]
    PROVE  d2 \in DbType /\ Sound(b, r, t, d2, p, a)
  <1>1. /\ d2 \in DbType /\ d2.row = "none" /\ d2.activity = 0 /\ d2.events = d.events /\ d2.blocks = d.blocks
    BY DEF Typed, DbType
  <1>2. Fits(b, r, d2, p) /\ Numbered(r, p, a) /\ SkippedLast(b, r)
    BY <1>1 DEF Fits, Sound
  <1>3. Faithful(d2, p, a)
    BY <1>1 DEF Faithful, Sound, InOrder, Holds, InBlocks, InTail
  <1>4. Quoted(b, r, t, d2, p, a) /\ Counted(b, r, d2, p)
    BY <1>1 DEF Quoted, Counted, Sound
  <1> QED BY <1>1, <1>2, <1>3, <1>4 DEF Sound

\* Old detail goes.
LEMMA AgedSound ==
    ASSUME NEW b, NEW r, NEW t, NEW d, NEW p, NEW a, Typed(b, r, t, d, p, a), Sound(b, r, t, d, p, a)
    PROVE  WithoutAged(d, a) \in DbType /\ Sound(b, r, t, WithoutAged(d, a), p, a)
  <1> DEFINE d2 == WithoutAged(d, a)
  <1>1. d \in DbType /\ a \in Nat /\ p.written \in SUBSET Event /\ InOrder(d)
    BY DEF Typed, PastType, Sound, Faithful
  <1>2. /\ d2 \in DbType /\ InOrder(d2)
        /\ \A x \in Event : Holds(d2, x) => Holds(d, x)
        /\ \A x \in Event : Holds(d, x) /\ x.seq > a => Holds(d2, x)
        /\ d2.quotes = {q \in d.quotes : q > a}
        /\ d2.row = d.row /\ d2.activity = d.activity /\ d2.counted = d.counted /\ d2.total = d.total
        /\ d2.dropped = d.dropped
    BY <1>1, Aged
  <1> HIDE DEF d2
  <1>3. Fits(b, r, d2, p) /\ Numbered(r, p, a) /\ SkippedLast(b, r)
    BY <1>2 DEF Fits, Sound
  <1>4. Faithful(d2, p, a)
    BY <1>1, <1>2 DEF Faithful, Sound
  <1>5. Quoted(b, r, t, d2, p, a)
    <2>1. \A e \in Raws(p) : e.seq > a /\ e.seq \in d.quotes => e.seq \in d2.quotes
      BY <1>2
    <2> QED BY <2>1 DEF Quoted, Sound
  <1>6. Counted(b, r, d2, p)
    BY <1>2 DEF Counted, Sound
  <1> QED BY <1>2, <1>3, <1>4, <1>5, <1>6 DEF Sound, d2

\* Time passes, without an event of it.
LEMMA OlderSound ==
    ASSUME NEW b, NEW r, NEW t, NEW d, NEW p, NEW a, Typed(b, r, t, d, p, a), Sound(b, r, t, d, p, a),
           NEW d2, NEW a2, a2 = a \/ a2 = r.seq, NEW n \in Nat,
           \/ d2 = d
           \/ /\ d2 = [d EXCEPT !.activity = n] /\ d.row # "none"
              /\ ~(r.pc \in {"run", "join"} /\ d.row = "open")
    PROVE  a2 \in Nat /\ d2 \in DbType /\ Sound(b, r, t, d2, p, a2)
  <1>1. a2 \in Nat /\ a <= a2 /\ a2 <= r.seq
    BY DEF Typed, RecType, Sound, Numbered
  <1>2. /\ d2 \in DbType /\ d2.row = d.row /\ d2.events = d.events /\ d2.blocks = d.blocks
        /\ d2.quotes = d.quotes /\ d2.counted = d.counted /\ d2.total = d.total /\ d2.dropped = d.dropped
    BY DEF Typed, DbType
  <1>3. Fits(b, r, d2, p)
    <2>1. CASE d2 = d
      BY <2>1 DEF Sound
    <2>2. CASE d.row # "none" /\ ~(r.pc \in {"run", "join"} /\ d.row = "open")
      BY <2>2, <1>2 DEF Fits, Sound
    <2> QED BY <2>1, <2>2
  <1>4. \A e \in p.written : e.seq \in Nat /\ e \in Event
    BY DEF Typed, PastType, Event
  <1>5. \A e \in p.written : e.seq > a2 => e.seq > a
    BY <1>1, <1>4 DEF Typed
  <1>6. Numbered(r, p, a2) /\ SkippedLast(b, r)
    BY <1>1 DEF Numbered, Sound
  <1>7. Faithful(d2, p, a2)
    <2>1. (InOrder(d) => InOrder(d2)) /\ \A x : Holds(d2, x) <=> Holds(d, x)
      BY <1>2 DEF InOrder, Holds, InBlocks, InTail
    <2> QED BY <2>1, <1>5 DEF Faithful, Sound
  <1>8. Quoted(b, r, t, d2, p, a2)
    BY <1>2, <1>5 DEF Quoted, Sound, Raws
  <1>9. Counted(b, r, d2, p)
    BY <1>2 DEF Counted, Sound
  <1> QED BY <1>1, <1>2, <1>3, <1>6, <1>7, <1>8, <1>9 DEF Sound

----------------------------------------------------------------------------
(* From the records of one session to the state *)

\* A step that changes the records of one session only.
LEMMA OneSession ==
    ASSUME RecorderInv, NEW s \in Sessions, NEW b, NEW r, NEW t, NEW d, NEW p,
           Typed(b, r, t, d, p, aged[s]), Sound(b, r, t, d, p, aged[s]),
           bus' = [bus EXCEPT ![s] = b], rec' = [rec EXCEPT ![s] = r], thin' = [thin EXCEPT ![s] = t],
           db' = [db EXCEPT ![s] = d], past' = [past EXCEPT ![s] = p], aged' = aged,
           Over(rec[s]) => Over(r)
    PROVE  /\ bus' \in [Sessions -> BusType] /\ rec' \in [Sessions -> RecType]
           /\ thin' \in [Sessions -> ThinType] /\ db' \in [Sessions -> DbType]
           /\ past' \in [Sessions -> PastType] /\ aged' \in [Sessions -> Nat]
           /\ \A x \in Sessions : Recorded(x)'
           /\ \A x \in Sessions : Over(rec[x]) => Over(rec'[x])
  <1>1. /\ bus \in [Sessions -> BusType] /\ rec \in [Sessions -> RecType]
        /\ thin \in [Sessions -> ThinType] /\ db \in [Sessions -> DbType]
        /\ past \in [Sessions -> PastType] /\ aged \in [Sessions -> Nat]
    BY DEF RecorderInv, Types
  <1>2. /\ bus' \in [Sessions -> BusType] /\ rec' \in [Sessions -> RecType]
        /\ thin' \in [Sessions -> ThinType] /\ db' \in [Sessions -> DbType]
        /\ past' \in [Sessions -> PastType] /\ aged' \in [Sessions -> Nat]
    BY <1>1 DEF Typed
  <1>3. /\ bus'[s] = b /\ rec'[s] = r /\ thin'[s] = t /\ db'[s] = d /\ past'[s] = p
        /\ \A x \in Sessions \ {s} : /\ bus'[x] = bus[x] /\ rec'[x] = rec[x] /\ thin'[x] = thin[x]
                                     /\ db'[x] = db[x] /\ past'[x] = past[x]
    BY <1>1
  <1>4. ASSUME NEW x \in Sessions PROVE Sound(bus'[x], rec'[x], thin'[x], db'[x], past'[x], aged'[x])
    <2>1. CASE x = s
      BY <2>1, <1>3, Zenon
    <2>2. CASE x # s
      <3>1. Sound(bus[x], rec[x], thin[x], db[x], past[x], aged[x])
        BY DEF RecorderInv, Recorded
      <3> QED BY <2>2, <3>1, <1>3, Zenon
    <2> QED BY <2>1, <2>2
  <1>5. \A x \in Sessions : Over(rec[x]) => Over(rec'[x])
    BY <1>3, Zenon
  <1> QED BY <1>2, <1>4, <1>5 DEF Recorded

\* A session that is over stays so.
LEMMA SparesLater ==
    ASSUME NEW s, NEW j \in JanitorType, NEW rc, NEW rc2, Spares(s, j, rc),
           \A x \in Sessions : Over(rc[x]) => Over(rc2[x])
    PROVE  Spares(s, j, rc2)
  <1>1. /\ \A i \in DOMAIN j.todo : j.todo[i].id \in Sessions
        /\ \A i \in DOMAIN j.kept : j.kept[i].id \in Sessions
        /\ j.of # <<>> => j.of[1] \in Sessions
    <2>t. j.todo \in Seq(Entry) /\ j.kept \in Seq(Judged) /\ j.of \in {<<>>} \cup Doomed
      BY DEF JanitorType
    <2>1. \A i \in DOMAIN j.todo : j.todo[i].id \in Sessions
      <3>1. \A i \in DOMAIN j.todo : j.todo[i] \in Entry
        BY <2>t
      <3> QED BY <3>1 DEF Entry
    <2>2. \A i \in DOMAIN j.kept : j.kept[i].id \in Sessions
      <3>1. \A i \in DOMAIN j.kept : j.kept[i] \in Judged
        BY <2>t
      <3> QED BY <3>1 DEF Judged
    <2>3. j.of # <<>> => j.of[1] \in Sessions
      BY <2>t DEF Doomed
    <2> QED BY <2>1, <2>2, <2>3
  <1> QED BY <1>1, Zenon DEF Spares

\* A step that changes one janitor.
LEMMA OneJanitor ==
    ASSUME RecorderInv, NEW s \in Janitors, NEW j \in JanitorType, janitor' = [janitor EXCEPT ![s] = j],
           \A x \in Sessions : Over(rec[x]) => Over(rec'[x]), Spares(s, j, rec')
    PROVE  janitor' \in [Janitors -> JanitorType] /\ \A x \in Janitors : Spares(x, janitor'[x], rec')
  <1>1. janitor \in [Janitors -> JanitorType]
    BY DEF RecorderInv, Types
  <1>2. ASSUME NEW x \in Janitors PROVE Spares(x, janitor'[x], rec')
    <2>1. CASE x = s
      BY <2>1, <1>1
    <2>2. CASE x # s
      <3>1. Spares(x, janitor[x], rec) /\ janitor[x] \in JanitorType /\ janitor'[x] = janitor[x]
        BY <2>2, <1>1 DEF RecorderInv
      <3> QED BY <3>1, SparesLater, Zenon
    <2> QED BY <2>1, <2>2
  <1> QED BY <1>1, <1>2

\* So the invariant is kept.
LEMMA Kept ==
    ASSUME RecorderInv, NEW s \in Sessions, NEW b, NEW r, NEW t, NEW d, NEW p, NEW j \in JanitorType,
           Typed(b, r, t, d, p, aged[s]), Sound(b, r, t, d, p, aged[s]),
           bus' = [bus EXCEPT ![s] = b], rec' = [rec EXCEPT ![s] = r], thin' = [thin EXCEPT ![s] = t],
           db' = [db EXCEPT ![s] = d], past' = [past EXCEPT ![s] = p], aged' = aged,
           janitor' = [janitor EXCEPT ![s] = j], j \in {janitor[s], Resting, NotRunning},
           Over(rec[s]) => Over(r)
    PROVE  RecorderInv'
  <1>1. /\ bus' \in [Sessions -> BusType] /\ rec' \in [Sessions -> RecType]
        /\ thin' \in [Sessions -> ThinType] /\ db' \in [Sessions -> DbType]
        /\ past' \in [Sessions -> PastType] /\ aged' \in [Sessions -> Nat]
        /\ \A x \in Sessions : Recorded(x)'
        /\ \A x \in Sessions : Over(rec[x]) => Over(rec'[x])
    BY OneSession, Zenon
  <1>2. s \in Janitors
    BY DEF Janitors
  <1>3. Spares(s, j, rec')
    <2>1. CASE j = janitor[s]
      <3>1. Spares(s, j, rec)
        BY <2>1, <1>2 DEF RecorderInv
      <3> QED BY <3>1, <1>1, SparesLater, Zenon
    <2>2. CASE j \in {Resting, NotRunning}
      BY <2>2 DEF Spares, Resting, NotRunning
    <2> QED BY <2>1, <2>2
  <1>4. janitor' \in [Janitors -> JanitorType] /\ \A x \in Janitors : Spares(x, janitor'[x], rec')
    BY <1>1, <1>2, <1>3, OneJanitor, Zenon
  <1> QED BY <1>1, <1>4 DEF RecorderInv, Types

----------------------------------------------------------------------------
(* The bus and the recorder thread *)

\* What the invariant says of one session, and that nothing moves unless told.
LEMMA AtOne ==
    ASSUME RecorderInv, NEW s \in Sessions
    PROVE  /\ Typed(bus[s], rec[s], thin[s], db[s], past[s], aged[s])
           /\ Sound(bus[s], rec[s], thin[s], db[s], past[s], aged[s])
           /\ s \in Janitors /\ janitor[s] \in JanitorType
           /\ bus = [bus EXCEPT ![s] = bus[s]] /\ rec = [rec EXCEPT ![s] = rec[s]]
           /\ thin = [thin EXCEPT ![s] = thin[s]] /\ db = [db EXCEPT ![s] = db[s]]
           /\ past = [past EXCEPT ![s] = past[s]] /\ janitor = [janitor EXCEPT ![s] = janitor[s]]
  <1>1. /\ bus \in [Sessions -> BusType] /\ rec \in [Sessions -> RecType]
        /\ thin \in [Sessions -> ThinType] /\ db \in [Sessions -> DbType]
        /\ past \in [Sessions -> PastType] /\ aged \in [Sessions -> Nat]
        /\ janitor \in [Janitors -> JanitorType] /\ s \in Janitors
    BY DEF RecorderInv, Types, Janitors
  <1>2. Sound(bus[s], rec[s], thin[s], db[s], past[s], aged[s])
    BY DEF RecorderInv, Recorded
  <1> QED BY <1>1, <1>2 DEF Typed

LEMMA StartTyped ==
    /\ NewBus \in BusType /\ Fresh \in ThinType /\ Resting \in JanitorType /\ NotRunning \in JanitorType
  <1>1. NewBus \in BusType
    BY DEF NewBus, BusType
  <1>2. Fresh \in ThinType
    BY DEF Fresh, ThinType
  <1>3. Resting \in JanitorType /\ NotRunning \in JanitorType
    <2>1. <<>> \in Seq(Entry) /\ <<>> \in Seq(Judged) /\ <<>> \in {<<>>} \cup Doomed
      OBVIOUS
    <2>2. Resting \in JanitorType
      BY <2>1 DEF Resting, JanitorType
    <2>3. NotRunning = [Resting EXCEPT !.pc = "off"] /\ "off" \in {"off", "rest", "expire", "rows", "row", "cap"}
      BY DEF NotRunning
    <2> QED BY <2>2, <2>3 DEF JanitorType
  <1> QED BY <1>1, <1>2, <1>3

LEMMA EmitKeeps ==
    ASSUME RecorderInv, NEW s \in Sessions, NEW kind \in Kinds, Emit(s, kind)
    PROVE  RecorderInv'
  <1> DEFINE b == bus[s]  r == rec[s]  full == ~(Len(b.queue) < Queue)
             b2 == [b EXCEPT !.emitted = @ + 1, !.skipped = @ \/ kind = "skipped",
                             !.queue = IF full THEN @ ELSE Append(@, kind),
                             !.dropped = IF full THEN @ + 1 ELSE @]
  <1>1. /\ Typed(b, r, thin[s], db[s], past[s], aged[s]) /\ Sound(b, r, thin[s], db[s], past[s], aged[s])
        /\ janitor[s] \in JanitorType
        /\ rec' = [rec EXCEPT ![s] = r] /\ thin' = [thin EXCEPT ![s] = thin[s]]
        /\ db' = [db EXCEPT ![s] = db[s]] /\ past' = [past EXCEPT ![s] = past[s]] /\ aged' = aged
        /\ janitor' = [janitor EXCEPT ![s] = janitor[s]]
    BY AtOne DEF Emit
  <1>2. bus' = [bus EXCEPT ![s] = b2]
    BY DEF Emit
  <1>3. /\ r.pc \notin {"off", "crashed"} /\ ~b.closed
        /\ b.skipped => kind \notin {"raw", "quoted", "skipped", "notable"}
    BY DEF Emit
  <1>4. b \in BusType
    BY <1>1 DEF Typed
  <1>5. /\ b2.emitted = b.emitted + 1 /\ b2.closed = b.closed
        /\ b2.skipped <=> b.skipped \/ kind = "skipped"
    BY <1>4 DEF BusType
  <1>6. \/ b2.queue = Append(b.queue, kind) /\ b2.dropped = b.dropped
        \/ b2.queue = b.queue /\ b2.dropped = b.dropped + 1
    BY <1>4 DEF BusType
  <1>7. b2 \in BusType
    <2>1. Append(b.queue, kind) \in Seq(Kinds) /\ b.emitted + 1 \in Nat /\ b.dropped + 1 \in Nat
      BY <1>4 DEF BusType
    <2> HIDE DEF full
    <2> QED BY <2>1, <1>4 DEF BusType
  <1> HIDE DEF b2, b, r
  <1>8. Sound(b2, r, thin[s], db[s], past[s], aged[s])
    BY <1>1, <1>3, <1>5, <1>6, <1>7, EmitSound
  <1>9. Typed(b2, r, thin[s], db[s], past[s], aged[s])
    BY <1>1, <1>7 DEF Typed
  <1> QED BY <1>1, <1>2, <1>8, <1>9, Kept, Zenon DEF r

LEMMA StopKeeps ==
    ASSUME RecorderInv, NEW s \in Sessions, Stop(s)
    PROVE  RecorderInv'
  <1> DEFINE b2 == [bus[s] EXCEPT !.closed = TRUE]
  <1>1. /\ Typed(bus[s], rec[s], thin[s], db[s], past[s], aged[s])
        /\ Sound(bus[s], rec[s], thin[s], db[s], past[s], aged[s]) /\ janitor[s] \in JanitorType
        /\ rec' = [rec EXCEPT ![s] = rec[s]] /\ thin' = [thin EXCEPT ![s] = thin[s]]
        /\ db' = [db EXCEPT ![s] = db[s]] /\ past' = [past EXCEPT ![s] = past[s]] /\ aged' = aged
        /\ janitor' = [janitor EXCEPT ![s] = janitor[s]]
    BY AtOne DEF Stop
  <1>2. bus' = [bus EXCEPT ![s] = b2]
    BY DEF Stop
  <1>3. b2 \in BusType /\ Sound(b2, rec[s], thin[s], db[s], past[s], aged[s])
    BY <1>1, StopSound
  <1>4. Typed(b2, rec[s], thin[s], db[s], past[s], aged[s])
    BY <1>1, <1>3 DEF Typed
  <1> HIDE DEF b2
  <1> QED BY <1>1, <1>2, <1>3, <1>4, Kept, Zenon

LEMMA BeginKeeps ==
    ASSUME RecorderInv, NEW s \in Sessions, Begin(s)
    PROVE  RecorderInv'
  <1> DEFINE r2 == [rec[s] EXCEPT !.pc = "run"]
  <1>1. /\ Typed(bus[s], rec[s], thin[s], db[s], past[s], aged[s])
        /\ Sound(bus[s], rec[s], thin[s], db[s], past[s], aged[s])
        /\ bus' = [bus EXCEPT ![s] = bus[s]] /\ past' = [past EXCEPT ![s] = past[s]] /\ aged' = aged
        /\ thin' = [thin EXCEPT ![s] = Fresh] /\ janitor' = [janitor EXCEPT ![s] = Resting]
        /\ rec[s].pc = "off"
    BY AtOne DEF Begin
  <1>2. rec' = [rec EXCEPT ![s] = r2]
    BY DEF Begin
  <1>3. PICK d2 : /\ db' = [db EXCEPT ![s] = d2]
                  /\ d2 = db[s] \/ d2 = [db[s] EXCEPT !.row = "open"]
    BY AtOne DEF Begin
  <1>4. r2 \in RecType /\ d2 \in DbType /\ Sound(bus[s], r2, Fresh, d2, past[s], aged[s])
    BY <1>1, <1>3, BeginSound
  <1>5. Typed(bus[s], r2, Fresh, d2, past[s], aged[s])
    BY <1>1, <1>4, StartTyped DEF Typed
  <1>6. ~Over(rec[s])
    BY <1>1 DEF Over
  <1> HIDE DEF r2
  <1> QED BY <1>1, <1>2, <1>3, <1>4, <1>5, <1>6, Kept, StartTyped

LEMMA CrashKeeps ==
    ASSUME RecorderInv, NEW s \in Sessions, Crash(s)
    PROVE  RecorderInv'
  <1> DEFINE r2 == [rec[s] EXCEPT !.pc = "crashed", !.buf = <<>>]
             p2 == [past[s] EXCEPT !.thinned = 0, !.failed = 0, !.expired = {}]
  <1>1. /\ Typed(bus[s], rec[s], thin[s], db[s], past[s], aged[s])
        /\ Sound(bus[s], rec[s], thin[s], db[s], past[s], aged[s])
        /\ bus' = [bus EXCEPT ![s] = NewBus] /\ db' = [db EXCEPT ![s] = db[s]] /\ aged' = aged
        /\ thin' = [thin EXCEPT ![s] = Fresh] /\ janitor' = [janitor EXCEPT ![s] = NotRunning]
        /\ rec[s].pc \in {"run", "join"}
    BY AtOne DEF Crash
  <1>2. rec' = [rec EXCEPT ![s] = r2] /\ past' = [past EXCEPT ![s] = p2]
    BY DEF Crash
  <1>3. r2 \in RecType /\ p2 \in PastType /\ Sound(NewBus, r2, Fresh, db[s], p2, aged[s])
    BY <1>1, CrashSound
  <1>4. Typed(NewBus, r2, Fresh, db[s], p2, aged[s])
    BY <1>1, <1>3, StartTyped DEF Typed
  <1>5. ~Over(rec[s])
    BY <1>1 DEF Over
  <1> HIDE DEF r2, p2
  <1> QED BY <1>1, <1>2, <1>3, <1>4, <1>5, Kept, StartTyped

LEMMA MoveKeeps ==
    ASSUME RecorderInv, NEW s \in Sessions, Unopened(s) \/ Disconnected(s) \/ Drained(s)
    PROVE  RecorderInv'
  <1>1. /\ Typed(bus[s], rec[s], thin[s], db[s], past[s], aged[s])
        /\ Sound(bus[s], rec[s], thin[s], db[s], past[s], aged[s]) /\ janitor[s] \in JanitorType
        /\ bus' = [bus EXCEPT ![s] = bus[s]] /\ thin' = [thin EXCEPT ![s] = thin[s]]
        /\ db' = [db EXCEPT ![s] = db[s]] /\ past' = [past EXCEPT ![s] = past[s]] /\ aged' = aged
        /\ janitor' = [janitor EXCEPT ![s] = janitor[s]]
    BY AtOne DEF Unopened, Disconnected, Drained
  <1>2. rec[s] \in RecType
    BY <1>1 DEF Typed
  <1>3. PICK r2 \in RecType : /\ rec' = [rec EXCEPT ![s] = r2] /\ r2.seq = rec[s].seq /\ r2.buf = rec[s].buf
                              /\ \/ rec[s].pc = "off" /\ r2.pc = "drain"
                                 \/ rec[s].pc = "run" /\ r2.pc = "join" /\ bus[s].closed /\ bus[s].queue = <<>> /\ rec[s].buf = <<>>
                                 \/ rec[s].pc = "drain" /\ r2.pc = "done" /\ bus[s].closed
    <2>1. CASE Unopened(s)
      <3>1. [rec[s] EXCEPT !.pc = "drain"] \in RecType
        BY <1>2 DEF RecType
      <3>2. WITNESS [rec[s] EXCEPT !.pc = "drain"] \in RecType
      <3> QED BY <2>1, <1>2 DEF Unopened, RecType
    <2>2. CASE Disconnected(s)
      <3>1. [rec[s] EXCEPT !.pc = "join", !.stop = TRUE] \in RecType
        BY <1>2 DEF RecType
      <3>2. WITNESS [rec[s] EXCEPT !.pc = "join", !.stop = TRUE] \in RecType
      <3> QED BY <2>2, <1>2 DEF Disconnected, RecType
    <2>3. CASE Drained(s)
      <3>1. [rec[s] EXCEPT !.pc = "done"] \in RecType
        BY <1>2 DEF RecType
      <3>2. WITNESS [rec[s] EXCEPT !.pc = "done"] \in RecType
      <3> QED BY <2>3, <1>2 DEF Drained, RecType
    <2> QED BY <2>1, <2>2, <2>3
  <1>4. Sound(bus[s], r2, thin[s], db[s], past[s], aged[s])
    BY <1>1, <1>3, MovedSound
  <1>5. Typed(bus[s], r2, thin[s], db[s], past[s], aged[s])
    BY <1>1 DEF Typed
  <1>6. ~Over(rec[s])
    BY <1>3 DEF Over
  <1> QED BY <1>1, <1>3, <1>4, <1>5, <1>6, Kept, Zenon

LEMMA ReceiveKeeps ==
    ASSUME RecorderInv, NEW s \in Sessions, Receive(s)
    PROVE  RecorderInv'
  <1> DEFINE b == bus[s]  r == rec[s]  b2 == [b EXCEPT !.queue = Tail(@)]
             e == [seq |-> r.seq + 1, kind |-> Head(b.queue)]
             r2 == [r EXCEPT !.seq = @ + 1, !.buf = Append(@, e)]
  <1>1. /\ Typed(b, r, thin[s], db[s], past[s], aged[s]) /\ Sound(b, r, thin[s], db[s], past[s], aged[s])
        /\ janitor[s] \in JanitorType /\ thin' = [thin EXCEPT ![s] = thin[s]]
        /\ db' = [db EXCEPT ![s] = db[s]] /\ past' = [past EXCEPT ![s] = past[s]] /\ aged' = aged
        /\ janitor' = [janitor EXCEPT ![s] = janitor[s]]
    BY AtOne DEF Receive
  <1>2. /\ r.pc \in {"run", "drain"} /\ b.queue # <<>> /\ bus' = [bus EXCEPT ![s] = b2]
        /\ r.pc = "drain" => rec' = [rec EXCEPT ![s] = r]
        /\ r.pc = "run" => rec' = [rec EXCEPT ![s] = r2]
    BY AtOne DEF Receive
  <1>3. /\ b \in BusType /\ r \in RecType /\ b.queue \in Seq(Kinds) /\ r.buf \in Rows /\ r.seq \in Nat
    BY <1>1 DEF Typed, BusType, RecType
  <1>4. Tail(b.queue) \in Seq(Kinds) /\ Head(b.queue) \in Kinds
    BY <1>2, <1>3, TailIs
  <1>5. e \in Event
    BY <1>3, <1>4 DEF Event
  <1> HIDE DEF e
  <1>6. Append(r.buf, e) \in Rows
    BY <1>3, <1>5, AddedIs
  <1>7. /\ b2 \in BusType /\ b2.queue = Tail(b.queue) /\ b2.emitted = b.emitted /\ b2.dropped = b.dropped
        /\ b2.closed = b.closed /\ b2.skipped = b.skipped
    BY <1>3, <1>4 DEF BusType
  <1>8. r2 \in RecType /\ r2.pc = r.pc /\ r2.seq = r.seq + 1 /\ r2.buf = Append(r.buf, e)
    <2>1. r.seq + 1 \in Nat
      BY <1>3
    <2> QED BY <2>1, <1>3, <1>6 DEF RecType
  <1>9. ~Over(r)
    BY <1>2 DEF Over
  <1> HIDE DEF b2, r2, b, r
  <1>10. CASE r.pc = "drain"
    <2>1. Sound(b2, r, thin[s], db[s], past[s], aged[s])
      BY <1>1, <1>2, <1>7, <1>10, DrainSound
    <2>2. Typed(b2, r, thin[s], db[s], past[s], aged[s])
      BY <1>1, <1>7 DEF Typed
    <2> QED BY <1>1, <1>2, <1>9, <1>10, <2>1, <2>2, Kept, Zenon DEF r
  <1>11. CASE r.pc = "run"
    <2>1. Sound(b2, r2, thin[s], db[s], past[s], aged[s])
      BY <1>1, <1>2, <1>7, <1>8, <1>11, ReceiveSound DEF e
    <2>2. Typed(b2, r2, thin[s], db[s], past[s], aged[s])
      BY <1>1, <1>7, <1>8 DEF Typed
    <2> QED BY <1>1, <1>2, <1>9, <1>11, <2>1, <2>2, Kept, Zenon DEF r
  <1> QED BY <1>2, <1>10, <1>11

LEMMA JoinKeeps ==
    ASSUME RecorderInv, NEW s \in Sessions, Join(s)
    PROVE  RecorderInv'
  <1> DEFINE r2 == [rec[s] EXCEPT !.pc = "done"]  d == db[s]
             d2 == IF d.row = "open" THEN EndSession(s) ELSE d
  <1>1. /\ Typed(bus[s], rec[s], thin[s], d, past[s], aged[s])
        /\ Sound(bus[s], rec[s], thin[s], d, past[s], aged[s]) /\ janitor[s] \in JanitorType
        /\ bus' = [bus EXCEPT ![s] = bus[s]] /\ past' = [past EXCEPT ![s] = past[s]] /\ aged' = aged
        /\ thin' = [thin EXCEPT ![s] = Fresh] /\ janitor' = [janitor EXCEPT ![s] = janitor[s]]
        /\ rec[s].pc = "join"
    BY AtOne DEF Join
  <1>2. rec' = [rec EXCEPT ![s] = r2] /\ db' = [db EXCEPT ![s] = d2]
    BY AtOne DEF Join
  <1>3. d2 = IF d.row = "open" THEN Closed(bus[s], d) ELSE d
    BY Zenon DEF EndSession, Closed
  <1>r. r2 = [rec[s] EXCEPT !.pc = "done"]
    OBVIOUS
  <1> HIDE DEF d2, d, r2
  <1>4. r2 \in RecType /\ d2 \in DbType /\ Sound(bus[s], r2, Fresh, d2, past[s], aged[s])
    BY ONLY <1>1, <1>3, <1>r, JoinSound
  <1>5. Typed(bus[s], r2, Fresh, d2, past[s], aged[s])
    BY <1>1, <1>4, StartTyped DEF Typed
  <1>6. ~Over(rec[s])
    BY <1>1 DEF Over
  <1> QED BY <1>1, <1>2, <1>4, <1>5, <1>6, Kept, Zenon

WithWritten(p, w, d, expired) ==
    [p EXCEPT !.written = @ \cup (ToSet(w.db.events) \ ToSet(d.events)),
              !.thinned = @ + w.thinned, !.expired = @ \cup expired]
WithFailed(p, buf) == [p EXCEPT !.failed = @ + Len(buf)]

\* One flush, with its outcome.
Flushed(s, ok, n, take, expired) ==
    LET buf == rec[s].buf
        r == WriteBatch(db[s], thin[s], SubSeq(buf, 1, n))
        d == IF ok THEN r.db ELSE db[s]
    IN  /\ rec[s].pc = "run" /\ buf # <<>> /\ take \in Takes(d)
        /\ ok => db[s].row = "open" /\ n = Len(buf)
        /\ expired \in IF ok THEN {{}, r.thin.quotes} ELSE {{}}
        /\ db' = [db EXCEPT ![s] = Compact(d, take)]
        /\ thin' = [thin EXCEPT ![s] = [r.thin EXCEPT !.quotes = @ \ expired]]
        /\ past' = [past EXCEPT ![s] = IF ok THEN WithWritten(past[s], r, db[s], expired) ELSE WithFailed(past[s], buf)]
        /\ rec' = [rec EXCEPT ![s].buf = <<>>]
        /\ UNCHANGED <<bus, janitor, aged>>

LEMMA FlushKeeps ==
    ASSUME RecorderInv, NEW s \in Sessions, Flush(s)
    PROVE  RecorderInv'
  <1> DEFINE b == bus[s]  r == rec[s]  t == thin[s]  d == db[s]  p == past[s]  a == aged[s]
             r2 == [r EXCEPT !.buf = <<>>]
  <1>1. /\ Typed(b, r, t, d, p, a) /\ Sound(b, r, t, d, p, a) /\ janitor[s] \in JanitorType
        /\ bus' = [bus EXCEPT ![s] = b] /\ aged' = aged /\ janitor' = [janitor EXCEPT ![s] = janitor[s]]
    BY AtOne DEF Flush
  <1>o. PICK ok \in BOOLEAN, n \in 0..Len(r.buf) : \E take, expired : Flushed(s, ok, n, take, expired)
    BY ZenonT(40) DEF Flush, Flushed, WithWritten, WithFailed
  <1>2. PICK take, expired : Flushed(s, ok, n, take, expired)
    BY <1>o
  <1> DEFINE w == WriteBatch(d, t, SubSeq(r.buf, 1, n))  t2 == [w.thin EXCEPT !.quotes = @ \ expired]
  <1>3. /\ d \in DbType /\ t \in ThinType /\ r \in RecType /\ p \in PastType /\ r.buf \in Rows /\ b \in BusType
    BY <1>1 DEF Typed, RecType
  <1>4. w \in Writing
    <2>1. SubSeq(r.buf, 1, n) \in Rows
      BY <1>3, Prefix
    <2> QED BY <2>1, <1>3, BatchTyped
  <1>5. /\ r.pc = "run" /\ r.buf # <<>> /\ rec' = [rec EXCEPT ![s] = r2]
        /\ thin' = [thin EXCEPT ![s] = t2]
    BY <1>2 DEF Flushed
  <1>6. r2 \in RecType /\ r2.pc = r.pc /\ r2.seq = r.seq /\ r2.buf = <<>>
    <2>1. <<>> \in Rows
      BY DEF Rows
    <2> QED BY <2>1, <1>3 DEF RecType
  <1>7. t2 \in ThinType /\ t2.quotes = w.thin.quotes \ expired /\ t2.notable = w.thin.notable
    BY <1>4 DEF Writing, ThinType
  <1>8. ~Over(r)
    BY <1>5 DEF Over
  <1>9. CASE ok
    <2> DEFINE d2 == Compact(w.db, take)
               p2 == WithWritten(p, w, d, expired)
    <2>1. /\ d.row = "open" /\ n = Len(r.buf) /\ take \in Takes(w.db) /\ expired \in {{}, w.thin.quotes}
          /\ db' = [db EXCEPT ![s] = d2] /\ past' = [past EXCEPT ![s] = p2]
      <3>1. d.row = "open" /\ n = Len(r.buf) /\ take \in Takes(w.db) /\ expired \in {{}, w.thin.quotes}
        BY <1>2, <1>9, Zenon DEF Flushed
      <3>2. db' = [db EXCEPT ![s] = d2]
        BY <1>2, <1>9, Zenon DEF Flushed
      <3>3. past' = [past EXCEPT ![s] = p2]
        <4>1. past' = [past EXCEPT ![s] = IF ok THEN p2 ELSE WithFailed(p, r.buf)]
          BY <1>2 DEF Flushed
        <4> HIDE DEF p2
        <4> QED BY <4>1, <1>9
      <3> QED BY <3>1, <3>2, <3>3
    <2>2. w = WriteBatch(d, t, r.buf)
      <3>1. SubSeq(r.buf, 1, Len(r.buf)) = r.buf
        BY <1>3 DEF Rows
      <3> QED BY <2>1, <3>1
    <2>3. /\ p2 \in PastType /\ p2.written = p.written \cup (ToSet(w.db.events) \ ToSet(d.events))
          /\ p2.thinned = p.thinned + w.thinned /\ p2.expired = p.expired \cup expired
          /\ p2.failed = p.failed /\ p2.deleted = p.deleted
      <3>1. ToSet(w.db.events) \subseteq Event
        <4>1. w.db.events \in Rows
          BY <1>4 DEF Writing, DbType
        <4> QED BY <4>1, InRows DEF ToSet
      <3>2. w.thinned \in Nat /\ expired \in SUBSET Nat
        BY <2>1, <1>4 DEF Writing, ThinType
      <3>3. p.written \cup (ToSet(w.db.events) \ ToSet(d.events)) \in SUBSET Event
        BY <3>1, <1>3 DEF PastType
      <3>4. p.thinned + w.thinned \in Nat /\ p.expired \cup expired \in SUBSET Nat
        <4>1. p.thinned \in Nat /\ p.expired \in SUBSET Nat
          BY <1>3 DEF PastType
        <4>2. p.thinned + w.thinned \in Nat
          BY ONLY <4>1, <3>2
        <4>3. p.expired \cup expired \in SUBSET Nat
          BY ONLY <4>1, <3>2
        <4> QED BY <4>2, <4>3
      <3> HIDE DEF w
      <3> QED BY <3>3, <3>4, <1>3 DEF PastType, WithWritten
    <2> HIDE DEF w, d2, p2, t2, r2, b, r, t, d, p, a
    <2>4. d2 \in DbType /\ Sound(b, r2, t2, d2, p2, a)
      <3>1. WrittenAs(r, t, d, p, w, take, expired, r2, t2, d2, p2)
        BY <1>5, <1>6, <1>7, <2>1, <2>2, <2>3, Zenon DEF WrittenAs, d2
      <3> QED BY ONLY <1>1, <3>1, WrittenSound
    <2>5. Typed(b, r2, t2, d2, p2, a)
      BY <1>1, <1>6, <1>7, <2>3, <2>4 DEF Typed
    <2> QED BY <1>1, <1>5, <1>8, <2>1, <2>4, <2>5, Kept, Zenon DEF r, a
  <1>10. CASE ~ok
    <2> DEFINE d2 == Compact(d, take)  p2 == WithFailed(p, r.buf)
    <2>1. take \in Takes(d) /\ db' = [db EXCEPT ![s] = d2] /\ past' = [past EXCEPT ![s] = p2]
      <3>1. take \in Takes(d) /\ db' = [db EXCEPT ![s] = d2]
        BY <1>2, <1>10, Zenon DEF Flushed
      <3>2. past' = [past EXCEPT ![s] = p2]
        <4> DEFINE pw == WithWritten(p, w, d, expired)
        <4>1. past' = [past EXCEPT ![s] = IF ok THEN pw ELSE p2]
          BY <1>2 DEF Flushed
        <4> HIDE DEF p2, pw
        <4> QED BY <4>1, <1>10
      <3> QED BY <3>1, <3>2
    <2>2. /\ p2 \in PastType /\ p2.written = p.written /\ p2.thinned = p.thinned /\ p2.expired = p.expired
          /\ p2.failed = p.failed + Len(r.buf) /\ p2.deleted = p.deleted
      <3>1. p.failed + Len(r.buf) \in Nat
        BY <1>3, InRows DEF PastType
      <3> QED BY <3>1, <1>3 DEF PastType, WithFailed
    <2> HIDE DEF w, d2, p2, t2, r2, b, r, t, d, p, a
    <2>4. d2 \in DbType /\ Sound(b, r2, t2, d2, p2, a)
      BY <1>1, <1>5, <1>6, <2>1, <2>2, FailedSound DEF d2
    <2>5. Typed(b, r2, t2, d2, p2, a)
      BY <1>1, <1>6, <1>7, <2>2, <2>4 DEF Typed
    <2> QED BY <1>1, <1>5, <1>8, <2>1, <2>4, <2>5, Kept, Zenon DEF r, a
  <1> QED BY <1>9, <1>10

----------------------------------------------------------------------------
(* The janitors *)

\* A janitor looks, and nothing else moves.
LEMMA Looked ==
    ASSUME RecorderInv, NEW s \in Janitors, NEW j \in JanitorType, janitor' = [janitor EXCEPT ![s] = j],
           Spares(s, j, rec), UNCHANGED <<bus, rec, thin, db, aged, past>>
    PROVE  RecorderInv'
  <1>1. Spares(s, j, rec') /\ \A x \in Sessions : Over(rec[x]) => Over(rec'[x])
    OBVIOUS
  <1>2. janitor' \in [Janitors -> JanitorType] /\ \A x \in Janitors : Spares(x, janitor'[x], rec')
    BY <1>1, OneJanitor
  <1>3. \A x \in Sessions : Recorded(x)'
    BY DEF RecorderInv, Recorded
  <1> QED BY <1>2, <1>3 DEF RecorderInv, Types

\* The record of a janitor.
LEMMA JanitorIs ==
    ASSUME RecorderInv, NEW s \in Janitors
    PROVE  /\ janitor[s] \in JanitorType /\ Spares(s, janitor[s], rec)
           /\ janitor[s].todo \in Seq(Entry) /\ janitor[s].kept \in Seq(Judged)
           /\ janitor[s].of \in {<<>>} \cup Doomed /\ janitor[s].runs \in Nat
           /\ \A n \in Nat : [Resting EXCEPT !.runs = n] \in JanitorType
           /\ \A n, rc : Spares(s, [Resting EXCEPT !.runs = n], rc)
  <1>1. janitor[s] \in JanitorType /\ Spares(s, janitor[s], rec)
    BY DEF RecorderInv, Types
  <1>2. /\ janitor[s].todo \in Seq(Entry) /\ janitor[s].kept \in Seq(Judged)
        /\ janitor[s].of \in {<<>>} \cup Doomed /\ janitor[s].runs \in Nat
    BY <1>1 DEF JanitorType
  <1>3. \A n \in Nat : [Resting EXCEPT !.runs = n] \in JanitorType
    BY StartTyped DEF JanitorType
  <1>4. \A n, rc : Spares(s, [Resting EXCEPT !.runs = n], rc)
    BY DEF Spares, Resting
  <1> QED BY <1>1, <1>2, <1>3, <1>4

\* A session in the list is over, or open and active, as the list says.
LEMMA ListedSpared ==
    ASSUME RecorderInv, NEW s \in Janitors, NEW x \in Listed
    PROVE  LET of == [id |-> x, open |-> db[x].row = "open", activity |-> db[x].activity]
           IN  of \in Entry /\ (RunningSession(s, of) \/ Over(rec[of.id]))
  <1> DEFINE of == [id |-> x, open |-> db[x].row = "open", activity |-> db[x].activity]
  <1>1. x \in Sessions /\ db[x].row # "none" /\ db[x] \in DbType /\ rec[x] \in RecType
    BY DEF Listed, RecorderInv, Types
  <1>2. of \in Entry
    BY <1>1 DEF Entry, DbType
  <1>3. Fits(bus[x], rec[x], db[x], past[x])
    BY <1>1 DEF RecorderInv, Recorded, Sound
  <1>4. CASE rec[x].pc \in {"done", "crashed"}
    BY <1>2, <1>4 DEF Over
  <1>5. CASE rec[x].pc \notin {"done", "crashed"}
    <2>1. rec[x].pc \in {"run", "join"} /\ db[x].row = "open" /\ db[x].activity = 0
      BY <1>1, <1>3, <1>5 DEF Fits, RecType, DbType
    <2> QED BY <1>2, <2>1 DEF RunningSession
  <1> QED BY <1>4, <1>5

LEMMA PruneBeginKeeps ==
    ASSUME RecorderInv, NEW s \in Janitors, PruneBegin(s)
    PROVE  RecorderInv'
  <1>1. PICK order \in SetToSeqs(Listed) :
          janitor' = [janitor EXCEPT ![s] =
             [Resting EXCEPT !.pc = "expire", !.runs = janitor[s].runs + 1,
                             !.todo = [i \in DOMAIN order |->
                                         [id |-> order[i], open |-> db[order[i]].row = "open",
                                          activity |-> db[order[i]].activity]]]]
    BY DEF PruneBegin
  <1> DEFINE todo == [i \in DOMAIN order |-> [id |-> order[i], open |-> db[order[i]].row = "open",
                                              activity |-> db[order[i]].activity]]
             n == janitor[s].runs + 1
             j == [Resting EXCEPT !.pc = "expire", !.runs = n, !.todo = todo]
  <1>2. Cardinality(Listed) \in Nat /\ order \in [1..Cardinality(Listed) -> Listed]
    <2>1. IsFiniteSet(Listed)
      <3>1. IsFiniteSet(Sessions) /\ Listed \subseteq Sessions
        BY RecorderAssumption DEF Listed
      <3> QED BY <3>1, FS_Subset
    <2>2. Cardinality(Listed) \in Nat
      BY <2>1, FS_CardinalityType
    <2>3. order \in [1..Cardinality(Listed) -> Listed]
      BY DEF SetToSeqs
    <2> QED BY <2>2, <2>3
  <1>3. \A i \in DOMAIN todo : /\ todo[i] \in Entry
                               /\ RunningSession(s, todo[i]) \/ Over(rec[todo[i].id])
    <2>1. ASSUME NEW i \in DOMAIN todo
          PROVE  todo[i] \in Entry /\ (RunningSession(s, todo[i]) \/ Over(rec[todo[i].id]))
      <3>1. i \in DOMAIN order
        OBVIOUS
      <3>2. order[i] \in Listed
        BY <3>1, <1>2
      <3>3. todo[i] = [id |-> order[i], open |-> db[order[i]].row = "open", activity |-> db[order[i]].activity]
        BY <3>1
      <3> HIDE DEF todo
      <3> QED BY <3>2, <3>3, ListedSpared, Zenon
    <2> QED BY <2>1
  <1>4. todo \in Seq(Entry)
    <2>1. DOMAIN todo = 1..Cardinality(Listed)
      BY <1>2
    <2>2. todo = [i \in 1..Cardinality(Listed) |-> todo[i]]
      BY <2>1
    <2> HIDE DEF todo
    <2>3. \A i \in 1..Cardinality(Listed) : todo[i] \in Entry
      BY <1>3, <2>1
    <2>4. todo \in [1..Cardinality(Listed) -> Entry]
      BY <2>2, <2>3
    <2> QED BY <2>4, <1>2
  <1>5. n \in Nat
    BY JanitorIs
  <1>6. janitor' = [janitor EXCEPT ![s] = j]
    BY <1>1
  <1> HIDE DEF todo, n
  <1>7. /\ j \in JanitorType /\ j.todo = todo /\ j.kept = <<>> /\ j.pc = "expire"
    BY <1>4, <1>5, StartTyped DEF JanitorType, Resting
  <1> HIDE DEF j
  <1>8. Spares(s, j, rec)
    BY <1>3, <1>7 DEF Spares
  <1> QED BY <1>6, <1>7, <1>8, Looked DEF PruneBegin

LEMMA JanitorExitKeeps ==
    ASSUME RecorderInv, NEW s \in Janitors, JanitorExit(s)
    PROVE  RecorderInv'
  <1> DEFINE j == [janitor[s] EXCEPT !.pc = "off"]
  <1>1. j \in JanitorType /\ j.todo = janitor[s].todo /\ j.kept = janitor[s].kept /\ j.pc = "off"
    BY JanitorIs DEF JanitorType
  <1>2. janitor' = [janitor EXCEPT ![s] = j]
    BY DEF JanitorExit
  <1> HIDE DEF j
  <1>3. Spares(s, j, rec)
    BY <1>1, JanitorIs DEF Spares
  <1> QED BY <1>1, <1>2, <1>3, Looked DEF JanitorExit

LEMMA PruneEndKeeps ==
    ASSUME RecorderInv, NEW s \in Janitors, PruneEnd(s)
    PROVE  RecorderInv'
  <1> DEFINE j == [Resting EXCEPT !.runs = janitor[s].runs]
  <1>1. j \in JanitorType /\ Spares(s, j, rec)
    BY JanitorIs
  <1>2. janitor' = [janitor EXCEPT ![s] = j]
    BY DEF PruneEnd
  <1> HIDE DEF j
  <1> QED BY <1>1, <1>2, Looked DEF PruneEnd

LEMMA NextEntry ==
    ASSUME NEW q \in Seq(Entry), q # <<>>
    PROVE  /\ Head(q) \in Entry /\ 1 \in DOMAIN q /\ Head(q) = q[1] /\ Tail(q) \in Seq(Entry)
           /\ \A i \in DOMAIN Tail(q) : i + 1 \in DOMAIN q /\ Tail(q)[i] = q[i + 1]
  <1>1. Len(q) \in Nat /\ Len(q) > 0 /\ DOMAIN q = 1..Len(q)
    OBVIOUS
  <1>2. Head(q) \in Entry /\ 1 \in DOMAIN q /\ Head(q) = q[1]
    BY <1>1
  <1>3. Tail(q) \in Seq(Entry) /\ DOMAIN Tail(q) = 1..(Len(q) - 1)
    BY <1>1
  <1>4. \A i \in 1..(Len(q) - 1) : Tail(q)[i] = q[i + 1]
    BY <1>1
  <1>5. \A i \in 1..(Len(q) - 1) : i + 1 \in 1..Len(q)
    BY <1>1
  <1> QED BY <1>1, <1>2, <1>3, <1>4, <1>5

LEMMA NextJudged ==
    ASSUME NEW q \in Seq(Judged), q # <<>>
    PROVE  /\ Head(q) \in Judged /\ 1 \in DOMAIN q /\ Head(q) = q[1] /\ Tail(q) \in Seq(Judged)
           /\ \A i \in DOMAIN Tail(q) : i + 1 \in DOMAIN q /\ Tail(q)[i] = q[i + 1]
  <1>1. Len(q) \in Nat /\ Len(q) > 0 /\ DOMAIN q = 1..Len(q)
    OBVIOUS
  <1>2. Head(q) \in Judged /\ 1 \in DOMAIN q /\ Head(q) = q[1]
    BY <1>1
  <1>3. Tail(q) \in Seq(Judged) /\ DOMAIN Tail(q) = 1..(Len(q) - 1)
    BY <1>1
  <1>4. \A i \in 1..(Len(q) - 1) : Tail(q)[i] = q[i + 1]
    BY <1>1
  <1>5. \A i \in 1..(Len(q) - 1) : i + 1 \in 1..Len(q)
    BY <1>1
  <1> QED BY <1>1, <1>2, <1>3, <1>4, <1>5

LEMMA OneMore ==
    ASSUME NEW q \in Seq(Judged), NEW e \in Judged
    PROVE  /\ Append(q, e) \in Seq(Judged)
           /\ \A i \in DOMAIN Append(q, e) : Append(q, e)[i] = e \/ (i \in DOMAIN q /\ Append(q, e)[i] = q[i])
  <1>1. Len(q) \in Nat /\ DOMAIN q = 1..Len(q)
    OBVIOUS
  <1>2. Append(q, e) \in Seq(Judged) /\ DOMAIN Append(q, e) = 1..(Len(q) + 1)
    BY <1>1
  <1>3. Append(q, e)[Len(q) + 1] = e /\ \A i \in 1..Len(q) : Append(q, e)[i] = q[i]
    BY <1>1
  <1>4. \A i \in 1..(Len(q) + 1) : i = Len(q) + 1 \/ i \in 1..Len(q)
    BY <1>1
  <1> QED BY <1>1, <1>2, <1>3, <1>4

LEMMA PruneExpireKeeps ==
    ASSUME RecorderInv, NEW s \in Janitors, PruneExpire(s)
    PROVE  RecorderInv'
  <1> DEFINE j == janitor[s]  of == Head(j.todo)  runs == RunningSession(s, of)
             protected == db[of.id].traded
             entry == [id |-> of.id, protected |-> protected, running |-> runs]
             gone == [j EXCEPT !.pc = "rows", !.of = <<of.id, "expire">>, !.todo = Tail(@)]
             held == [j EXCEPT !.kept = Append(@, entry), !.todo = Tail(@)]
  <1>1. /\ j \in JanitorType /\ Spares(s, j, rec) /\ j.todo \in Seq(Entry) /\ j.kept \in Seq(Judged)
    BY JanitorIs
  <1>2. /\ j.pc = "expire" /\ j.todo # <<>> /\ UNCHANGED <<bus, rec, thin, db, aged, past>>
    BY DEF PruneExpire
  <1>3. janitor' = [janitor EXCEPT ![s] = IF ~runs /\ Expired(of) THEN gone ELSE held]
    BY Zenon DEF PruneExpire
  <1>4. /\ of \in Entry /\ 1 \in DOMAIN j.todo /\ of = j.todo[1] /\ Tail(j.todo) \in Seq(Entry)
        /\ \A i \in DOMAIN Tail(j.todo) : i + 1 \in DOMAIN j.todo /\ Tail(j.todo)[i] = j.todo[i + 1]
    BY <1>1, <1>2, NextEntry
  <1>5. of.id \in Sessions /\ protected \in BOOLEAN /\ runs \in BOOLEAN
    <2>1. of.id \in Sessions /\ of.open \in BOOLEAN
      BY <1>4 DEF Entry
    <2>2. protected \in BOOLEAN
      BY <2>1 DEF RecorderInv, Types, DbType
    <2> HIDE DEF of
    <2> QED BY <2>1, <2>2 DEF RunningSession
  <1>6. runs \/ Over(rec[of.id])
    BY <1>1, <1>4 DEF Spares
  <1>7. \A i \in DOMAIN Tail(j.todo) : RunningSession(s, Tail(j.todo)[i]) \/ Over(rec[Tail(j.todo)[i].id])
    BY <1>1, <1>4 DEF Spares
  <1> HIDE DEF of, runs, protected
  <1>8. entry \in Judged
    BY <1>5 DEF Judged
  <1> HIDE DEF entry
  <1>9. held \in JanitorType /\ Spares(s, held, rec)
    <2>1. held \in JanitorType /\ held.todo = Tail(j.todo) /\ held.kept = Append(j.kept, entry) /\ held.pc = "expire"
      BY <1>1, <1>2, <1>4, <1>8, OneMore DEF JanitorType
    <2> HIDE DEF held
    <2>2. \A i \in DOMAIN j.kept : j.kept[i].running \/ Over(rec[j.kept[i].id])
      BY <1>1 DEF Spares
    <2>3. entry.running \/ Over(rec[entry.id])
      BY <1>6 DEF entry
    <2>4. \A i \in DOMAIN held.kept : held.kept[i].running \/ Over(rec[held.kept[i].id])
      BY <2>1, <2>2, <2>3, <1>1, <1>8, OneMore
    <2> QED BY <2>1, <2>4, <1>7, Zenon DEF Spares
  <1>10. ASSUME ~runs PROVE gone \in JanitorType /\ Spares(s, gone, rec)
    <2>1. <<of.id, "expire">> \in Doomed
      BY <1>5 DEF Doomed
    <2>2. gone \in JanitorType /\ gone.todo = Tail(j.todo) /\ gone.kept = j.kept /\ gone.of = <<of.id, "expire">>
      BY <2>1, <1>1, <1>4 DEF JanitorType
    <2> HIDE DEF gone
    <2>3. Spares(s, gone, rec)
      <3>1. gone.of # <<>> /\ gone.of[1] = of.id
        BY <2>2
      <3>2. \A i \in DOMAIN j.kept : j.kept[i].running \/ Over(rec[j.kept[i].id])
        BY <1>1 DEF Spares
      <3> QED BY <2>2, <3>1, <3>2, <1>6, <1>7, <1>10, Zenon DEF Spares
    <2> QED BY <2>2, <2>3
  <1> HIDE DEF gone, held
  <1>11. \E j2 \in JanitorType : janitor' = [janitor EXCEPT ![s] = j2] /\ Spares(s, j2, rec)
    BY <1>3, <1>9, <1>10
  <1> QED BY <1>2, <1>11, Looked

LEMMA PruneCapKeeps ==
    ASSUME RecorderInv, NEW s \in Janitors, PruneCap(s)
    PROVE  RecorderInv'
  <1> DEFINE j == janitor[s]  of == Head(j.kept)
             left == [j EXCEPT !.kept = Tail(@)]
             gone == [j EXCEPT !.pc = "rows", !.of = <<of.id, "cap">>, !.kept = Tail(@)]
  <1>1. /\ j \in JanitorType /\ Spares(s, j, rec) /\ j.todo \in Seq(Entry) /\ j.kept \in Seq(Judged)
    BY JanitorIs
  <1>2. /\ j.pc = "cap" /\ j.kept # <<>> /\ UNCHANGED <<bus, rec, thin, db, aged, past>>
        /\ janitor' = [janitor EXCEPT ![s] = IF of.protected \/ of.running THEN left ELSE gone]
    BY DEF PruneCap
  <1>3. /\ of \in Judged /\ 1 \in DOMAIN j.kept /\ of = j.kept[1] /\ Tail(j.kept) \in Seq(Judged)
        /\ \A i \in DOMAIN Tail(j.kept) : i + 1 \in DOMAIN j.kept /\ Tail(j.kept)[i] = j.kept[i + 1]
    BY <1>1, <1>2, NextJudged
  <1>4. of.running \/ Over(rec[of.id])
    BY <1>1, <1>3 DEF Spares
  <1>5. /\ \A i \in DOMAIN Tail(j.kept) : Tail(j.kept)[i].running \/ Over(rec[Tail(j.kept)[i].id])
        /\ \A i \in DOMAIN j.todo : RunningSession(s, j.todo[i]) \/ Over(rec[j.todo[i].id])
    BY <1>1, <1>3 DEF Spares
  <1> HIDE DEF of
  <1>6. <<of.id, "cap">> \in Doomed
    BY <1>3 DEF Doomed, Judged
  <1>7. /\ left \in JanitorType /\ left.todo = j.todo /\ left.kept = Tail(j.kept) /\ left.pc = "cap"
        /\ gone \in JanitorType /\ gone.todo = j.todo /\ gone.kept = Tail(j.kept) /\ gone.of = <<of.id, "cap">>
    BY <1>1, <1>2, <1>3, <1>6 DEF JanitorType
  <1> HIDE DEF left, gone
  <1>8. Spares(s, left, rec)
    BY <1>5, <1>7, Zenon DEF Spares
  <1>9. CASE of.running
    <2>1. janitor' = [janitor EXCEPT ![s] = left]
      BY <1>2, <1>9
    <2> QED BY <2>1, <1>2, <1>7, <1>8, Looked
  <1>10. CASE ~of.running
    <2>1. gone.of # <<>> /\ gone.of[1] = of.id
      BY <1>7
    <2>2. Spares(s, gone, rec)
      BY <2>1, <1>4, <1>5, <1>7, <1>10, Zenon DEF Spares
    <2> QED BY <2>2, <1>2, <1>7, <1>8, Looked
  <1> QED BY <1>9, <1>10

\* A janitor deletes from a session, which is over.
LEMMA Deletes ==
    ASSUME RecorderInv, NEW s \in Janitors, NEW x \in Sessions, NEW d, NEW p, NEW j \in JanitorType,
           d \in DbType, p \in PastType, Sound(bus[x], rec[x], thin[x], d, p, aged[x]),
           db' = [db EXCEPT ![x] = d], past' = [past EXCEPT ![x] = p],
           janitor' = [janitor EXCEPT ![s] = j], Spares(s, j, rec), UNCHANGED <<bus, rec, thin, aged>>
    PROVE  RecorderInv'
  <1>1. /\ bus' = [bus EXCEPT ![x] = bus[x]] /\ rec' = [rec EXCEPT ![x] = rec[x]]
        /\ thin' = [thin EXCEPT ![x] = thin[x]] /\ aged' = aged
        /\ Typed(bus[x], rec[x], thin[x], d, p, aged[x])
    BY AtOne DEF Typed
  <1>2. /\ bus' \in [Sessions -> BusType] /\ rec' \in [Sessions -> RecType]
        /\ thin' \in [Sessions -> ThinType] /\ db' \in [Sessions -> DbType]
        /\ past' \in [Sessions -> PastType] /\ aged' \in [Sessions -> Nat]
        /\ \A y \in Sessions : Recorded(y)'
        /\ \A y \in Sessions : Over(rec[y]) => Over(rec'[y])
    BY <1>1, OneSession, Zenon
  <1>3. Spares(s, j, rec')
    OBVIOUS
  <1>4. janitor' \in [Janitors -> JanitorType] /\ \A y \in Janitors : Spares(y, janitor'[y], rec')
    BY <1>2, <1>3, OneJanitor, Zenon
  <1> QED BY <1>2, <1>4 DEF RecorderInv, Types

\* Whom a janitor deletes.
LEMMA DoomedIs ==
    ASSUME RecorderInv, NEW s \in Janitors, janitor[s].pc \in {"rows", "row"}
    PROVE  /\ janitor[s].of[1] \in Sessions /\ janitor[s].of[2] \in {"expire", "cap"}
           /\ Over(rec[janitor[s].of[1]])
  <1>1. janitor[s].of \in {<<>>} \cup Doomed /\ Spares(s, janitor[s], rec)
    BY JanitorIs
  <1>2. janitor[s].of # <<>> /\ Over(rec[janitor[s].of[1]])
    BY <1>1 DEF Spares
  <1> QED BY <1>1, <1>2 DEF Doomed

LEMMA DeleteRowsKeeps ==
    ASSUME RecorderInv, NEW s \in Janitors, DeleteRows(s)
    PROVE  RecorderInv'
  <1> DEFINE x == janitor[s].of[1]  j == [janitor[s] EXCEPT !.pc = "row"]
             d == [db[x] EXCEPT !.events = <<>>, !.blocks = <<>>, !.counted = 0, !.quotes = {}, !.traded = FALSE]
             p == [past[x] EXCEPT !.deleted = TRUE]
  <1>1. x \in Sessions /\ rec[x].pc \in {"done", "crashed"} /\ janitor[s].pc = "rows"
    BY DoomedIs DEF DeleteRows, Over
  <1>2. /\ db' = [db EXCEPT ![x] = d] /\ past' = [past EXCEPT ![x] = p] /\ janitor' = [janitor EXCEPT ![s] = j]
        /\ UNCHANGED <<bus, rec, thin, aged>>
    BY DEF DeleteRows
  <1>3. /\ j \in JanitorType /\ j.todo = janitor[s].todo /\ j.kept = janitor[s].kept /\ j.of = janitor[s].of
    BY JanitorIs DEF JanitorType
  <1>4. Spares(s, j, rec)
    <2>1. j.of # <<>> /\ Over(rec[j.of[1]])
      BY <1>1, <1>3, JanitorIs DEF Spares
    <2> HIDE DEF j
    <2> QED BY <2>1, <1>3, JanitorIs DEF Spares
  <1> HIDE DEF j, x
  <1>5. /\ Typed(bus[x], rec[x], thin[x], db[x], past[x], aged[x])
        /\ Sound(bus[x], rec[x], thin[x], db[x], past[x], aged[x])
    BY <1>1, AtOne
  <1>6. d \in DbType /\ p \in PastType /\ Sound(bus[x], rec[x], thin[x], d, p, aged[x])
    BY <1>1, <1>5, DeletedSound
  <1> HIDE DEF d, p
  <1> QED BY <1>1, <1>2, <1>3, <1>4, <1>6, Deletes, Zenon

LEMMA DeleteRowKeeps ==
    ASSUME RecorderInv, NEW s \in Janitors, DeleteRow(s)
    PROVE  RecorderInv'
  <1> DEFINE x == janitor[s].of[1]
  <1>1. x \in Sessions /\ rec[x].pc \in {"done", "crashed"} /\ janitor[s].of[2] \in {"expire", "cap"}
    BY DoomedIs DEF DeleteRow, Over
  <1>2. CASE db[x].events = <<>>
    <2> DEFINE j == [janitor[s] EXCEPT !.pc = janitor[s].of[2], !.of = <<>>]
               d == [db[x] EXCEPT !.row = "none", !.activity = 0]
    <2>1. /\ db' = [db EXCEPT ![x] = d] /\ janitor' = [janitor EXCEPT ![s] = j]
          /\ UNCHANGED <<bus, rec, thin, aged, past>>
      BY <1>2 DEF DeleteRow
    <2>2. /\ j \in JanitorType /\ j.todo = janitor[s].todo /\ j.kept = janitor[s].kept
          /\ j.pc \notin {"rows", "row"}
      BY <1>1, JanitorIs DEF JanitorType
    <2> HIDE DEF j, x
    <2>3. Spares(s, j, rec)
      BY <2>2, JanitorIs DEF Spares
    <2>4. /\ Typed(bus[x], rec[x], thin[x], db[x], past[x], aged[x])
          /\ Sound(bus[x], rec[x], thin[x], db[x], past[x], aged[x])
          /\ past = [past EXCEPT ![x] = past[x]]
      BY <1>1, AtOne
    <2>5. d \in DbType /\ Sound(bus[x], rec[x], thin[x], d, past[x], aged[x])
      BY <1>1, <2>4, RowGoneSound
    <2> HIDE DEF d
    <2>6. past[x] \in PastType /\ past' = [past EXCEPT ![x] = past[x]]
      BY <2>1, <2>4 DEF Typed
    <2> QED BY <1>1, <2>1, <2>2, <2>3, <2>5, <2>6, Deletes, Zenon
  <1>3. CASE db[x].events # <<>>
    <2> DEFINE j == [Resting EXCEPT !.runs = janitor[s].runs]
    <2>1. j \in JanitorType /\ Spares(s, j, rec)
      BY JanitorIs
    <2>2. janitor' = [janitor EXCEPT ![s] = j] /\ UNCHANGED <<bus, rec, thin, db, aged, past>>
      BY <1>3 DEF DeleteRow
    <2> HIDE DEF j
    <2> QED BY <2>1, <2>2, Looked
  <1> QED BY <1>2, <1>3

\* A step that changes nothing of the sessions but their logs and ages.
LEMMA LogsKept ==
    ASSUME RecorderInv, db' \in [Sessions -> DbType], aged' \in [Sessions -> Nat],
           UNCHANGED <<bus, rec, thin, past>>,
           \A x \in Sessions : Sound(bus[x], rec[x], thin[x], db'[x], past[x], aged'[x]),
           janitor' \in [Janitors -> JanitorType], \A s \in Janitors : Spares(s, janitor'[s], rec)
    PROVE  RecorderInv'
  BY DEF RecorderInv, Types, Recorded

LEMMA PruneDetailKeeps ==
    ASSUME RecorderInv, NEW s \in Janitors, PruneDetail(s)
    PROVE  RecorderInv'
  <1> DEFINE Old(x) == \E i \in DOMAIN janitor[s].kept : janitor[s].kept[i].id = x /\ ~janitor[s].kept[i].protected
             j == [janitor[s] EXCEPT !.pc = "cap"]
  <1>1. /\ db' = [x \in Sessions |-> IF Old(x) THEN WithoutAged(db[x], aged[x]) ELSE db[x]]
        /\ janitor' = [janitor EXCEPT ![s] = j] /\ UNCHANGED <<bus, rec, thin, aged, past>>
    BY DEF PruneDetail
  <1>2. ASSUME NEW x \in Sessions
        PROVE  db'[x] \in DbType /\ Sound(bus[x], rec[x], thin[x], db'[x], past[x], aged[x])
    <2>1. /\ Typed(bus[x], rec[x], thin[x], db[x], past[x], aged[x])
          /\ Sound(bus[x], rec[x], thin[x], db[x], past[x], aged[x])
      BY AtOne
    <2>2. db'[x] = WithoutAged(db[x], aged[x]) \/ db'[x] = db[x]
      BY <1>1
    <2>3. /\ WithoutAged(db[x], aged[x]) \in DbType
          /\ Sound(bus[x], rec[x], thin[x], WithoutAged(db[x], aged[x]), past[x], aged[x])
      BY <2>1, AgedSound
    <2>4. db[x] \in DbType
      BY <2>1 DEF Typed
    <2> QED BY <2>1, <2>2, <2>3, <2>4, Zenon
  <1>3. db' \in [Sessions -> DbType]
    <2>1. \E F : db' = [x \in Sessions |-> F[x]]
      <3>1. db' = [x \in Sessions |-> db'[x]]
        BY <1>1
      <3> QED BY <3>1
    <2> QED BY <2>1, <1>2
  <1>4. /\ j \in JanitorType /\ j.todo = janitor[s].todo /\ j.kept = janitor[s].kept /\ j.pc = "cap"
    BY JanitorIs DEF JanitorType
  <1> HIDE DEF j
  <1>5. Spares(s, j, rec)
    BY <1>4, JanitorIs DEF Spares
  <1>6. janitor' \in [Janitors -> JanitorType] /\ \A y \in Janitors : Spares(y, janitor'[y], rec)
    <2>1. rec' = rec /\ Spares(s, j, rec') /\ \A x \in Sessions : Over(rec[x]) => Over(rec'[x])
      BY <1>1, <1>5
    <2> QED BY <1>1, <1>4, <2>1, OneJanitor
  <1>7. aged' \in [Sessions -> Nat] /\ aged' = aged
    BY <1>1 DEF RecorderInv, Types
  <1> QED BY <1>1, <1>2, <1>3, <1>6, <1>7, LogsKept

----------------------------------------------------------------------------
(* The clock *)

LEMMA ClockKeeps ==
    ASSUME RecorderInv, Hour \/ Days
    PROVE  RecorderInv'
  <1>1. /\ bus \in [Sessions -> BusType] /\ rec \in [Sessions -> RecType]
        /\ thin \in [Sessions -> ThinType] /\ db \in [Sessions -> DbType]
        /\ past \in [Sessions -> PastType] /\ aged \in [Sessions -> Nat]
        /\ janitor \in [Janitors -> JanitorType] /\ UNCHANGED <<bus, rec, thin, janitor, past>>
    BY DEF RecorderInv, Types, Hour, Days
  <1>2. ASSUME NEW x \in Sessions
        PROVE  /\ db'[x] \in DbType /\ aged'[x] \in Nat
               /\ Sound(bus[x], rec[x], thin[x], db'[x], past[x], aged'[x])
    <2>1. /\ Typed(bus[x], rec[x], thin[x], db[x], past[x], aged[x])
          /\ Sound(bus[x], rec[x], thin[x], db[x], past[x], aged[x])
      BY AtOne
    <2>2. aged'[x] = aged[x] \/ aged'[x] = rec[x].seq
      BY <1>1 DEF Hour, Days
    <2>3. \E n \in Nat :
             \/ db'[x] = db[x]
             \/ /\ db'[x] = [db[x] EXCEPT !.activity = n] /\ db[x].row # "none"
                /\ ~(rec[x].pc \in {"run", "join"} /\ db[x].row = "open")
      <3>1. CASE Hour
        BY <3>1 DEF Hour, Listed, Beats, Alive
      <3>2. CASE Days
        BY <3>2 DEF Days, Listed, Beats, Alive
      <3> QED BY <3>1, <3>2
    <2> QED BY <2>1, <2>2, <2>3, OlderSound
  <1>3. db' \in [Sessions -> DbType]
    <2>1. db' = [x \in Sessions |-> db'[x]]
      BY DEF Hour, Days
    <2> QED BY <2>1, <1>2
  <1>4. aged' \in [Sessions -> Nat]
    <2>1. aged' = [x \in Sessions |-> aged'[x]]
      BY <1>1 DEF Hour, Days
    <2> QED BY <2>1, <1>2
  <1>5. janitor' \in [Janitors -> JanitorType] /\ \A s \in Janitors : Spares(s, janitor'[s], rec)
    BY <1>1 DEF RecorderInv
  <1> QED BY <1>1, <1>2, <1>3, <1>4, <1>5, LogsKept

----------------------------------------------------------------------------
(* The theorems *)

LEMMA RecorderStart == Init => RecorderInv
  <1> SUFFICES ASSUME Init PROVE RecorderInv
    OBVIOUS
  <1> DEFINE r == [pc |-> "off", seq |-> 0, buf |-> <<>>, stop |-> FALSE]
             p == [written |-> {}, thinned |-> 0, failed |-> 0, expired |-> {}, deleted |-> FALSE]
  <1>1. /\ bus = [s \in Sessions |-> NewBus] /\ rec = [s \in Sessions |-> r] /\ thin = [s \in Sessions |-> Fresh]
        /\ db = [s \in Sessions |-> NoRows] /\ past = [s \in Sessions |-> p] /\ aged = [s \in Sessions |-> 0]
        /\ janitor = [s \in Janitors |-> IF s = Command THEN Resting ELSE NotRunning]
    BY DEF Init, Janitors
  <1>2. <<>> \in Rows /\ <<>> \in Seq(Rows)
    BY DEF Rows
  <1>3. r \in RecType
    BY <1>2 DEF RecType
  <1>4. NoRows \in DbType
    BY <1>2 DEF NoRows, DbType
  <1>5. p \in PastType
    BY DEF PastType
  <1>6. Types
    BY <1>1, <1>3, <1>4, <1>5, StartTyped DEF Types
  <1>7. Sound(NewBus, r, Fresh, NoRows, p, 0)
    <2>1. Fits(NewBus, r, NoRows, p)
      BY DEF Fits, NewBus, NoRows
    <2>2. Numbered(r, p, 0)
      BY DEF Numbered
    <2>3. Faithful(NoRows, p, 0)
      <3>1. InOrder(NoRows)
        BY DEF InOrder, Rising, NoRows
      <3>2. \A e : ~Holds(NoRows, e)
        BY DEF Holds, InBlocks, InTail, NoRows
      <3> QED BY <3>1, <3>2 DEF Faithful
    <2>4. SkippedLast(NewBus, r)
      BY DEF SkippedLast, NewBus
    <2>5. Quoted(NewBus, r, Fresh, NoRows, p, 0)
      BY DEF Quoted
    <2>6. Counted(NewBus, r, NoRows, p)
      BY DEF Counted, Balanced, NewBus, NoRows
    <2> QED BY <2>1, <2>2, <2>3, <2>4, <2>5, <2>6 DEF Sound
  <1> HIDE DEF r, p
  <1>8. \A s \in Sessions : Recorded(s)
    BY <1>1, <1>7 DEF Recorded
  <1>9. \A s \in Janitors : Spares(s, janitor[s], rec)
    <2>1. \A s \in Janitors : janitor[s] \in {Resting, NotRunning}
      BY <1>1
    <2>2. \A s : Spares(s, Resting, rec) /\ Spares(s, NotRunning, rec)
      BY DEF Spares, Resting, NotRunning
    <2> QED BY <2>1, <2>2
  <1> QED BY <1>6, <1>8, <1>9 DEF RecorderInv

LEMMA RecorderNext == RecorderInv /\ [Next]_vars => RecorderInv'
  <1> SUFFICES ASSUME RecorderInv, [Next]_vars PROVE RecorderInv'
    OBVIOUS
  <1>1. ASSUME NEW s \in Sessions, NEW kind \in Kinds, Emit(s, kind) PROVE RecorderInv'
    BY <1>1, EmitKeeps
  <1>2. ASSUME NEW s \in Sessions, Stop(s) PROVE RecorderInv'
    BY <1>2, StopKeeps
  <1>3. ASSUME NEW s \in Sessions, Begin(s) PROVE RecorderInv'
    BY <1>3, BeginKeeps
  <1>4. ASSUME NEW s \in Sessions, Crash(s) PROVE RecorderInv'
    BY <1>4, CrashKeeps
  <1>5. ASSUME NEW s \in Sessions, Unopened(s) \/ Disconnected(s) \/ Drained(s) PROVE RecorderInv'
    BY <1>5, MoveKeeps
  <1>6. ASSUME NEW s \in Sessions, Receive(s) PROVE RecorderInv'
    BY <1>6, ReceiveKeeps
  <1>7. ASSUME NEW s \in Sessions, Flush(s) PROVE RecorderInv'
    BY <1>7, FlushKeeps
  <1>8. ASSUME NEW s \in Sessions, Join(s) PROVE RecorderInv'
    BY <1>8, JoinKeeps
  <1>9. ASSUME NEW s \in Janitors, PruneBegin(s) PROVE RecorderInv'
    BY <1>9, PruneBeginKeeps
  <1>10. ASSUME NEW s \in Janitors, JanitorStep(s) PROVE RecorderInv'
    <2>1. CASE JanitorExit(s)
      BY <2>1, JanitorExitKeeps
    <2>2. CASE PruneExpire(s)
      BY <2>2, PruneExpireKeeps
    <2>3. CASE DeleteRows(s)
      BY <2>3, DeleteRowsKeeps
    <2>4. CASE DeleteRow(s)
      BY <2>4, DeleteRowKeeps
    <2>5. CASE PruneDetail(s)
      BY <2>5, PruneDetailKeeps
    <2>6. CASE PruneCap(s)
      BY <2>6, PruneCapKeeps
    <2>7. CASE PruneEnd(s)
      BY <2>7, PruneEndKeeps
    <2> QED BY <1>10, <2>1, <2>2, <2>3, <2>4, <2>5, <2>6, <2>7 DEF JanitorStep
  <1>11. ASSUME Hour \/ Days PROVE RecorderInv'
    BY <1>11, ClockKeeps
  <1>12. CASE UNCHANGED vars
    BY <1>12 DEF vars, RecorderInv, Types, Recorded
  <1> QED BY <1>1, <1>2, <1>3, <1>4, <1>5, <1>6, <1>7, <1>8, <1>9, <1>10, <1>11, <1>12
          DEF Next, RecorderStep, Janitors

LEMMA RecorderHolds == RecorderInv => RecordIsThere /\ LossIsCounted
  <1> SUFFICES ASSUME RecorderInv PROVE RecordIsThere /\ LossIsCounted
    OBVIOUS
  <1>1. ASSUME NEW s \in Sessions
        PROVE  /\ Fits(bus[s], rec[s], db[s], past[s]) /\ Faithful(db[s], past[s], aged[s])
               /\ Quoted(bus[s], rec[s], thin[s], db[s], past[s], aged[s])
               /\ Counted(bus[s], rec[s], db[s], past[s])
               /\ db[s] \in DbType /\ past[s] \in PastType /\ aged[s] \in Nat
    BY AtOne DEF Sound, Typed
  <1>2. LiveSessionKept
    BY <1>1 DEF LiveSessionKept, Alive, Fits
  <1>3. ReplayIsFaithful
    <2>1. ASSUME NEW s \in Sessions, ~past[s].deleted
          PROVE  /\ \A i, k \in DOMAIN Replay(db[s]) : i < k => Replay(db[s])[i].seq < Replay(db[s])[k].seq
                 /\ ToSet(Replay(db[s])) \subseteq past[s].written
                 /\ \A e \in past[s].written : e.seq > aged[s] => e \in ToSet(Replay(db[s]))
      BY <2>1, <1>1, FaithfulReplay
    <2> QED BY <2>1, Zenon DEF ReplayIsFaithful
  <1>4. NotableKeepsQuotes
    <2>1. SUFFICES ASSUME NEW s \in Sessions, Alive(s), thin[s].notable, past[s].failed = 0,
                          NEW e \in past[s].written, e.kind = "raw", e.seq > aged[s], e.seq \notin past[s].expired
                   PROVE  e.seq \in db[s].quotes
      BY DEF NotableKeepsQuotes
    <2>2. e \in Raws(past[s])
      BY <2>1 DEF Raws
    <2> QED BY <2>1, <2>2, <1>1 DEF Quoted, Alive
  <1>5. LossIsCounted
    <2>1. SUFFICES ASSUME NEW s \in Sessions, db[s].row = "ended"
                   PROVE  db[s].dropped + db[s].total + past[s].thinned + past[s].failed = bus[s].emitted
      BY DEF LossIsCounted
    <2> DEFINE e == bus[s].emitted  x == db[s].dropped  c == db[s].total  h == past[s].thinned  f == past[s].failed
    <2>2. Balanced(e, x, 0, 0, c, h, f)
      BY <2>1, <1>1 DEF Counted
    <2>3. e \in Nat /\ x \in Nat /\ c \in Nat /\ h \in Nat /\ f \in Nat
      BY AtOne DEF Typed, BusType, DbType, PastType
    <2> HIDE DEF e, x, c, h, f
    <2>4. x + c + h + f = e
      BY ONLY <2>2, <2>3, BalanceClosed
    <2> QED BY <2>4 DEF e, x, c, h, f
  <1> QED BY <1>2, <1>3, <1>4, <1>5 DEF RecordIsThere

\* What was recorded is there: no janitor, and no --prune of the command line,
\* deletes a session that is being recorded, the replay of a session is what was
\* written of it, in order, and a notable opportunity has its quotes (prune,
\* write_batch, compact, load_events), for any number of instances on one
\* database and any sizes of queue, batch and block.
THEOREM RecordsAreThere == Spec => []RecordIsThere
  <1>1. Spec => []RecorderInv
    BY RecorderStart, RecorderNext, PTL DEF Spec
  <1>2. RecorderInv => RecordIsThere
    BY RecorderHolds
  <1> QED BY <1>1, <1>2, PTL

\* A closed session accounts for every event its bus was given: recorded,
\* thinned out, dropped at the full queue or lost with a batch (emit, flush,
\* end_session).
THEOREM LossesAreCounted == Spec => []LossIsCounted
  <1>1. Spec => []RecorderInv
    BY RecorderStart, RecorderNext, PTL DEF Spec
  <1>2. RecorderInv => LossIsCounted
    BY RecorderHolds
  <1> QED BY <1>1, <1>2, PTL
=============================================================================
