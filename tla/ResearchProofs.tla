--------------------------- MODULE ResearchProofs ---------------------------
(***************************************************************************)
(* Proofs about the lab and the research commands, each part on its own.   *)
(*                                                                         *)
(*   Desk            for any runs, rules files, budgets, wallets and       *)
(*                   numbers of programs: the page tells which program     *)
(*                   trades, and what all runs bought is in the wallet     *)
(*                   while no program leaves a swap open.                  *)
(*   Measure, Pools  for any window, pools and prices: a measurement says  *)
(*                   what it measured.                                     *)
(***************************************************************************)
EXTENDS Desk, Pools, WellFoundedInduction, FiniteSetTheorems, TLAPS

\* The desk on its own.
DeskSpec == DeskInit /\ [][DeskStep]_deskVars

----------------------------------------------------------------------------
(* Sums over the runs *)

LEMMA LeastOf ==
    ASSUME NEW T \in SUBSET Nat, T # {}
    PROVE  \E x \in T : \A y \in T : x <= y
  <1>1. PICK x \in T : \A y \in T : ~(<<y, x>> \in OpToRel(<, Nat))
    BY NatLessThanWellFounded, WFMin
  <1>2. \A y \in T : ~(y < x)
    BY <1>1 DEF OpToRel
  <1> HIDE <1>1
  <1> QED BY <1>2

LEMMA SetInduction ==
    ASSUME NEW S, 0 \in S, \A n \in Nat : n \in S => n + 1 \in S
    PROVE  \A n \in Nat : n \in S
  <1> DEFINE T == {n \in Nat : n \notin S}
  <1>1. SUFFICES ASSUME T # {} PROVE FALSE
    OBVIOUS
  <1>2. PICK x \in T : \A y \in T : x <= y
    BY <1>1, LeastOf
  <1>3. x # 0 /\ x - 1 \in Nat
    BY <1>2
  <1>4. x - 1 \in S
    BY <1>2, <1>3
  <1> QED BY <1>2, <1>3, <1>4

\* Where every bag of runs with one run fewer is good, all are.
LEMMA RunsInduction ==
    ASSUME NEW R, IsFiniteSet(R), NEW Good \in SUBSET (SUBSET R), {} \in Good,
           \A T \in SUBSET R, x \in R : T \in Good /\ x \notin T => T \cup {x} \in Good
    PROVE  \A T \in SUBSET R : T \in Good
  <1> DEFINE S == {n \in Nat : \A T \in SUBSET R : Cardinality(T) = n => T \in Good}
  <1>1. \A T \in SUBSET R : IsFiniteSet(T) /\ Cardinality(T) \in Nat
    BY FS_Subset, FS_CardinalityType
  <1>2. 0 \in S
    BY <1>1, FS_EmptySet
  <1>3. ASSUME NEW n \in Nat, n \in S PROVE n + 1 \in S
    <2>1. SUFFICES ASSUME NEW T \in SUBSET R, Cardinality(T) = n + 1 PROVE T \in Good
      OBVIOUS
    <2>2. T # {}
      BY <2>1, FS_EmptySet
    <2>3. PICK x \in T : TRUE
      BY <2>2
    <2>4. Cardinality(T \ {x}) = n
      <3>1. Cardinality(T \ {x}) = Cardinality(T) - 1
        BY <2>3, <1>1, FS_RemoveElement
      <3> QED BY <3>1, <2>1
    <2>5. T \ {x} \in Good /\ x \in R /\ (T \ {x}) \cup {x} = T
      BY <2>3, <2>4, <1>3
    <2> QED
      BY <2>5
  <1> HIDE DEF S
  <1>4. \A n \in Nat : n \in S
    BY <1>2, <1>3, SetInduction
  <1> QED
    BY <1>1, <1>4 DEF S

Picked(s) == CHOOSE x \in s : TRUE

\* A function that sums w over every part of S, one picked member at a time.
Sums(S, w, g) == g = [s \in SUBSET S |-> IF s = {} THEN 0 ELSE w[Picked(s)] + g[s \ {Picked(s)}]]

LEMMA SumsExist ==
    ASSUME NEW R, IsFiniteSet(R), NEW w \in [R -> Int]
    PROVE  \E g \in [SUBSET R -> Int] : Sums(R, w, g)
  <1> DEFINE Small(n) == {s \in SUBSET R : Cardinality(s) <= n}
             Fits(n, g) == /\ g \in [Small(n) -> Int]
                           /\ \A s \in Small(n) :
                                g[s] = IF s = {} THEN 0 ELSE w[Picked(s)] + g[s \ {Picked(s)}]
             S == {n \in Nat : \E g : Fits(n, g)}
  <1>1. \A s \in SUBSET R : IsFiniteSet(s) /\ Cardinality(s) \in Nat
    BY FS_Subset, FS_CardinalityType
  <1>2. \A s \in SUBSET R : s # {} => Picked(s) \in s /\ Picked(s) \in R
    BY DEF Picked
  <1>3. ASSUME NEW n \in Nat, NEW s \in Small(n + 1), s # {}
        PROVE  s \ {Picked(s)} \in Small(n)
    <2>1. Cardinality(s \ {Picked(s)}) = Cardinality(s) - 1
      BY <1>1, <1>2, <1>3, FS_RemoveElement
    <2> QED
      BY <2>1, <1>1
  <1>4. 0 \in S
    <2>1. \A s \in Small(0) : s = {}
      BY <1>1, FS_EmptySet
    <2>2. Fits(0, [s \in Small(0) |-> 0])
      BY <2>1
    <2> QED
      BY <2>2
  <1>5. ASSUME NEW n \in Nat, n \in S PROVE n + 1 \in S
    <2>1. PICK g : Fits(n, g)
      BY <1>5
    <2> DEFINE h == [s \in Small(n + 1) |-> IF s = {} THEN 0 ELSE w[Picked(s)] + g[s \ {Picked(s)}]]
    <2>2. h \in [Small(n + 1) -> Int]
      <3>1. ASSUME NEW s \in Small(n + 1), s # {} PROVE w[Picked(s)] + g[s \ {Picked(s)}] \in Int
        <4>1. w[Picked(s)] \in Int /\ g[s \ {Picked(s)}] \in Int
          BY <3>1, <1>2, <1>3, <2>1
        <4> QED BY <4>1
      <3>2. \A s \in Small(n + 1) :
              (IF s = {} THEN 0 ELSE w[Picked(s)] + g[s \ {Picked(s)}]) \in Int
        BY <3>1
      <3> HIDE DEF Small
      <3> QED BY <3>2
    <2>3. \A s \in Small(n) : s \in Small(n + 1) /\ h[s] = g[s]
      <3>1. \A s \in Small(n) : s \in Small(n + 1)
        BY <1>1
      <3> QED BY <3>1, <2>1
    <2>4. \A s \in Small(n + 1) : h[s] = IF s = {} THEN 0 ELSE w[Picked(s)] + h[s \ {Picked(s)}]
      <3>1. ASSUME NEW s \in Small(n + 1), s # {} PROVE h[s \ {Picked(s)}] = g[s \ {Picked(s)}]
        BY <3>1, <1>3, <2>3
      <3> HIDE DEF Small
      <3> QED BY <3>1
    <2>5. Fits(n + 1, h)
      BY <2>2, <2>4
    <2> HIDE DEF Fits, h
    <2> QED BY <2>5
  <1> HIDE DEF S
  <1>6. \A n \in Nat : n \in S
    BY <1>4, <1>5, SetInduction
  <1>7. PICK g : Fits(Cardinality(R), g)
    BY <1>6, FS_CardinalityType DEF S
  <1>8. Small(Cardinality(R)) = SUBSET R
    BY FS_Subset
  <1>9. Sums(R, w, g) /\ g \in [SUBSET R -> Int]
    BY <1>7, <1>8 DEF Sums
  <1> QED
    BY <1>9

\* In whatever order they are picked.
LEMMA SumsAdd ==
    ASSUME NEW R, IsFiniteSet(R), NEW w \in [R -> Int]
    PROVE  \E g \in [SUBSET R -> Int] :
             /\ Sums(R, w, g)
             /\ g[{}] = 0
             /\ \A T \in SUBSET R, x \in R : x \notin T => g[T \cup {x}] = g[T] + w[x]
  <1>0. PICK g \in [SUBSET R -> Int] : Sums(R, w, g)
    BY SumsExist
  <1>1. /\ g[{}] = 0
        /\ \A s \in SUBSET R : s # {} => Picked(s) \in s /\ g[s] = w[Picked(s)] + g[s \ {Picked(s)}]
    BY <1>0 DEF Sums, Picked
  <1> DEFINE Adds(T) == \A x \in R : x \notin T => g[T \cup {x}] = g[T] + w[x]
             S == {n \in Nat : \A T \in SUBSET R : Cardinality(T) = n => Adds(T)}
  <1>2. \A T \in SUBSET R : IsFiniteSet(T) /\ Cardinality(T) \in Nat
    BY FS_Subset, FS_CardinalityType
  <1>3. \A T \in SUBSET R : g[T] \in Int
    OBVIOUS
  <1>4. 0 \in S
    <2>1. SUFFICES ASSUME NEW x \in R PROVE g[{} \cup {x}] = g[{}] + w[x]
      BY <1>2, FS_EmptySet
    <2>2. Picked({x}) = x /\ {x} \ {x} = {} /\ {x} \in SUBSET R
      BY DEF Picked
    <2>3. g[{x}] = w[x] + g[{}]
      BY <1>1, <2>2
    <2>4. {} \cup {x} = {x} /\ w[x] \in Int
      OBVIOUS
    <2> QED
      BY <2>3, <2>4, <1>1
  <1>5. ASSUME NEW n \in Nat, n \in S PROVE n + 1 \in S
    <2>1. SUFFICES ASSUME NEW T \in SUBSET R, Cardinality(T) = n + 1, NEW x \in R, x \notin T
                   PROVE g[T \cup {x}] = g[T] + w[x]
      OBVIOUS
    <2> DEFINE U == T \cup {x}
               c == Picked(U)
    <2>2. U \in SUBSET R /\ U # {} /\ c \in U /\ g[U] = w[c] + g[U \ {c}] /\ c \in R
      <3>1. U \in SUBSET R /\ U # {}
        OBVIOUS
      <3> HIDE DEF U
      <3> QED BY <3>1, <1>1
    <2>3. CASE c = x
      <3>1. U \ {x} = T
        BY <2>1
      <3>2. w[x] \in Int /\ g[T] \in Int
        OBVIOUS
      <3>3. g[U] = w[x] + g[U \ {x}]
        <4> HIDE DEF c, U
        <4> QED BY <2>2, <2>3
      <3>4. g[U] = w[x] + g[T]
        <4> HIDE DEF c, U
        <4> QED BY <3>1, <3>3
      <3> HIDE DEF c, U
      <3>5. g[U] = g[T] + w[x]
        BY <3>2, <3>4
      <3> QED
        BY <3>5 DEF U
    <2>4. CASE c # x
      <3> DEFINE V == T \ {c}
      <3>1. c \in T /\ V \in SUBSET R /\ U \ {c} = V \cup {x} /\ T = V \cup {c} /\ x \notin V /\ c \notin V
        <4>1. c \in T \cup {x} /\ c # x
          BY <2>2, <2>4
        <4> HIDE DEF c
        <4> QED BY <2>1, <4>1
      <3>2. Cardinality(V) = n
        <4> HIDE DEF c
        <4>1. Cardinality(V) = Cardinality(T) - 1
          BY <3>1, <1>2, FS_RemoveElement
        <4> HIDE DEF V
        <4> QED BY <2>1, <4>1
      <3>3. g[V \cup {x}] = g[V] + w[x] /\ g[V \cup {c}] = g[V] + w[c]
        BY <1>5, <2>2, <3>1, <3>2
      <3>4. g[U] = w[c] + (g[V] + w[x]) /\ g[T] = g[V] + w[c]
        BY <2>2, <3>1, <3>3
      <3>5. w[c] \in Int /\ w[x] \in Int /\ g[V] \in Int
        BY <2>2, <3>1
      <3> HIDE DEF V, c, U
      <3>6. g[U] = g[T] + w[x]
        BY <3>4, <3>5
      <3> QED
        BY <3>6 DEF U
    <2> QED
      BY <2>3, <2>4
  <1> HIDE DEF S
  <1>6. \A n \in Nat : n \in S
    BY <1>4, <1>5, SetInduction
  <1>7. \A T \in SUBSET R : Adds(T)
    BY <1>2, <1>6 DEF S
  <1> QED
    BY <1>0, <1>1, <1>7

\* The SOL of some runs, as the code and the invariant sum it.
SolOf(c, T) == MapThenSumSet(LAMBDA r : c[r].sol, T)

LEMMA SolIsSum ==
    ASSUME NEW R, IsFiniteSet(R), NEW c, \A r \in R : c[r].sol \in Int, NEW T \in SUBSET R,
           NEW g \in [SUBSET R -> Int], Sums(R, [r \in R |-> c[r].sol], g)
    PROVE  SolOf(c, T) = g[T]
  <1> DEFINE Eq(f) == f = [s \in SUBSET T |->
                             IF s = {} THEN 0
                             ELSE c[CHOOSE x \in s : TRUE].sol + f[s \ {CHOOSE x \in s : TRUE}]]
             it == [s \in SUBSET T |-> g[s]]
             w == [r \in R |-> c[r].sol]
  <1>1. ASSUME NEW s \in SUBSET T, s # {}
        PROVE  /\ Picked(s) \in s /\ Picked(s) \in R /\ s \ {Picked(s)} \in SUBSET T
               /\ g[s] = c[Picked(s)].sol + g[s \ {Picked(s)}]
    <2>1. Picked(s) \in s /\ Picked(s) \in R /\ s \in SUBSET R
      BY <1>1 DEF Picked
    <2>2. g[s] = w[Picked(s)] + g[s \ {Picked(s)}]
      BY <2>1, <1>1 DEF Sums
    <2> QED
      BY <2>1, <2>2
  <1>2. g[{}] = 0
    BY DEF Sums
  <1>3. Eq(it)
    <2>1. \A s \in SUBSET T : s # {} => it[s] = c[Picked(s)].sol + it[s \ {Picked(s)}]
      BY <1>1
    <2>2. \A s \in SUBSET T : it[s] = IF s = {} THEN 0 ELSE c[Picked(s)].sol + it[s \ {Picked(s)}]
      <3>1. it[{}] = 0
        BY <1>2
      <3> HIDE DEF it
      <3> QED BY <2>1, <3>1
    <2>3. it = [s \in SUBSET T |-> it[s]]
      OBVIOUS
    <2> HIDE DEF it
    <2> QED
      BY <2>2, <2>3 DEF Picked
  <1>4. SolOf(c, T) = (CHOOSE f : Eq(f))[T]
    BY DEF SolOf, MapThenSumSet, MapThenFoldSet
  <1> HIDE DEF it, Eq
  <1>5. Eq(CHOOSE f : Eq(f))
    BY <1>3
  <1> DEFINE f == CHOOSE f : Eq(f)
  <1> HIDE DEF f
  <1>6. Eq(f) /\ SolOf(c, T) = f[T]
    BY <1>4, <1>5 DEF f
  <1>7. \A s \in SUBSET T : f[s] = IF s = {} THEN 0 ELSE c[Picked(s)].sol + f[s \ {Picked(s)}]
    BY <1>6 DEF Eq, Picked
  <1> DEFINE S == {n \in Nat : \A s \in SUBSET T : Cardinality(s) = n => f[s] = g[s]}
  <1>8. \A s \in SUBSET T : IsFiniteSet(s) /\ Cardinality(s) \in Nat
    BY FS_Subset, FS_CardinalityType
  <1>9. 0 \in S
    BY <1>2, <1>7, <1>8, FS_EmptySet
  <1>10. ASSUME NEW n \in Nat, n \in S PROVE n + 1 \in S
    <2>1. SUFFICES ASSUME NEW s \in SUBSET T, Cardinality(s) = n + 1 PROVE f[s] = g[s]
      OBVIOUS
    <2>2. s # {}
      <3>1. SUFFICES ASSUME s = {} PROVE FALSE
        OBVIOUS
      <3>2. Cardinality({}) = 0
        BY FS_EmptySet
      <3>3. n + 1 = 0
        BY <2>1, <3>1, <3>2
      <3> HIDE DEF S
      <3> QED BY <3>3
    <2>3. Picked(s) \in s /\ s \ {Picked(s)} \in SUBSET T
      BY <2>2, <1>1
    <2>4. Cardinality(s \ {Picked(s)}) = Cardinality(s) - 1
      BY <2>3, <1>8, FS_RemoveElement
    <2>5. f[s \ {Picked(s)}] = g[s \ {Picked(s)}]
      BY <1>10, <2>1, <2>3, <2>4
    <2> QED
      BY <1>1, <1>7, <2>2, <2>5
  <1> HIDE DEF S
  <1>11. \A n \in Nat : n \in S
    BY <1>9, <1>10, SetInduction
  <1>12. f[T] = g[T]
    BY <1>8, <1>11 DEF S
  <1> QED
    BY <1>6, <1>12

\* What a sum does: a number, that of no run, and one run more.
LEMMA SolAdds ==
    ASSUME NEW R, IsFiniteSet(R), NEW c, \A r \in R : c[r].sol \in Int
    PROVE  /\ SolOf(c, {}) = 0
           /\ \A T \in SUBSET R : SolOf(c, T) \in Int
           /\ \A T \in SUBSET R, x \in R : x \notin T => SolOf(c, T \cup {x}) = SolOf(c, T) + c[x].sol
  <1>1. PICK w : w = [r \in R |-> c[r].sol]
    OBVIOUS
  <1>2. w \in [R -> Int]
    BY <1>1
  <1>3. PICK g \in [SUBSET R -> Int] :
          /\ Sums(R, w, g)
          /\ g[{}] = 0
          /\ \A T \in SUBSET R, x \in R : x \notin T => g[T \cup {x}] = g[T] + w[x]
    BY <1>2, SumsAdd
  <1>4. \A T \in SUBSET R : SolOf(c, T) = g[T]
    <2>1. Sums(R, [r \in R |-> c[r].sol], g)
      BY <1>1, <1>3
    <2> HIDE <1>3
    <2> QED BY <2>1, SolIsSum
  <1>6. SolOf(c, {}) = 0
    BY <1>4, <1>3
  <1>7. \A T \in SUBSET R : SolOf(c, T) \in Int
    BY <1>4
  <1>8. ASSUME NEW T \in SUBSET R, NEW x \in R, x \notin T
        PROVE  SolOf(c, T \cup {x}) = SolOf(c, T) + c[x].sol
    <2>1. T \cup {x} \in SUBSET R
      OBVIOUS
    <2> QED
      BY <1>1, <1>4, <1>3, <1>8, <2>1
  <1> QED
    BY <1>6, <1>7, <1>8

\* Runs without SOL may be left out, and the sum looks at nothing else.
LEMMA SolOfSome ==
    ASSUME NEW R, IsFiniteSet(R), NEW c, NEW d, NEW U \in SUBSET R,
           \A r \in R : c[r].sol \in Int /\ d[r].sol \in Int,
           \A r \in U : c[r].sol = d[r].sol, \A r \in R \ U : d[r].sol = 0
    PROVE  SolOf(c, U) = SolOf(d, R)
  <1>0. /\ \A T \in SUBSET R, x \in R : x \notin T => SolOf(c, T \cup {x}) = SolOf(c, T) + c[x].sol
        /\ \A T \in SUBSET R, x \in R : x \notin T => SolOf(d, T \cup {x}) = SolOf(d, T) + d[x].sol
        /\ \A T \in SUBSET R : SolOf(c, T) \in Int /\ SolOf(d, T) \in Int
    <2>1. (\A r \in R : c[r].sol \in Int) /\ (\A r \in R : d[r].sol \in Int)
      OBVIOUS
    <2> QED
      BY <2>1, SolAdds
  <1> DEFINE Good == {T \in SUBSET R : SolOf(c, T \cap U) = SolOf(d, T)}
  <1>1. {} \in Good
    <2>1. {} \cap U = {} /\ SolOf(c, {}) = 0 /\ SolOf(d, {}) = 0
      BY SolAdds
    <2> QED BY <2>1
  <1>2. ASSUME NEW T \in SUBSET R, NEW x \in R, T \in Good, x \notin T
        PROVE  T \cup {x} \in Good
    <2>1. SolOf(d, T \cup {x}) = SolOf(d, T) + d[x].sol /\ SolOf(d, T) \in Int
      BY <1>2, <1>0
    <2>2. CASE x \in U
      <3>1. (T \cup {x}) \cap U = (T \cap U) \cup {x} /\ x \notin T \cap U
        BY <1>2, <2>2
      <3>2. SolOf(c, (T \cap U) \cup {x}) = SolOf(c, T \cap U) + c[x].sol
        <4>1. T \cap U \in SUBSET R
          OBVIOUS
        <4> QED BY <3>1, <4>1, <1>0
      <3> QED
        BY <1>2, <2>1, <2>2, <3>1, <3>2
    <2>3. CASE x \notin U
      <3>1. (T \cup {x}) \cap U = T \cap U /\ d[x].sol = 0
        BY <2>3
      <3> QED
        <4>1. SolOf(d, T \cup {x}) = SolOf(d, T)
          BY <2>1, <3>1
        <4>2. SolOf(c, (T \cup {x}) \cap U) = SolOf(c, T \cap U)
          BY <3>1
        <4> QED BY <1>2, <4>1, <4>2
    <2> QED
      BY <2>2, <2>3
  <1> HIDE DEF Good
  <1>3. R \in Good
    BY <1>1, <1>2, RunsInduction DEF Good
  <1>4. R \cap U = U
    OBVIOUS
  <1> QED
    BY <1>3, <1>4 DEF Good

----------------------------------------------------------------------------
(* Who trades *)

Places == {"off", "gone", "load", "lock", "hold"} \cup Trading
Programs == [pc : Places, file : Files \cup {NoFile}, run : Runs \cup {NoRun},
             close : BOOLEAN, others : Int, tried : Int, to : Int,
             first : BOOLEAN, stop : BOOLEAN]
Opens == [open : BOOLEAN, sol : Int, usdc : Int]
Recs == [funded : BOOLEAN, ended : BOOLEAN, cash : Int, sol : Int,
         budget : Int, mode : {"close", "price"}, pending : Opens]

\* What is on the disk and on the chain.
DataTyped ==
    /\ file \in [Files -> Runs \cup {NoRun}] /\ path \in [Runs -> Files \cup {NoFile}]
    /\ rec \in [Runs -> Recs] /\ recorded \in SUBSET Runs
    /\ wish \in [Runs -> Nat] /\ actsWish \in [Runs -> {"none", "close", "price"}]
    /\ holder \in [pid : Pids, run : Runs] \cup {[pid |-> 0, run |-> NoRun]}
    /\ wallet \in [sol : Int, usdc : Int] /\ air \in [Runs -> Int]

\* What a program's place says of the lock, of the file of who holds it and of
\* the runs begun; held and known are lock, holder and recorded.
Placed(p, x, held, said, known) ==
    /\ x.pc \in {"hold"} \cup Trading => held = p
    /\ x.pc \in Trading => said = [pid |-> p, run |-> x.run]
    /\ x.pc \notin {"off", "gone"} => x.file \in Files
    /\ x.pc \notin {"off", "gone", "load"} => x.run \in Runs
    /\ x.pc \in Trading \ {"open"} => x.run \in known

EveryPlace == \A p \in Pids : Placed(p, proc[p], lock, holder, recorded)

TraderInv == DataTyped /\ proc \in [Pids -> Programs] /\ EveryPlace

\* A program moves; the lock was its or nobody's if it changes hands, and what
\* the file says of the holder changes only under the lock.
Moves(p, x) ==
    /\ p \in Pids /\ x \in Programs /\ proc' = [proc EXCEPT ![p] = x]
    /\ lock' = lock \/ lock \in {0, p}
    /\ holder' = holder \/ lock = p
    /\ recorded \subseteq recorded'
    /\ Placed(p, x, lock', holder', recorded')

LEMMA Moved ==
    ASSUME proc \in [Pids -> Programs], EveryPlace, NEW p, NEW x, Moves(p, x)
    PROVE  proc' \in [Pids -> Programs] /\ EveryPlace'
  <1>1. proc' \in [Pids -> Programs] /\ proc'[p] = x /\ \A q \in Pids \ {p} : proc'[q] = proc[q]
    BY DEF Moves
  <1>2. ASSUME NEW q \in Pids, q # p PROVE Placed(q, proc[q], lock', holder', recorded')
    <2>1. Placed(q, proc[q], lock, holder, recorded)
      BY DEF EveryPlace
    <2>2. q # 0
      BY DeskAssumption DEF Pids
    <2>3. proc[q].pc \in {"hold"} \cup Trading => lock' = lock /\ holder' = holder
      BY <2>1, <2>2, <1>2 DEF Placed, Moves
    <2> QED
      BY <2>1, <2>3 DEF Placed, Moves, Trading
  <1> QED
    BY <1>1, <1>2 DEF EveryPlace, Moves

LEMMA NobodyStarted == NotBegun \in Programs /\ [NotBegun EXCEPT !.pc = "gone"] \in Programs
  <1>1. NotBegun \in Programs
    BY DEF NotBegun, Programs, Places
  <1>2. "gone" \in Places
    BY DEF Places
  <1> QED
    BY <1>1, <1>2 DEF Programs

\* A process gone leaves its lock.
LEMMA GoneMoves ==
    ASSUME NEW p \in Pids, proc \in [Pids -> Programs], Gone(p),
           recorded \subseteq recorded', UNCHANGED holder
    PROVE  Moves(p, [NotBegun EXCEPT !.pc = "gone"])
  BY NobodyStarted DEF Gone, Moves, Placed, NotBegun, Trading

\* A program that goes on to another place, and keeps what its place asks for.
LEMMA StepMoves ==
    ASSUME TraderInv, NEW p \in Pids, NEW x \in Programs, proc' = [proc EXCEPT ![p] = x],
           proc[p].pc \notin {"off", "gone"}, x.file = proc[p].file,
           x.run = proc[p].run, x.run \in Runs,
           UNCHANGED <<lock, holder>>, recorded \subseteq recorded',
           x.pc \in {"hold"} \cup Trading => proc[p].pc \in {"hold"} \cup Trading,
           x.pc \in Trading => proc[p].pc \in Trading,
           x.pc \in Trading \ {"open"} => x.run \in recorded'
    PROVE  Moves(p, x)
  <1>1. Placed(p, proc[p], lock, holder, recorded)
    BY DEF TraderInv, EveryPlace
  <1> QED
    BY <1>1 DEF Moves, Placed

LEMMA ProgramAt ==
    ASSUME TraderInv, NEW p \in Pids
    PROVE  /\ proc[p] \in Programs
           /\ Placed(p, proc[p], lock, holder, recorded)
           /\ [proc EXCEPT ![p] = proc[p]] = proc
           /\ p # 0
  BY DeskAssumption DEF TraderInv, EveryPlace, Pids

\* The steps of a program that stays alive.
LEMMA LoadMoves ==
    ASSUME TraderInv, NEW p \in Pids, Load(p)
    PROVE  \E x : Moves(p, x)
  <1>1. proc[p] \in Programs /\ Placed(p, proc[p], lock, holder, recorded)
    BY ProgramAt
  <1>2. CASE file[proc[p].file] = NoRun
    <2>1. Gone(p) /\ UNCHANGED <<recorded, holder>>
      BY <1>2 DEF Load, Exit, disk
    <2> QED
      BY <2>1, GoneMoves DEF TraderInv
  <1>3. CASE file[proc[p].file] # NoRun
    <2>1. proc[p].pc = "load" /\ proc[p].file \in Files /\ file[proc[p].file] \in Runs
      BY <1>1, <1>3 DEF Load, Placed, TraderInv, DataTyped
    <2> DEFINE x == [proc[p] EXCEPT !.pc = "lock", !.run = file[proc[p].file]]
    <2>2. proc' = [proc EXCEPT ![p] = x] /\ UNCHANGED <<lock, holder, recorded>>
      BY <1>3 DEF Load, disk, TraderInv
    <2>3. x \in Programs /\ x.pc = "lock" /\ x.file \in Files /\ x.run \in Runs
      BY <1>1, <2>1 DEF Programs, Places
    <2>4. Moves(p, x)
      <3> HIDE DEF x
      <3> QED BY <2>2, <2>3 DEF Moves, Placed, Trading
    <2> QED
      BY <2>4
  <1> QED
    BY <1>2, <1>3

LEMMA TakeLockMoves ==
    ASSUME TraderInv, NEW p \in Pids, TakeLock(p)
    PROVE  \E x : Moves(p, x)
  <1>1. proc[p] \in Programs /\ Placed(p, proc[p], lock, holder, recorded)
    BY ProgramAt
  <1>2. CASE lock # 0
    <2>1. Gone(p) /\ UNCHANGED <<recorded, holder>>
      BY <1>2 DEF TakeLock, Exit, disk
    <2> QED
      BY <2>1, GoneMoves DEF TraderInv
  <1>3. CASE lock = 0
    <2>1. proc[p].pc = "lock" /\ proc[p].file \in Files /\ proc[p].run \in Runs
      BY <1>1 DEF TakeLock, Placed
    <2> DEFINE x == [proc[p] EXCEPT !.pc = "hold"]
    <2>2. proc' = [proc EXCEPT ![p] = x] /\ lock' = p /\ UNCHANGED <<holder, recorded>>
      BY <1>3 DEF TakeLock, Goto, disk, TraderInv
    <2>3. x \in Programs /\ x.pc = "hold" /\ x.file \in Files /\ x.run \in Runs
      BY <1>1, <2>1 DEF Programs, Places
    <2>4. Moves(p, x)
      <3> HIDE DEF x
      <3> QED BY <2>2, <2>3, <1>3 DEF Moves, Placed, Trading
    <2> QED
      BY <2>4
  <1> QED
    BY <1>2, <1>3

LEMMA HoldMoves ==
    ASSUME TraderInv, NEW p \in Pids, Hold(p)
    PROVE  (\E x : Moves(p, x)) /\ DataTyped'
  <1>1. proc[p] \in Programs /\ Placed(p, proc[p], lock, holder, recorded)
    BY ProgramAt
  <1>2. proc[p].pc = "hold" /\ proc[p].file \in Files /\ proc[p].run \in Runs /\ lock = p
    BY <1>1 DEF Hold, Placed
  <1> DEFINE x == [proc[p] EXCEPT !.pc = "open"]
  <1>3. /\ proc' = [proc EXCEPT ![p] = x] /\ UNCHANGED <<lock, recorded>>
        /\ holder' = [pid |-> p, run |-> proc[p].run]
    BY DEF Hold, Goto, disk, TraderInv
  <1>4. x \in Programs /\ x.pc = "open" /\ x.file \in Files /\ x.run = proc[p].run
    BY <1>1, <1>2 DEF Programs, Places, Trading
  <1>5. Moves(p, x)
    <2> HIDE DEF x
    <2> QED BY <1>2, <1>3, <1>4 DEF Moves, Placed, Trading
  <1>6. DataTyped'
    BY <1>2 DEF Hold, TraderInv, DataTyped
  <1> QED
    BY <1>5, <1>6

LEMMA OpenMoves ==
    ASSUME TraderInv, NEW p \in Pids, Open(p), HeldByOthers(proc[p].run) \in Int
    PROVE  \E x : Moves(p, x)
  <1>1. proc[p] \in Programs /\ Placed(p, proc[p], lock, holder, recorded)
    BY ProgramAt
  <1> DEFINE r == proc[p].run
  <1>2. proc[p].pc = "open" /\ proc[p].file \in Files /\ r \in Runs
    BY <1>1 DEF Open, Placed
  <1>3. CASE rec[r].ended
    <2>1. Gone(p) /\ recorded \subseteq recorded' /\ UNCHANGED holder
      BY <1>3 DEF Open
    <2> QED
      BY <2>1, GoneMoves DEF TraderInv
  <1>4. CASE ~rec[r].ended
    <2> DEFINE x == [proc[p] EXCEPT !.pc = IF proc[p].close THEN "close" ELSE "count",
                                    !.others = HeldByOthers(r)]
    <2>1. proc' = [proc EXCEPT ![p] = x] /\ recorded' = recorded \cup {r}
      BY <1>4 DEF Open, TraderInv
    <2>2. UNCHANGED <<lock, holder>>
      BY <1>4 DEF Open
    <2>3. x \in Programs /\ x.file = proc[p].file /\ x.run = r
      BY <1>1 DEF Programs, Places, Trading
    <2>4. x.pc \in Trading
      BY <1>1 DEF Trading, Programs
    <2>5. Moves(p, x)
      <3> HIDE DEF x
      <3> QED BY <1>2, <2>1, <2>2, <2>3, <2>4, StepMoves DEF Trading
    <2> QED
      BY <2>5
  <1> QED
    BY <1>3, <1>4

LEMMA HeldIsNumber ==
    ASSUME TraderInv, NEW r
    PROVE  /\ HeldByOthers(r) = SolOf(rec, {q \in recorded \ {r} : ~rec[q].ended})
           /\ HeldByOthers(r) \in Int
  <1>1. \A q \in Runs : rec[q].sol \in Int
    BY DEF TraderInv, DataTyped, Recs
  <1>2. {q \in recorded \ {r} : ~rec[q].ended} \in SUBSET Runs
    BY DEF TraderInv, DataTyped
  <1>3. HeldByOthers(r) = SolOf(rec, {q \in recorded \ {r} : ~rec[q].ended})
    BY DEF HeldByOthers, SolOf
  <1> QED
    BY <1>1, <1>2, <1>3, SolAdds, DeskAssumption

\* A program that trades goes on trading the same run, or ends.
Trades(p) ==
    /\ proc[p].pc \in Trading \ {"open"}
    /\ UNCHANGED <<holder, recorded>>
    /\ \/ Gone(p)
       \/ /\ UNCHANGED lock
          /\ \E x \in Programs : /\ proc' = [proc EXCEPT ![p] = x]
                                 /\ x.pc \in Trading \ {"open"}
                                 /\ x.file = proc[p].file /\ x.run = proc[p].run

LEMMA TradesMoves ==
    ASSUME TraderInv, NEW p \in Pids, Trades(p)
    PROVE  \E x : Moves(p, x)
  <1>1. proc[p] \in Programs /\ Placed(p, proc[p], lock, holder, recorded)
    BY ProgramAt
  <1>2. /\ proc[p].run \in Runs /\ proc[p].run \in recorded
        /\ proc[p].pc \in {"hold"} \cup Trading /\ proc[p].pc \notin {"off", "gone"}
    BY <1>1 DEF Trades, Placed, Trading
  <1>3. CASE Gone(p)
    BY <1>3, GoneMoves DEF Trades, TraderInv
  <1>4. CASE ~Gone(p)
    <2>1. PICK x \in Programs :
            /\ proc' = [proc EXCEPT ![p] = x] /\ x.pc \in Trading \ {"open"}
            /\ x.file = proc[p].file /\ x.run = proc[p].run
      BY <1>4 DEF Trades
    <2>2. UNCHANGED <<lock, holder, recorded>>
      BY <1>4 DEF Trades
    <2>3. Moves(p, x)
      BY <1>1, <1>2, <2>1, <2>2, StepMoves DEF Trades
    <2> QED
      BY <2>3
  <1> QED
    BY <1>3, <1>4

\* The steps of a program that trades.
TradeStep(p) ==
    \/ CloseRun(p) \/ Countdown(p) \/ Setup(p) \/ Rebudget(p) \/ Fund(p) \/ Stops(p) \/ Ends(p)
    \/ TurnActs(p) \/ TurnWish(p) \/ Bar(p)

LEMMA TradeSteps ==
    ASSUME TraderInv, NEW p \in Pids, TradeStep(p)
    PROVE  Trades(p)
  <1> DEFINE Fields(x) == x.file = proc[p].file /\ x.run = proc[p].run
             Goes(x) == /\ x \in Programs /\ proc' = [proc EXCEPT ![p] = x]
                        /\ x.pc \in Trading \ {"open"} /\ Fields(x)
  <1>1. proc[p] \in Programs /\ Placed(p, proc[p], lock, holder, recorded) /\ [proc EXCEPT ![p] = proc[p]] = proc
    BY ProgramAt
  <1>2. {"close", "count", "setup", "rebudget", "fund", "loop"} = Trading \ {"open"}
    BY DEF Trading
  <1>3. Trading \subseteq Places
    BY DEF Places
  <1>4. proc[p].pc \in Trading => proc[p].run \in Runs
    BY <1>1 DEF Placed, Trading
  <1>5. CASE CloseRun(p)
    BY <1>2, <1>5 DEF CloseRun, Trades, Others
  <1>6. CASE Countdown(p)
    <2> DEFINE x == [proc[p] EXCEPT !.pc = "setup", !.first = TRUE]
    <2>1. proc' = [proc EXCEPT ![p] = x] /\ UNCHANGED <<lock, holder, recorded>> /\ proc[p].pc = "count"
      BY <1>6 DEF Countdown, disk, TraderInv
    <2>2. x \in Programs /\ x.pc = "setup" /\ Fields(x)
      BY <1>1, <1>2, <1>3 DEF Programs
    <2> HIDE DEF x
    <2> QED
      BY <1>2, <2>1, <2>2 DEF Trades
  <1>7. CASE Setup(p)
    <2> DEFINE r == proc[p].run
               x == [proc[p] EXCEPT !.pc = IF wish[r] # 0 THEN "rebudget" ELSE "fund",
                                    !.to = wish[r], !.tried = wish[r]]
    <2>1. proc' = [proc EXCEPT ![p] = x] /\ UNCHANGED <<lock, holder, recorded>> /\ proc[p].pc = "setup"
      BY <1>7 DEF Setup, Others, TraderInv
    <2>2. wish[r] \in Int
      BY <1>4, <2>1 DEF TraderInv, DataTyped, Trading
    <2>3. x \in Programs /\ x.pc \in {"rebudget", "fund"} /\ Fields(x)
      BY <1>1, <1>2, <1>3, <2>2 DEF Programs
    <2> HIDE DEF x
    <2> QED
      BY <1>2, <2>1, <2>3 DEF Trades
  <1>8. CASE Rebudget(p)
    <2> DEFINE x == [proc[p] EXCEPT !.pc = IF proc[p].first THEN "fund" ELSE "loop"]
    <2>1. proc' = [proc EXCEPT ![p] = x] /\ UNCHANGED <<lock, holder, recorded>> /\ proc[p].pc = "rebudget"
      BY <1>8 DEF Rebudget, AfterWish, Goto, Others, TraderInv
    <2>2. x \in Programs /\ x.pc \in {"fund", "loop"} /\ Fields(x)
      BY <1>1, <1>2, <1>3 DEF Programs
    <2> HIDE DEF x
    <2> QED
      BY <1>2, <2>1, <2>2 DEF Trades
  <1>9. CASE Fund(p)
    <2> DEFINE x == [proc[p] EXCEPT !.pc = "loop", !.first = FALSE]
    <2>1. proc' = [proc EXCEPT ![p] = x] /\ UNCHANGED <<lock, holder, recorded>> /\ proc[p].pc = "fund"
      BY <1>9 DEF Fund, Others, TraderInv
    <2>2. x \in Programs /\ x.pc = "loop" /\ Fields(x)
      BY <1>1, <1>2, <1>3 DEF Programs
    <2> HIDE DEF x
    <2> QED
      BY <1>2, <2>1, <2>2 DEF Trades
  <1>10. CASE Stops(p) \/ Ends(p)
    BY <1>2, <1>10 DEF Stops, Ends, Exit, disk, Trades
  <1>11. CASE TurnActs(p)
    <2>1. Goes(proc[p]) /\ UNCHANGED <<lock, holder, recorded>>
      BY <1>1, <1>2, <1>11 DEF TurnActs, Turn, Others
    <2> QED
      BY <1>2, <1>11, <2>1 DEF Trades, TurnActs, Turn
  <1>12. CASE TurnWish(p)
    <2> DEFINE x == [proc[p] EXCEPT !.pc = "rebudget", !.to = wish[proc[p].run], !.tried = wish[proc[p].run]]
    <2>1. proc' = [proc EXCEPT ![p] = x] /\ UNCHANGED <<lock, holder, recorded>> /\ proc[p].pc = "loop"
      BY <1>12 DEF TurnWish, Turn, disk, TraderInv
    <2>2. wish[proc[p].run] \in Int
      BY <1>4, <2>1 DEF TraderInv, DataTyped, Trading
    <2>3. x \in Programs /\ x.pc = "rebudget" /\ Fields(x)
      BY <1>1, <1>2, <1>3, <2>2 DEF Programs
    <2> HIDE DEF x
    <2> QED
      BY <1>2, <2>1, <2>3 DEF Trades
  <1>13. CASE Bar(p)
    <2> DEFINE x == [proc[p] EXCEPT !.tried = 0]
    <2>1. proc' = [proc EXCEPT ![p] = x] /\ UNCHANGED <<lock, holder, recorded>> /\ proc[p].pc = "loop"
      BY <1>13 DEF Bar, Turn, Others, TraderInv
    <2>2. x \in Programs /\ x.pc = "loop" /\ Fields(x)
      BY <1>1, <1>2, <1>3, <2>1 DEF Programs
    <2> HIDE DEF x
    <2> QED
      BY <1>2, <2>1, <2>2 DEF Trades
  <1> QED
    BY <1>5, <1>6, <1>7, <1>8, <1>9, <1>10, <1>11, <1>12, <1>13 DEF TradeStep

LEMMA LargestOfTwo ==
    ASSUME NEW a \in Int, NEW b \in Int
    PROVE  Max({a, b}) \in Int /\ Max({a, b}) >= a /\ Max({a, b}) >= b /\ Max({a, b}) \in {a, b}
  <1>1. \E x \in {a, b} : \A y \in {a, b} : x >= y
    <2>1. CASE a >= b
      BY <2>1
    <2>2. CASE b > a
      BY <2>2
    <2> QED
      BY <2>1, <2>2
  <1> DEFINE m == CHOOSE x \in {a, b} : \A y \in {a, b} : x >= y
  <1>2. m \in {a, b} /\ \A y \in {a, b} : m >= y
    BY <1>1
  <1>3. Max({a, b}) = m
    BY DEF Max
  <1> HIDE DEF m
  <1> QED
    BY <1>2, <1>3

LEMMA AtLeastZero ==
    ASSUME NEW a \in Int
    PROVE  Max({a, 0}) \in Int /\ Max({a, 0}) >= a /\ Max({a, 0}) >= 0 /\ Max({a, 0}) \in {a, 0}
  <1>1. 0 \in Int
    OBVIOUS
  <1> QED
    BY <1>1, LargestOfTwo

\* Amounts may be written down again.
LEMMA RecsChange ==
    ASSUME NEW x \in Recs, NEW cash \in Int
    PROVE  /\ \A sol \in Int : [x EXCEPT !.cash = cash, !.sol = sol] \in Recs
           /\ \A sol \in Int : [x EXCEPT !.sol = sol, !.cash = cash] \in Recs
  BY DEF Recs

LEMMA RecsEmptied ==
    ASSUME NEW x \in Recs, NEW n \in Int
    PROVE  /\ [x EXCEPT !.cash = n, !.sol = 0] \in Recs
           /\ [x EXCEPT !.sol = n, !.cash = 0] \in Recs
  <1>1. PICK z \in Int : z = 0
    OBVIOUS
  <1>2. [x EXCEPT !.cash = n, !.sol = z] \in Recs /\ [x EXCEPT !.sol = n, !.cash = z] \in Recs
    BY RecsChange
  <1> QED
    BY <1>1, <1>2

LEMMA ReconciledTyped ==
    ASSUME TraderInv, NEW r \in Runs
    PROVE  Reconciled(r) \in Recs
  <1>1. rec[r] \in Recs /\ wallet.usdc \in Int /\ wallet.sol \in Int
    BY DEF TraderInv, DataTyped
  <1>2. rec[r].pending \in Opens /\ NoOpen \in Opens
    BY <1>1 DEF Recs, Opens, NoOpen
  <1>3. CASE ~rec[r].pending.open
    BY <1>1, <1>3 DEF Reconciled
  <1>4. CASE rec[r].pending.open /\ Shows(r)
    <2> DEFINE s == [rec[r] EXCEPT !.cash = @ - (rec[r].pending.usdc - wallet.usdc),
                                   !.sol = @ + (wallet.sol - rec[r].pending.sol), !.pending = NoOpen]
    <2>1. Reconciled(r) = s
      BY <1>4 DEF Reconciled
    <2>2. rec[r].pending.usdc \in Int /\ rec[r].pending.sol \in Int /\ rec[r].cash \in Int /\ rec[r].sol \in Int
      BY <1>1, <1>2 DEF Opens, Recs
    <2>3. rec[r].cash - (rec[r].pending.usdc - wallet.usdc) \in Int
          /\ rec[r].sol + (wallet.sol - rec[r].pending.sol) \in Int
      BY <1>1, <2>2
    <2> QED
      BY <1>1, <1>2, <2>1, <2>3 DEF Recs
  <1>5. CASE rec[r].pending.open /\ ~Shows(r)
    BY <1>1, <1>2, <1>5 DEF Reconciled, Recs
  <1> QED
    BY <1>3, <1>4, <1>5

\* What a step that trades may do to what is saved and to the wallet.
LEMMA BooksTyped ==
    ASSUME TraderInv, NEW r \in Runs, NEW s \in Recs, Save(r, s), UNCHANGED Others,
           wallet' \in [sol : Int, usdc : Int], wish' \in [Runs -> Nat],
           actsWish' \in [Runs -> {"none", "close", "price"}], air' \in [Runs -> Int]
    PROVE  DataTyped'
  BY DEF TraderInv, DataTyped, Save, Others

LEMMA SalesTyped ==
    ASSUME TraderInv, NEW n \in Int, WalletSells(n)
    PROVE  wallet' \in [sol : Int, usdc : Int]
  <1>1. wallet \in [sol : Int, usdc : Int]
    BY DEF TraderInv, DataTyped
  <1> QED
    BY <1>1 DEF WalletSells

LEMMA TradeTyped ==
    ASSUME TraderInv, NEW p \in Pids, TradeStep(p)
    PROVE  DataTyped'
  <1> DEFINE r == proc[p].run
             s == Reconciled(r)
  <1>1. proc[p] \in Programs /\ proc[p].pc \in Trading /\ r \in Runs /\ proc[p].to \in Int
    <2>1. proc[p].pc \in Trading
      BY TradeSteps DEF Trades
    <2> QED
      BY <2>1, ProgramAt DEF Placed, Trading, Programs
  <1>2. /\ s \in Recs /\ rec[r] \in Recs
        /\ s.cash \in Int /\ s.sol \in Int /\ s.budget \in Int /\ rec[r].budget \in Int
        /\ wallet \in [sol : Int, usdc : Int] /\ wallet.sol \in Int /\ wallet.usdc \in Int
        /\ wish \in [Runs -> Nat] /\ actsWish \in [Runs -> {"none", "close", "price"}]
        /\ air \in [Runs -> Int]
    BY <1>1, ReconciledTyped DEF TraderInv, DataTyped, Recs
  <1>3. ASSUME NEW x \in Recs, NEW b \in BOOLEAN PROVE [SellsAll(x) EXCEPT !.ended = b] \in Recs
    <2>1. x.cash + x.sol \in Int
      BY <1>3 DEF Recs
    <2>2. SellsAll(x) = [x EXCEPT !.cash = x.cash + x.sol, !.sol = 0]
      BY DEF SellsAll
    <2>3. SellsAll(x) \in Recs
      <3>1. [x EXCEPT !.cash = x.cash + x.sol, !.sol = 0] \in Recs
        BY <1>3, <2>1, RecsEmptied
      <3> QED BY <2>2, <3>1
    <2> QED
      BY <2>3 DEF Recs
  <1> HIDE DEF s
  <1>4. CASE CloseRun(p)
    <2>1. UNCHANGED <<Others, wish, actsWish, air>>
      BY <1>4 DEF CloseRun
    <2>2. CASE Save(r, [SellsAll(s) EXCEPT !.ended = TRUE]) /\ WalletSells(s.sol)
      BY <1>1, <1>2, <1>3, <2>1, <2>2, BooksTyped, SalesTyped
    <2>3. CASE Save(r, s) /\ UNCHANGED wallet
      BY <1>1, <1>2, <2>1, <2>3, BooksTyped
    <2> QED
      BY <1>4, <2>2, <2>3 DEF CloseRun, s
  <1>5. CASE Countdown(p) \/ Stops(p) \/ Ends(p) \/ TurnWish(p)
    <2>1. UNCHANGED <<disk, wallet, air>>
      BY <1>5 DEF Countdown, Stops, Ends, TurnWish, Exit
    <2> QED
      BY <2>1 DEF disk, DataTyped, TraderInv
  <1>6. ASSUME NEW x \in Recs PROVE ChangeActs(r, x) \in Recs
    <2>1. actsWish[r] \in {"none", "close", "price"}
      BY <1>1, <1>2
    <2> QED
      BY <1>6, <2>1 DEF ChangeActs, Recs
  <1>7. CASE Setup(p)
    <2>1. /\ Save(r, ChangeActs(r, s)) /\ actsWish' = [actsWish EXCEPT ![r] = "none"]
          /\ UNCHANGED <<Others, wish, wallet, air>>
      BY <1>7 DEF Setup, s
    <2>2. actsWish' \in [Runs -> {"none", "close", "price"}]
      BY <1>2, <2>1
    <2> QED
      BY <1>1, <1>2, <1>6, <2>1, <2>2, BooksTyped
  <1>8. CASE TurnActs(p)
    <2>1. /\ Save(r, ChangeActs(r, rec[r])) /\ actsWish' = [actsWish EXCEPT ![r] = "none"]
          /\ UNCHANGED <<Others, wish, wallet, air>>
      BY <1>8 DEF TurnActs
    <2>2. actsWish' \in [Runs -> {"none", "close", "price"}]
      BY <1>2, <2>1
    <2> QED
      BY <1>1, <1>2, <1>6, <2>1, <2>2, BooksTyped
  <1>9. CASE Rebudget(p)
    <2> DEFINE to == proc[p].to
               more == to - s.budget
               free == Max({wallet.usdc - s.cash, 0})
    <2>1. UNCHANGED <<Others, actsWish, air>> /\ more \in Int /\ free \in Int
      <3>1. wallet.usdc - s.cash \in Int /\ more \in Int
        BY <1>1, <1>2
      <3>2. free \in Int
        BY <3>1, AtLeastZero
      <3> QED
        BY <1>9, <3>1, <3>2 DEF Rebudget
    <2>2. wish' \in [Runs -> Nat]
      <3>1. wish' = wish \/ wish' = [wish EXCEPT ![r] = 0]
        BY <1>9 DEF Rebudget, Waits, WishGone
      <3> QED
        BY <3>1, <1>2
    <2>3. s \in Recs /\ [s EXCEPT !.budget = to] \in Recs /\ [s EXCEPT !.budget = to, !.cash = @ + more] \in Recs
      <3>1. s.cash + more \in Int /\ to \in Int
        BY <1>1, <1>2, <2>1
      <3> HIDE DEF more, to
      <3> QED
        BY <1>2, <3>1 DEF Recs
    <2>4. CASE /\ UNCHANGED wallet
               /\ \/ Save(r, s) \/ Save(r, [s EXCEPT !.budget = to])
                  \/ Save(r, [s EXCEPT !.budget = to, !.cash = @ + more])
      <3> HIDE DEF r, more, free
      <3> QED
        BY <1>1, <1>2, <2>1, <2>2, <2>3, <2>4, BooksTyped
    <2>5. CASE WalletSells(more - free) /\ Save(r, [s EXCEPT !.budget = to, !.cash = @ + more])
      <3>1. more - free \in Int
        BY <2>1
      <3> HIDE DEF r, more, free
      <3> QED
        BY <1>1, <1>2, <2>1, <2>2, <2>3, <2>5, <3>1, BooksTyped, SalesTyped
    <2> QED
      BY <1>9, <2>4, <2>5 DEF Rebudget, s
  <1>10. CASE Fund(p)
    <2> DEFINE lacks == Max({rec[r].budget - wallet.usdc, 0})
    <2>1. UNCHANGED <<Others, wish, actsWish, air>> /\ lacks \in Int
      <3>1. rec[r].budget - wallet.usdc \in Int
        BY <1>2
      <3>2. lacks \in Int
        BY <3>1, AtLeastZero
      <3> QED
        BY <1>10, <3>2 DEF Fund
    <2>2. CASE Save(r, [rec[r] EXCEPT !.funded = TRUE, !.cash = rec[r].budget]) /\ WalletSells(lacks)
      <3>1. [rec[r] EXCEPT !.funded = TRUE, !.cash = rec[r].budget] \in Recs
        BY <1>2 DEF Recs
      <3> HIDE DEF r, lacks
      <3> QED
        BY <1>1, <1>2, <2>1, <2>2, <3>1, BooksTyped, SalesTyped
    <2>3. CASE UNCHANGED <<rec, wallet>>
      BY <2>1, <2>3 DEF Others, DataTyped, TraderInv
    <2> QED
      BY <1>10, <2>2, <2>3 DEF Fund
  <1>11. CASE Bar(p)
    <2> DEFINE lacks == Max({s.budget - wallet.usdc, 0})
    <2>1. UNCHANGED <<Others, wish, actsWish>> /\ lacks \in Int
      <3>1. s.budget - wallet.usdc \in Int
        BY <1>2
      <3>2. lacks \in Int
        BY <3>1, AtLeastZero
      <3> QED
        BY <1>11, <3>2 DEF Bar
    <2>2. /\ [s EXCEPT !.funded = TRUE, !.cash = s.budget] \in Recs
          /\ [s EXCEPT !.sol = @ + s.cash, !.cash = 0] \in Recs
          /\ [s EXCEPT !.pending = [open |-> TRUE, sol |-> wallet.sol, usdc |-> wallet.usdc]] \in Recs
      <3>1. s.sol + s.cash \in Int
        BY <1>2
      <3>2. [open |-> TRUE, sol |-> wallet.sol, usdc |-> wallet.usdc] \in Opens
        BY <1>2 DEF Opens
      <3> QED
        <4>1. [s EXCEPT !.funded = TRUE, !.cash = s.budget] \in Recs
          BY <1>2 DEF Recs
        <4>2. [s EXCEPT !.sol = s.sol + s.cash, !.cash = 0] \in Recs
          BY <1>2, <3>1, RecsEmptied
        <4>3. [s EXCEPT !.pending = [open |-> TRUE, sol |-> wallet.sol, usdc |-> wallet.usdc]] \in Recs
          BY <1>2, <3>2 DEF Recs
        <4> QED
          BY <4>1, <4>2, <4>3
    <2>3. -s.cash \in Int
      BY <1>2
    <2>4. CASE Save(r, s) /\ UNCHANGED <<wallet, air>>
      BY <1>1, <1>2, <2>1, <2>4, BooksTyped
    <2>5. CASE Save(r, [s EXCEPT !.funded = TRUE, !.cash = s.budget]) /\ WalletSells(lacks) /\ UNCHANGED air
      <3> HIDE DEF r, lacks
      <3> QED
        BY <1>1, <1>2, <2>1, <2>2, <2>5, BooksTyped, SalesTyped
    <2>6. CASE Save(r, [s EXCEPT !.sol = @ + s.cash, !.cash = 0]) /\ WalletSells(-s.cash) /\ UNCHANGED air
      <3> HIDE DEF r
      <3> QED
        BY <1>1, <1>2, <2>1, <2>2, <2>3, <2>6, BooksTyped, SalesTyped
    <2>7. CASE /\ Save(r, [s EXCEPT !.pending = [open |-> TRUE, sol |-> wallet.sol, usdc |-> wallet.usdc]])
               /\ air' = [air EXCEPT ![r] = s.cash] /\ UNCHANGED wallet
      <3>1. air' \in [Runs -> Int]
        BY <1>2, <2>7
      <3> HIDE DEF r
      <3> QED
        BY <1>1, <1>2, <2>1, <2>2, <2>7, <3>1, BooksTyped
    <2>8. CASE /\ WalletSells(s.sol) /\ UNCHANGED air
               /\ \E ended \in BOOLEAN : Save(r, [SellsAll(s) EXCEPT !.ended = ended])
      <3> HIDE DEF r
      <3> QED
        BY <1>1, <1>2, <1>3, <2>1, <2>8, BooksTyped, SalesTyped
    <2> QED
      BY <1>11, <2>4, <2>5, <2>6, <2>7, <2>8 DEF Bar, s
  <1> QED
    BY <1>4, <1>5, <1>7, <1>8, <1>9, <1>10, <1>11 DEF TradeStep

LEMMA WorksKeeps ==
    ASSUME TraderInv, NEW p \in Pids, DeskWorks(p)
    PROVE  TraderInv'
  <1>1. CASE Load(p)
    <2>1. DataTyped'
      <3>1. UNCHANGED <<disk, wallet, air>>
        BY <1>1 DEF Load, Exit
      <3> QED BY <3>1 DEF disk, DataTyped, TraderInv
    <2> QED BY <1>1, <2>1, LoadMoves, Moved DEF TraderInv
  <1>2. CASE TakeLock(p)
    <2>1. DataTyped'
      <3>1. UNCHANGED <<disk, wallet, air>>
        BY <1>2 DEF TakeLock, Exit
      <3> QED BY <3>1 DEF disk, DataTyped, TraderInv
    <2> QED BY <1>2, <2>1, TakeLockMoves, Moved DEF TraderInv
  <1>3. CASE Hold(p)
    BY <1>3, HoldMoves, Moved DEF TraderInv
  <1>4. CASE Open(p)
    <2>1. proc[p].run \in Runs
      BY <1>4, ProgramAt DEF Open, Placed
    <2>2. DataTyped'
      BY <1>4, <2>1 DEF Open, DataTyped, TraderInv
    <2>3. \E x : Moves(p, x)
      BY <1>4, HeldIsNumber, OpenMoves
    <2> QED BY <2>2, <2>3, Moved DEF TraderInv
  <1>5. CASE TradeStep(p)
    BY <1>5, TradeTyped, TradeSteps, TradesMoves, Moved DEF TraderInv
  <1> QED
    BY <1>1, <1>2, <1>3, <1>4, <1>5 DEF DeskWorks, TradeStep

\* Ctrl-C reaches a program that trades, or one that may be ended at once.
LEMMA InterruptKeeps ==
    ASSUME TraderInv, NEW p \in Pids, Alive(p), Interrupt(p), UNCHANGED <<disk, wallet, air>>
    PROVE  TraderInv'
  <1>1. DataTyped' /\ UNCHANGED <<holder, recorded>> /\ recorded \subseteq recorded'
    BY DEF disk, DataTyped, TraderInv
  <1>2. proc[p] \in Programs /\ Placed(p, proc[p], lock, holder, recorded)
    BY ProgramAt
  <1>3. CASE Gone(p)
    BY <1>1, <1>3, GoneMoves, Moved DEF TraderInv
  <1>4. CASE UNCHANGED <<proc, lock>>
    BY <1>1, <1>4 DEF TraderInv, EveryPlace
  <1>5. CASE ~Gone(p) /\ ~UNCHANGED <<proc, lock>>
    <2>1. /\ proc[p].pc \notin {"load", "lock", "hold", "open", "close", "count"}
          /\ proc' = [proc EXCEPT ![p].stop = TRUE] /\ lock' = lock
      BY <1>5 DEF Interrupt
    <2>2. proc[p].pc \in Trading \ {"open"}
      BY <1>2, <2>1 DEF Alive, Programs, Places, Trading
    <2> DEFINE x == [proc[p] EXCEPT !.stop = TRUE]
    <2>3. proc' = [proc EXCEPT ![p] = x]
      BY <2>1 DEF TraderInv
    <2>4. x \in Programs /\ x.pc = proc[p].pc /\ x.file = proc[p].file /\ x.run = proc[p].run
      BY <1>2 DEF Programs
    <2> HIDE DEF x
    <2>5. Trades(p)
      BY <1>1, <2>1, <2>2, <2>3, <2>4 DEF Trades
    <2> QED
      BY <1>1, <2>5, TradesMoves, Moved DEF TraderInv
  <1> QED
    BY <1>3, <1>4, <1>5

LEMMA SpawnKeeps ==
    ASSUME TraderInv, NEW f \in Files, NEW close \in BOOLEAN, Spawn(f, close)
    PROVE  TraderInv' /\ \E p \in Pids, x \in Programs :
                            /\ proc[p].pc = "off" /\ x.pc = "load" /\ Moves(p, x)
                            /\ proc' = [proc EXCEPT ![p] = x]
  <1> DEFINE S == {q \in Pids : proc[q].pc = "off"}
             p == Min(S)
             x == [NotBegun EXCEPT !.pc = "load", !.file = f, !.close = close]
  <1>1. S \in SUBSET Nat /\ S # {}
    BY DeskAssumption DEF Pids, Spawn
  <1>2. p \in S
    <2> HIDE DEF S
    <2>1. \E y \in S : \A z \in S : y <= z
      BY <1>1, LeastOf
    <2> QED
      BY <2>1 DEF Min
  <1>3. p \in Pids /\ proc[p].pc = "off"
    BY <1>2
  <1>4. proc' = [proc EXCEPT ![p] = x] /\ UNCHANGED <<disk, lock, wallet, air, counts>>
    BY DEF Spawn
  <1>5. x \in Programs /\ x.pc = "load" /\ x.file = f
    BY NobodyStarted DEF Programs, NotBegun, Places
  <1> HIDE DEF p, x
  <1>6. Moves(p, x)
    BY <1>3, <1>4, <1>5 DEF Moves, Placed, disk, Trading
  <1>7. DataTyped'
    BY <1>4 DEF disk, DataTyped, TraderInv
  <1> QED
    BY <1>3, <1>4, <1>5, <1>6, <1>7, Moved DEF TraderInv

LEMMA SameTraders ==
    ASSUME TraderInv, DataTyped', UNCHANGED <<proc, lock, holder, recorded>>
    PROVE  TraderInv'
  BY DEF TraderInv, EveryPlace

LEMMA TypesOfFiles ==
    ASSUME TraderInv, NEW r \in Runs
    PROVE  /\ FilesOf(r) \subseteq Files
           /\ rec[r].mode \in {"close", "price"} /\ actsWish[r] \in {"none", "close", "price"}
  BY DEF TraderInv, DataTyped, FilesOf, Recs

LEMMA AskedKeeps ==
    ASSUME TraderInv, Asked
    PROVE  TraderInv'
  <1>1. ASSUME NEW r \in Runs, StopRun(r) PROVE TraderInv'
    <2>1. holder.pid \in Pids
      BY <1>1, DeskAssumption DEF StopRun, HeldBy, TraderInv, DataTyped
    <2> QED
      BY <1>1, <2>1, InterruptKeeps DEF StopRun
  <1>2. ASSUME NEW r \in Runs, Mode(r) PROVE TraderInv'
    <2>1. UNCHANGED <<file, path, rec, recorded, wish, holder, lock, proc, wallet, air>>
      BY <1>2 DEF Mode
    <2>2. actsWish' \in [Runs -> {"none", "close", "price"}]
      <3>1. \E a \in {"none", "close", "price"} : actsWish' = [actsWish EXCEPT ![r] = a]
        BY <1>2 DEF Mode, Flip
      <3> QED
        BY <3>1 DEF TraderInv, DataTyped
    <2>3. DataTyped'
      BY <2>1, <2>2 DEF TraderInv, DataTyped
    <2> QED
      BY <2>1, <2>3, SameTraders
  <1>3. ASSUME NEW r \in Runs, NEW b \in Stakes, Budget(r, b) PROVE TraderInv'
    <2>1. DataTyped'
      BY <1>3, DeskAssumption DEF Budget, TraderInv, DataTyped
    <2> QED
      BY <1>3, <2>1, SameTraders DEF Budget
  <1>4. ASSUME NEW r \in Runs, NEW close \in BOOLEAN, StartOrClose(r, close) PROVE TraderInv'
    BY <1>4, TypesOfFiles, SpawnKeeps DEF StartOrClose
  <1>5. ASSUME NEW f \in Files, NEW r \in Runs, Create(f, r) \/ Edit(f, r) PROVE TraderInv'
    <2>1. DataTyped'
      BY <1>5 DEF Create, Edit, TraderInv, DataTyped
    <2> QED
      BY <1>5, <2>1, SameTraders DEF Create, Edit
  <1>6. ASSUME NEW f \in Files, NEW close \in BOOLEAN, ByHand(f, close) PROVE TraderInv'
    BY <1>6, SpawnKeeps DEF ByHand
  <1> QED
    BY <1>1, <1>2, <1>3, <1>4, <1>5, <1>6 DEF Asked

LEMMA ChainKeeps ==
    ASSUME TraderInv, NEW r \in Runs, Lands(r) \/ Expires(r)
    PROVE  TraderInv'
  <1>1. air[r] \in Int /\ -air[r] \in Int
    BY DEF TraderInv, DataTyped
  <1>2. UNCHANGED <<disk, lock, proc>> /\ air' = [air EXCEPT ![r] = 0]
    BY DEF Lands, Expires
  <1>3. wallet' \in [sol : Int, usdc : Int]
    <2>1. WalletSells(-air[r]) \/ UNCHANGED wallet
      BY DEF Lands, Expires
    <2> QED
      BY <1>1, <2>1, SalesTyped DEF TraderInv, DataTyped
  <1>4. DataTyped'
    BY <1>2, <1>3 DEF TraderInv, DataTyped, disk
  <1> QED
    BY <1>2, <1>4, SameTraders DEF disk

LEMMA CrashKeeps ==
    ASSUME TraderInv, NEW p \in Pids, Crash(p)
    PROVE  TraderInv'
  <1>1. Gone(p) /\ UNCHANGED <<disk, wallet, air>>
    BY DEF Crash, Exit
  <1>2. DataTyped' /\ UNCHANGED holder /\ recorded \subseteq recorded'
    BY <1>1 DEF TraderInv, DataTyped, disk
  <1> QED
    BY <1>1, <1>2, GoneMoves, Moved DEF TraderInv

LEMMA TraderInit ==
    ASSUME DeskInit PROVE TraderInv
  <1>1. NewRec \in Recs
    BY DeskAssumption DEF NewRec, Recs, NoOpen, Opens
  <1>2. NotBegun \in Programs /\ NotBegun.pc = "off"
    BY NobodyStarted DEF NotBegun
  <1>3. DataTyped
    BY <1>1, DeskAssumption DEF DeskInit, DataTyped
  <1>4. proc \in [Pids -> Programs] /\ EveryPlace
    <2>1. ASSUME NEW p \in Pids PROVE Placed(p, proc[p], lock, holder, recorded)
      BY <1>2 DEF DeskInit, Placed, Trading
    <2> QED
      BY <1>2, <2>1 DEF DeskInit, EveryPlace
  <1> QED
    BY <1>3, <1>4 DEF TraderInv

LEMMA TraderStep ==
    ASSUME TraderInv, [DeskStep]_deskVars PROVE TraderInv'
  <1>1. CASE Asked
    BY <1>1, AskedKeeps
  <1>2. CASE \E p \in Pids : DeskWorks(p) \/ Crash(p)
    BY <1>2, WorksKeeps, CrashKeeps
  <1>3. CASE \E r \in Runs : Lands(r) \/ Expires(r)
    BY <1>3, ChainKeeps
  <1>4. CASE UNCHANGED deskVars
    <2>1. DataTyped'
      BY <1>4 DEF deskVars, disk, TraderInv, DataTyped
    <2> QED
      BY <1>4, <2>1, SameTraders DEF deskVars, disk
  <1> QED
    BY <1>1, <1>2, <1>3, <1>4 DEF DeskStep

\* While a program trades, it alone trades: it holds the lock, the page shows no
\* run but its own as running, and a Stop reaches it (hold, running, Desk::read).
THEOREM PageKnowsTheTrader == DeskSpec => []PageTellsTheTrader
  <1>1. TraderInv => PageTellsTheTrader
    <2>1. SUFFICES ASSUME TraderInv, NEW p \in Pids, proc[p].pc \in Trading
                   PROVE  /\ lock = p /\ holder.pid = p
                          /\ \A r \in DOMAIN View : View[r].state = "Running" => r = proc[p].run
                          /\ proc[p].pc = "loop" /\ ~rec[proc[p].run].ended =>
                                View[proc[p].run].state = "Running"
      BY DEF PageTellsTheTrader
    <2>2. /\ lock = p /\ p # 0 /\ holder = [pid |-> p, run |-> proc[p].run] /\ proc[p].run \in Runs
          /\ proc[p].pc = "loop" => proc[p].run \in recorded
      BY <2>1, ProgramAt DEF Placed, Trading
    <2>3. HeldBy = proc[p].run /\ holder.pid = p
      BY <2>2 DEF HeldBy
    <2>4. ASSUME NEW r \in DOMAIN View, View[r].state = "Running" PROVE r = proc[p].run
      <3>1. HeldBy = r
        BY <2>4 DEF View
      <3> QED
        BY <2>3, <3>1
    <2>5. ASSUME proc[p].pc = "loop", ~rec[proc[p].run].ended
          PROVE  View[proc[p].run].state = "Running"
      BY <2>2, <2>3, <2>5 DEF View
    <2> QED
      BY <2>2, <2>3, <2>4, <2>5
  <1> QED
    BY TraderInit, TraderStep, <1>1, PTL DEF DeskSpec

----------------------------------------------------------------------------
(* What the runs bought *)

Rest(c, r) == SolOf(c, Runs \ {r})

\* A run's state x, what is in the air for it, the wallet, and all runs' SOL:
\* what an open purchase may bring is not counted yet.
Sound(x, a, w, all) ==
    /\ x.ended => x.sol = 0
    /\ ~x.funded => x.sol = 0
    /\ all <= w.sol
    /\ a > 0 => x.pending.open
    /\ x.pending.open =>
        /\ ~x.ended /\ x.funded
        /\ all <= x.pending.sol /\ x.pending.sol <= w.sol
        /\ a > 0 => w.usdc = x.pending.usdc

\* The program x waits for a swap of the run r, and was not asked to stop.
Waiting(x, r) == x.run = r /\ x.pc \in {"loop", "rebudget"} /\ ~x.first /\ ~x.stop

RunsAreSound ==
    \A r \in Runs :
        /\ Sound(rec[r], air[r], wallet, SolOf(rec, Runs))
        /\ r \notin recorded => rec[r].sol = 0
        /\ rec[r].pending.open => lock \in Pids /\ Waiting(proc[lock], r)

\* What a program was told of the other runs' SOL is still so.
Told(x, c) ==
    /\ x.pc \in Trading \ {"open"} => x.others = Rest(c, x.run)
    /\ x.pc = "loop" => ~x.first

WalletInv ==
    /\ RunsAreSound
    /\ SolOf(rec, Runs) <= wallet.sol
    /\ \A p \in Pids : Told(proc[p], rec)

LEMMA SolBut ==
    ASSUME NEW R, IsFiniteSet(R), NEW c, \A q \in R : c[q].sol \in Int, NEW r \in R
    PROVE  /\ SolOf(c, R) \in Int /\ SolOf(c, R \ {r}) \in Int
           /\ SolOf(c, R) = c[r].sol + SolOf(c, R \ {r})
  <1>1. PICK T \in SUBSET R : T = R \ {r}
    OBVIOUS
  <1>2. r \notin T /\ T \cup {r} = R
    BY <1>1
  <1>3. SolOf(c, T \cup {r}) = SolOf(c, T) + c[r].sol
    BY <1>2, SolAdds
  <1>4. SolOf(c, T) \in Int /\ SolOf(c, R) \in Int /\ c[r].sol \in Int
    BY SolAdds
  <1>5. SolOf(c, R) = SolOf(c, T) + c[r].sol
    BY <1>2, <1>3
  <1> QED
    BY <1>1, <1>4, <1>5

LEMMA SolAgrees ==
    ASSUME NEW T, IsFiniteSet(T), NEW c, NEW d,
           \A q \in T : c[q].sol \in Int /\ d[q].sol = c[q].sol
    PROVE  SolOf(c, T) = SolOf(d, T)
  <1>1. T \in SUBSET T /\ \A r \in T \ T : d[r].sol = 0
    OBVIOUS
  <1>2. (\A r \in T : c[r].sol \in Int /\ d[r].sol \in Int) /\ \A r \in T : c[r].sol = d[r].sol
    OBVIOUS
  <1> QED
    BY <1>1, <1>2, SolOfSome

LEMMA SolOfRuns ==
    ASSUME TraderInv, NEW r \in Runs
    PROVE  /\ SolOf(rec, Runs) \in Int /\ Rest(rec, r) \in Int
           /\ SolOf(rec, Runs) = rec[r].sol + Rest(rec, r)
  <1>1. \A q \in Runs : rec[q].sol \in Int
    BY DEF TraderInv, DataTyped, Recs
  <1> QED
    BY <1>1, SolBut, DeskAssumption DEF Rest

LEMMA RestIsTheirs ==
    ASSUME TraderInv, NEW r \in Runs, NEW s \in Recs, NEW c, c = [rec EXCEPT ![r] = s]
    PROVE  Rest(c, r) = Rest(rec, r) /\ SolOf(c, Runs) = s.sol + Rest(rec, r)
  <1>1. /\ \A q \in Runs : c[q].sol \in Int
        /\ \A q \in Runs \ {r} : c[q].sol \in Int /\ rec[q].sol = c[q].sol
        /\ c[r] = s
    BY DEF TraderInv, DataTyped, Recs
  <1>2. IsFiniteSet(Runs \ {r})
    BY DeskAssumption, FS_Subset
  <1>3. SolOf(c, Runs \ {r}) = SolOf(rec, Runs \ {r})
    BY <1>1, <1>2, SolAgrees
  <1>4. SolOf(c, Runs) = c[r].sol + SolOf(c, Runs \ {r})
    BY <1>1, SolBut, DeskAssumption
  <1> QED
    BY <1>1, <1>3, <1>4 DEF Rest

\* A step of the program that trades the run.
LEMMA BooksStep ==
    ASSUME TraderInv, WalletInv, NEW p \in Pids, NEW s \in Recs, NEW x \in Programs,
           proc[p].pc \in Trading \ {"open"},
           Save(proc[p].run, s), UNCHANGED recorded, proc' = [proc EXCEPT ![p] = x],
           \A q \in Runs \ {proc[p].run} : air'[q] = air[q],
           Sound(s, air'[proc[p].run], wallet', s.sol + Rest(rec, proc[p].run)),
           \/ x.pc \notin Trading
           \/ x.run = proc[p].run /\ x.others = proc[p].others /\ (x.pc = "loop" => ~x.first),
           s.pending.open => lock' = p /\ Waiting(x, proc[p].run)
    PROVE  WalletInv'
  <1> DEFINE r == proc[p].run
  <1>1. /\ r \in Runs /\ r \in recorded /\ lock = p
        /\ rec' = [rec EXCEPT ![r] = s]
        /\ proc'[p] = x /\ \A q \in Pids \ {p} : proc'[q] = proc[q]
    BY ProgramAt DEF Placed, Trading, Save, TraderInv
  <1>2. Rest(rec', r) = Rest(rec, r) /\ SolOf(rec', Runs) = s.sol + Rest(rec, r)
    BY <1>1, RestIsTheirs
  <1>3. rec'[r] = s /\ \A q \in Runs \ {r} : rec'[q] = rec[q]
    BY <1>1 DEF TraderInv, DataTyped
  <1>4. SolOf(rec', Runs) <= wallet'.sol
    BY <1>2 DEF Sound
  <1>5. ASSUME NEW q \in Runs
        PROVE  /\ Sound(rec'[q], air'[q], wallet', SolOf(rec', Runs))
               /\ q \notin recorded' => rec'[q].sol = 0
               /\ rec'[q].pending.open => lock' \in Pids /\ Waiting(proc'[lock'], q)
    <2>1. CASE q = r
      BY <1>1, <1>2, <1>3, <2>1
    <2>2. CASE q # r
      <3>1. ~rec[q].pending.open
        BY <1>1, <2>2 DEF WalletInv, RunsAreSound, Waiting
      <3>2. rec'[q] = rec[q] /\ air'[q] = air[q] /\ recorded' = recorded
        BY <1>3, <2>2
      <3>3. Sound(rec[q], air[q], wallet, SolOf(rec, Runs)) /\ (q \notin recorded => rec[q].sol = 0)
        BY DEF WalletInv, RunsAreSound
      <3> QED
        BY <1>4, <3>1, <3>2, <3>3 DEF Sound
    <2> QED
      BY <2>1, <2>2
  <1>6. ASSUME NEW q \in Pids PROVE Told(proc'[q], rec')
    <2>1. CASE q = p
      <3>1. Told(proc[p], rec)
        BY DEF WalletInv
      <3>2. proc[p].others = Rest(rec, r)
        BY <3>1 DEF Told
      <3>3. proc'[q] = x
        BY <1>1, <2>1
      <3>4. x.pc \notin Trading => Told(x, rec')
        BY DEF Told, Trading
      <3>5. x.run = r /\ x.others = proc[p].others /\ (x.pc = "loop" => ~x.first) => Told(x, rec')
        BY <1>2, <3>2 DEF Told
      <3> QED
        BY <3>3, <3>4, <3>5
    <2>2. CASE q # p
      <3>1. Placed(q, proc[q], lock, holder, recorded)
        BY ProgramAt
      <3>2. proc[q].pc \notin Trading
        BY <1>1, <2>2, <3>1 DEF Placed
      <3> QED
        BY <1>1, <2>2, <3>2 DEF Told, Trading
    <2> QED
      BY <2>1, <2>2
  <1> QED
    BY <1>4, <1>5, <1>6 DEF WalletInv, RunsAreSound

\* A program moves, and nothing is bought or sold.
LEMMA QuietStep ==
    ASSUME TraderInv, WalletInv, NEW p \in Pids, NEW x \in Programs,
           UNCHANGED <<rec, wallet, air>>, recorded \subseteq recorded',
           proc' = [proc EXCEPT ![p] = x], Told(x, rec),
           \A r \in Runs : rec[r].pending.open =>
               lock' = lock /\ (lock = p => Waiting(x, r))
    PROVE  WalletInv'
  <1>1. proc'[p] = x /\ \A q \in Pids \ {p} : proc'[q] = proc[q]
    BY DEF TraderInv
  <1>2. ASSUME NEW r \in Runs, rec[r].pending.open PROVE lock' \in Pids /\ Waiting(proc'[lock'], r)
    BY <1>1, <1>2 DEF WalletInv, RunsAreSound
  <1>3. \A q \in Pids : Told(proc'[q], rec')
    BY <1>1 DEF WalletInv
  <1> QED
    BY <1>2, <1>3 DEF WalletInv, RunsAreSound

\* reconcile books what landed, and gives up what cannot land any more.
LEMMA ReconciledIsSound ==
    ASSUME TraderInv, WalletInv, NEW r \in Runs
    PROVE  /\ Sound(Reconciled(r), air[r], wallet, Reconciled(r).sol + Rest(rec, r))
           /\ Reconciled(r).ended = rec[r].ended /\ Reconciled(r).funded = rec[r].funded
           /\ Reconciled(r).pending.open => rec[r].pending.open
           /\ ~rec[r].pending.open => Reconciled(r) = rec[r]
  <1> DEFINE s == Reconciled(r)
  <1>1. /\ rec[r] \in Recs /\ rec[r].pending \in Opens /\ wallet.sol \in Int /\ wallet.usdc \in Int
        /\ air[r] \in Int /\ Rest(rec, r) \in Int /\ rec[r].sol \in Int
        /\ SolOf(rec, Runs) = rec[r].sol + Rest(rec, r)
    BY SolOfRuns DEF TraderInv, DataTyped, Recs
  <1>2. Sound(rec[r], air[r], wallet, rec[r].sol + Rest(rec, r))
    BY <1>1 DEF WalletInv, RunsAreSound
  <1>3. CASE ~rec[r].pending.open
    <2>1. s = rec[r]
      BY <1>3 DEF Reconciled
    <2> QED
      BY <1>2, <1>3, <2>1
  <1>4. CASE rec[r].pending.open /\ Shows(r)
    <2> DEFINE cash == rec[r].cash - (rec[r].pending.usdc - wallet.usdc)
               sol == rec[r].sol + (wallet.sol - rec[r].pending.sol)
    <2>1. s = [rec[r] EXCEPT !.cash = cash, !.sol = sol, !.pending = NoOpen]
      BY <1>4 DEF Reconciled
    <2>2. s.sol = sol /\ ~s.pending.open /\ s.ended = rec[r].ended /\ s.funded = rec[r].funded
      BY <1>1, <2>1 DEF Recs, NoOpen
    <2>3. rec[r].pending.sol \in Int /\ rec[r].pending.usdc \in Int
      BY <1>1 DEF Opens
    <2>4. ~(air[r] > 0)
      BY <1>1, <1>2, <1>4, <2>3 DEF Sound, Shows
    <2>5. sol + Rest(rec, r) <= wallet.sol
      BY <1>1, <1>2, <1>4, <2>3 DEF Sound
    <2>6. ~rec[r].ended /\ rec[r].funded
      BY <1>2, <1>4 DEF Sound
    <2> HIDE DEF s, sol
    <2>7. Sound(s, air[r], wallet, s.sol + Rest(rec, r))
      BY <2>2, <2>4, <2>5, <2>6 DEF Sound
    <2> QED
      BY <1>4, <2>2, <2>7 DEF s
  <1>5. CASE rec[r].pending.open /\ ~Shows(r)
    <2>1. s = [rec[r] EXCEPT !.pending = IF air[r] = 0 THEN NoOpen ELSE @]
      BY <1>5 DEF Reconciled
    <2>2. /\ s.sol = rec[r].sol /\ s.ended = rec[r].ended /\ s.funded = rec[r].funded
          /\ air[r] = 0 => ~s.pending.open
          /\ air[r] # 0 => s = rec[r]
      BY <1>1, <2>1 DEF Recs, NoOpen
    <2>3. rec[r].sol + Rest(rec, r) <= wallet.sol
      BY <1>2 DEF Sound
    <2> HIDE DEF s
    <2>4. Sound(s, air[r], wallet, s.sol + Rest(rec, r))
      <3>1. CASE air[r] = 0
        BY <1>2, <1>5, <2>2, <2>3, <3>1 DEF Sound
      <3>2. CASE air[r] # 0
        BY <1>2, <2>2, <3>2
      <3> QED
        BY <3>1, <3>2
    <2> QED
      BY <1>5, <2>2, <2>4 DEF s
  <1> QED
    BY <1>3, <1>4, <1>5

\* What the program that trades a run knows of it.
LEMMA AtWork ==
    ASSUME TraderInv, WalletInv, NEW p \in Pids, proc[p].pc \in Trading \ {"open"}
    PROVE  /\ proc[p] \in Programs /\ proc[p].run \in Runs /\ lock = p
           /\ proc[p].others = Rest(rec, proc[p].run) /\ Rest(rec, proc[p].run) \in Int
           /\ proc[p].pc = "loop" => ~proc[p].first
           /\ \A r \in Runs : rec[r].pending.open => r = proc[p].run /\ Waiting(proc[p], r)
  <1>1. /\ proc[p] \in Programs /\ proc[p].run \in Runs /\ lock = p
    BY ProgramAt DEF Placed, Trading
  <1>2. Told(proc[p], rec)
    BY DEF WalletInv
  <1>3. \A r \in Runs : rec[r].pending.open => Waiting(proc[p], r)
    BY <1>1 DEF WalletInv, RunsAreSound
  <1> QED
    BY <1>1, <1>2, <1>3, SolOfRuns DEF Told, Waiting

\* The wallet after n SOL were sold.
LEMMA AfterSale ==
    ASSUME TraderInv, NEW n \in Int, WalletSells(n)
    PROVE  wallet'.sol = wallet.sol - n /\ wallet'.usdc = wallet.usdc + n
  BY DEF WalletSells

LEMMA CloseBooks ==
    ASSUME TraderInv, WalletInv, NEW p \in Pids, CloseRun(p)
    PROVE  WalletInv'
  <1> DEFINE r == proc[p].run
             s == Reconciled(r)
             x == [NotBegun EXCEPT !.pc = "gone"]
  <1>1. proc[p].pc = "close" /\ proc[p].pc \in Trading \ {"open"} /\ proc' = [proc EXCEPT ![p] = x]
        /\ UNCHANGED <<recorded, air>>
    BY DEF CloseRun, Trading, Gone, Others
  <1>2. /\ r \in Runs /\ Rest(rec, r) \in Int /\ ~rec[r].pending.open
    BY <1>1, AtWork DEF Waiting
  <1>3. /\ Sound(s, air[r], wallet, s.sol + Rest(rec, r)) /\ ~s.pending.open
        /\ s \in Recs /\ s.sol \in Int /\ wallet.sol \in Int
    BY <1>2, ReconciledIsSound, ReconciledTyped DEF Recs, TraderInv, DataTyped
  <1>4. x \in Programs /\ x.pc \notin Trading
    BY NobodyStarted DEF NotBegun, Trading
  <1> HIDE DEF x, s
  <1>5. CASE Save(r, [SellsAll(s) EXCEPT !.ended = TRUE]) /\ WalletSells(s.sol)
    <2> DEFINE t == [SellsAll(s) EXCEPT !.ended = TRUE]
    <2>1. t \in Recs /\ t.sol = 0 /\ t.pending = s.pending
      <3>1. s.cash + s.sol \in Int
        BY <1>3 DEF Recs
      <3>2. SellsAll(s) \in Recs /\ SellsAll(s).sol = 0 /\ SellsAll(s).pending = s.pending
        <4>1. SellsAll(s) = [s EXCEPT !.cash = s.cash + s.sol, !.sol = 0]
          BY DEF SellsAll
        <4>2. [s EXCEPT !.cash = s.cash + s.sol, !.sol = 0] \in Recs
          BY <1>3, <3>1, RecsEmptied
        <4> QED
          BY <1>3, <4>1, <4>2 DEF Recs
      <3> QED
        BY <3>2 DEF Recs
    <2>2. wallet'.sol = wallet.sol - s.sol
      BY <1>3, <1>5, AfterSale
    <2>3. s.sol + Rest(rec, r) <= wallet.sol
      BY <1>3 DEF Sound
    <2>4. 0 + Rest(rec, r) <= wallet'.sol
      BY <1>2, <1>3, <2>2, <2>3
    <2> HIDE DEF t
    <2>5. Sound(t, air[r], wallet', t.sol + Rest(rec, r))
      BY <1>3, <2>1, <2>4 DEF Sound
    <2>6. Save(r, t)
      BY <1>5 DEF t
    <2> QED
      BY <1>1, <1>3, <1>4, <2>1, <2>5, <2>6, BooksStep
  <1>6. CASE Save(r, s) /\ UNCHANGED wallet
    BY <1>1, <1>3, <1>4, <1>6, BooksStep
  <1> QED
    BY <1>5, <1>6 DEF CloseRun, s

\* change_acts touches the way it acts and nothing else.
LEMMA ActsChanged ==
    ASSUME TraderInv, NEW r \in Runs, NEW s \in Recs
    PROVE  LET t == ChangeActs(r, s) IN
           /\ t \in Recs /\ t.sol = s.sol /\ t.pending = s.pending
           /\ t.ended = s.ended /\ t.funded = s.funded
  <1>1. actsWish[r] \in {"none", "close", "price"}
    BY DEF TraderInv, DataTyped
  <1> QED
    BY <1>1 DEF ChangeActs, Recs

LEMMA SameSound ==
    ASSUME NEW s, NEW t, NEW a, NEW w, NEW b, Sound(s, a, w, s.sol + b),
           t.sol = s.sol, t.pending = s.pending, t.ended = s.ended, t.funded = s.funded
    PROVE  Sound(t, a, w, t.sol + b)
  BY DEF Sound

LEMMA SetupBooks ==
    ASSUME TraderInv, WalletInv, NEW p \in Pids, Setup(p)
    PROVE  WalletInv'
  <1> DEFINE r == proc[p].run
             s == ChangeActs(r, Reconciled(r))
             x == [proc[p] EXCEPT !.pc = IF wish[r] # 0 THEN "rebudget" ELSE "fund",
                                  !.to = wish[r], !.tried = wish[r]]
  <1>1. proc[p].pc = "setup" /\ proc[p].pc \in Trading \ {"open"} /\ proc' = [proc EXCEPT ![p] = x]
        /\ UNCHANGED <<recorded, air, wallet>> /\ Save(r, s)
    BY DEF Setup, Trading, Others, TraderInv
  <1>2. r \in Runs /\ ~rec[r].pending.open /\ proc[p] \in Programs
    BY <1>1, AtWork DEF Waiting
  <1>3. s \in Recs /\ ~s.pending.open /\ Sound(s, air[r], wallet, s.sol + Rest(rec, r))
    <2> DEFINE t == Reconciled(r)
    <2>1. Sound(t, air[r], wallet, t.sol + Rest(rec, r)) /\ ~t.pending.open /\ t \in Recs
      BY <1>2, ReconciledIsSound, ReconciledTyped
    <2> HIDE DEF t
    <2>2. s = ChangeActs(r, t)
      BY DEF t
    <2>3. s \in Recs /\ s.sol = t.sol /\ s.pending = t.pending /\ s.ended = t.ended /\ s.funded = t.funded
      BY <1>2, <2>1, <2>2, ActsChanged
    <2> HIDE DEF s
    <2> QED
      BY <2>1, <2>3, SameSound
  <1>4. x \in Programs /\ x.run = r /\ x.others = proc[p].others /\ x.pc \in {"rebudget", "fund"}
    <2>1. wish[r] \in Int
      BY <1>2 DEF TraderInv, DataTyped
    <2> QED
      BY <1>2, <2>1 DEF Programs, Places, Trading
  <1> HIDE DEF x, s
  <1> QED
    BY <1>1, <1>3, <1>4, BooksStep

LEMMA TurnActsBooks ==
    ASSUME TraderInv, WalletInv, NEW p \in Pids, TurnActs(p)
    PROVE  WalletInv'
  <1> DEFINE r == proc[p].run
             s == ChangeActs(r, rec[r])
  <1>1. proc[p].pc \in Trading \ {"open"} /\ proc' = [proc EXCEPT ![p] = proc[p]] /\ lock' = lock
        /\ UNCHANGED <<recorded, air, wallet>> /\ Save(r, s)
    BY ProgramAt DEF TurnActs, Turn, Trading, Others
  <1>2. /\ r \in Runs /\ proc[p] \in Programs /\ lock = p /\ (proc[p].pc = "loop" => ~proc[p].first)
        /\ rec[r].pending.open => Waiting(proc[p], r)
    BY <1>1, AtWork
  <1>3. s \in Recs /\ s.pending = rec[r].pending /\ Sound(s, air[r], wallet, s.sol + Rest(rec, r))
    <2>1. Sound(rec[r], air[r], wallet, rec[r].sol + Rest(rec, r)) /\ rec[r] \in Recs
      BY <1>2, SolOfRuns DEF WalletInv, RunsAreSound, TraderInv, DataTyped
    <2>2. s \in Recs /\ s.sol = rec[r].sol /\ s.pending = rec[r].pending /\ s.ended = rec[r].ended /\ s.funded = rec[r].funded
      BY <1>2, <2>1, ActsChanged
    <2> HIDE DEF s
    <2> QED
      BY <2>1, <2>2, SameSound
  <1> HIDE DEF s
  <1> QED
    BY <1>1, <1>2, <1>3, BooksStep

\* The budget is set aside: what the wallet lacks is bought with SOL that is
\* nobody's purchase.
LEMMA FundIsSound ==
    ASSUME TraderInv, WalletInv, NEW p \in Pids, proc[p].pc \in Trading \ {"open"}, NEW s \in Recs,
           ~s.pending.open, ~s.funded, NEW n \in Int, n >= 0, n = 0 \/ MaySell(p, 0, n), WalletSells(n),
           Sound(s, air[proc[p].run], wallet, s.sol + Rest(rec, proc[p].run)),
           NEW t, t = [s EXCEPT !.funded = TRUE, !.cash = s.budget]
    PROVE  t \in Recs /\ ~t.pending.open
           /\ Sound(t, air[proc[p].run], wallet', t.sol + Rest(rec, proc[p].run))
  <1> DEFINE b == Rest(rec, proc[p].run)
  <1>1. t \in Recs /\ t.sol = s.sol /\ t.pending = s.pending /\ t.ended = s.ended /\ s.sol \in Int
    BY DEF Recs
  <1>2. s.sol = 0 /\ s.sol + b <= wallet.sol /\ wallet.sol \in Int /\ b \in Int /\ proc[p].others = b
    BY AtWork DEF Sound, TraderInv, DataTyped
  <1>3. wallet'.sol = wallet.sol - n
    BY AfterSale
  <1>4. t.sol + b <= wallet'.sol
    BY <1>1, <1>2, <1>3, DeskAssumption DEF MaySell
  <1> QED
    BY <1>1, <1>2, <1>4 DEF Sound

LEMMA FundBooks ==
    ASSUME TraderInv, WalletInv, NEW p \in Pids, Fund(p)
    PROVE  WalletInv'
  <1> DEFINE r == proc[p].run
             x == [proc[p] EXCEPT !.pc = "loop", !.first = FALSE]
             n == Max({rec[r].budget - wallet.usdc, 0})
             t == [rec[r] EXCEPT !.funded = TRUE, !.cash = rec[r].budget]
  <1>1. proc[p].pc = "fund" /\ proc[p].pc \in Trading \ {"open"} /\ proc' = [proc EXCEPT ![p] = x]
        /\ UNCHANGED <<recorded, air>>
    BY DEF Fund, Trading, Others, TraderInv
  <1>2. r \in Runs /\ ~rec[r].pending.open /\ proc[p] \in Programs /\ rec[r] \in Recs /\ wallet.usdc \in Int
    BY <1>1, AtWork DEF Waiting, TraderInv, DataTyped
  <1>3. x \in Programs /\ x.run = r /\ x.others = proc[p].others /\ x.pc = "loop" /\ ~x.first
    BY <1>2 DEF Programs, Places, Trading
  <1>4. Sound(rec[r], air[r], wallet, rec[r].sol + Rest(rec, r))
    BY <1>2, SolOfRuns DEF WalletInv, RunsAreSound
  <1>5. n \in Int /\ n >= 0
    <2>1. rec[r].budget - wallet.usdc \in Int
      BY <1>2 DEF Recs
    <2> QED
      BY <2>1, AtLeastZero
  <1>6. \/ Save(r, t) /\ WalletSells(n) /\ ~rec[r].funded /\ (n = 0 \/ MaySell(p, 0, n))
        \/ UNCHANGED <<rec, wallet>>
    BY DEF Fund
  <1> HIDE DEF x, n
  <1>7. CASE Save(r, t) /\ WalletSells(n) /\ ~rec[r].funded /\ (n = 0 \/ MaySell(p, 0, n))
    <2>1. t \in Recs /\ ~t.pending.open /\ Sound(t, air[r], wallet', t.sol + Rest(rec, r))
      BY <1>1, <1>2, <1>4, <1>5, <1>7, FundIsSound
    <2> HIDE DEF t
    <2> QED
      BY <1>1, <1>3, <1>7, <2>1, BooksStep
  <1>8. CASE UNCHANGED <<rec, wallet>>
    <2>1. Save(r, rec[r])
      BY <1>8 DEF Save, TraderInv, DataTyped
    <2> QED
      BY <1>1, <1>2, <1>3, <1>4, <1>8, <2>1, BooksStep
  <1> QED
    BY <1>6, <1>7, <1>8

LEMMA RebudgetBooks ==
    ASSUME TraderInv, WalletInv, NEW p \in Pids, Rebudget(p)
    PROVE  WalletInv'
  <1> DEFINE r == proc[p].run
             s == Reconciled(r)
             to == proc[p].to
             more == to - s.budget
             free == Max({wallet.usdc - s.cash, 0})
             x == [proc[p] EXCEPT !.pc = IF proc[p].first THEN "fund" ELSE "loop"]
             b == Rest(rec, r)
  <1>1. proc[p].pc = "rebudget" /\ proc[p].pc \in Trading \ {"open"} /\ proc' = [proc EXCEPT ![p] = x]
        /\ UNCHANGED <<recorded, air, lock>>
    BY DEF Rebudget, AfterWish, Goto, Trading, Others, TraderInv
  <1>2. /\ r \in Runs /\ proc[p] \in Programs /\ lock = p /\ proc[p].others = b /\ b \in Int
        /\ rec[r].pending.open => Waiting(proc[p], r)
        /\ to \in Int
    BY <1>1, AtWork DEF Programs
  <1>3. /\ s \in Recs /\ Sound(s, air[r], wallet, s.sol + b) /\ (s.pending.open => rec[r].pending.open)
        /\ s.sol \in Int /\ s.cash \in Int /\ s.budget \in Int /\ wallet.sol \in Int /\ wallet.usdc \in Int
    BY <1>2, ReconciledIsSound, ReconciledTyped DEF Recs, TraderInv, DataTyped
  <1>4. /\ x \in Programs /\ x.run = r /\ x.others = proc[p].others /\ (x.pc = "loop" => ~x.first)
        /\ s.pending.open => Waiting(x, r)
    BY <1>2, <1>3 DEF Programs, Places, Trading, Waiting
  <1>5. more \in Int /\ s.cash + more \in Int /\ free \in Int
    <2>1. wallet.usdc - s.cash \in Int /\ more \in Int /\ s.cash + more \in Int
      BY <1>2, <1>3
    <2> QED
      BY <2>1, AtLeastZero
  <1> DEFINE t == [s EXCEPT !.budget = to, !.cash = @ + more]
             u == [s EXCEPT !.budget = to]
  <1>6. /\ t \in Recs /\ t.sol = s.sol /\ t.pending = s.pending /\ t.ended = s.ended /\ t.funded = s.funded
        /\ u \in Recs /\ u.sol = s.sol /\ u.pending = s.pending /\ u.ended = s.ended /\ u.funded = s.funded
    <2> HIDE DEF s, to, more
    <2> QED
      BY <1>2, <1>3, <1>5 DEF Recs
  <1>7. \/ Save(r, s) /\ UNCHANGED wallet
        \/ ~s.pending.open /\ Save(r, u) /\ UNCHANGED wallet
        \/ ~s.pending.open /\ Save(r, t) /\ UNCHANGED wallet
        \/ ~s.pending.open /\ Save(r, t) /\ WalletSells(more - free) /\ MaySell(p, s.sol, more - free)
    BY DEF Rebudget
  <1> HIDE DEF s, t, u, x, more, free, to
  <1>8. CASE Save(r, s) /\ UNCHANGED wallet
    BY <1>1, <1>2, <1>3, <1>4, <1>8, BooksStep
  <1>9. CASE ~s.pending.open /\ Save(r, u) /\ UNCHANGED wallet
    <2>1. Sound(u, air[r], wallet, u.sol + b)
      BY <1>3, <1>6, SameSound
    <2> QED
      BY <1>1, <1>4, <1>6, <1>9, <2>1, BooksStep
  <1>10. CASE ~s.pending.open /\ Save(r, t) /\ UNCHANGED wallet
    <2>1. Sound(t, air[r], wallet, t.sol + b)
      BY <1>3, <1>6, SameSound
    <2> QED
      BY <1>1, <1>4, <1>6, <1>10, <2>1, BooksStep
  <1>11. CASE ~s.pending.open /\ Save(r, t) /\ WalletSells(more - free) /\ MaySell(p, s.sol, more - free)
    <2>1. wallet'.sol = wallet.sol - (more - free) /\ more - free \in Int
      BY <1>5, <1>11, AfterSale
    <2>2. s.sol + b <= wallet'.sol
      BY <1>2, <1>3, <1>11, <2>1, DeskAssumption DEF MaySell
    <2>3. Sound(t, air[r], wallet', t.sol + b)
      BY <1>3, <1>6, <1>11, <2>2 DEF Sound
    <2> QED
      BY <1>1, <1>4, <1>6, <1>11, <2>3, BooksStep
  <1> QED
    BY <1>7, <1>8, <1>9, <1>10, <1>11

LEMMA BarBooks ==
    ASSUME TraderInv, WalletInv, NEW p \in Pids, Bar(p)
    PROVE  WalletInv'
  <1> DEFINE r == proc[p].run
             s == Reconciled(r)
             n == Max({s.budget - wallet.usdc, 0})
             x == [proc[p] EXCEPT !.tried = 0]
             b == Rest(rec, r)
  <1>1. /\ proc[p].pc = "loop" /\ proc[p].pc \in Trading \ {"open"} /\ proc' = [proc EXCEPT ![p] = x]
        /\ UNCHANGED <<recorded, lock>> /\ ~rec[r].ended /\ ~proc[p].stop
    BY DEF Bar, Turn, Trading, Others, TraderInv
  <1>2. /\ r \in Runs /\ proc[p] \in Programs /\ lock = p /\ proc[p].others = b /\ b \in Int
        /\ ~proc[p].first
    BY <1>1, AtWork
  <1>3. /\ s \in Recs /\ Sound(s, air[r], wallet, s.sol + b) /\ s.ended = rec[r].ended
        /\ s.sol \in Int /\ s.cash \in Int /\ s.budget \in Int /\ wallet \in [sol : Int, usdc : Int]
        /\ wallet.sol \in Int /\ wallet.usdc \in Int /\ air \in [Runs -> Int]
    BY <1>2, ReconciledIsSound, ReconciledTyped DEF Recs, TraderInv, DataTyped
  <1>4. /\ x \in Programs /\ x.run = r /\ x.others = proc[p].others /\ (x.pc = "loop" => ~x.first)
        /\ Waiting(x, r)
    BY <1>1, <1>2 DEF Programs, Places, Trading, Waiting
  <1>5. n \in Int /\ n >= 0
    <2>1. s.budget - wallet.usdc \in Int
      BY <1>3
    <2> QED
      BY <2>1, AtLeastZero
  <1> DEFINE funds == [s EXCEPT !.funded = TRUE, !.cash = s.budget]
             buys == [s EXCEPT !.sol = @ + s.cash, !.cash = 0]
             opens == [s EXCEPT !.pending = [open |-> TRUE, sol |-> wallet.sol, usdc |-> wallet.usdc]]
             sells(e) == [SellsAll(s) EXCEPT !.ended = e]
             acts == ~s.pending.open /\ s.funded
  <1>6. /\ s.sol + s.cash \in Int /\ -s.cash \in Int
        /\ buys \in Recs /\ buys.sol = s.sol + s.cash /\ buys.pending = s.pending
        /\ buys.ended = s.ended /\ buys.funded = s.funded
    <2> HIDE DEF s
    <2>1. s.sol + s.cash \in Int /\ -s.cash \in Int
      BY <1>3
    <2> QED
      BY <1>3, <2>1, RecsEmptied DEF Recs
  <1>7. /\ opens \in Recs /\ opens.sol = s.sol /\ opens.ended = s.ended /\ opens.funded = s.funded
        /\ opens.pending.sol = wallet.sol /\ opens.pending.usdc = wallet.usdc
    <2> HIDE DEF s
    <2>1. [open |-> TRUE, sol |-> wallet.sol, usdc |-> wallet.usdc] \in Opens
      BY <1>3 DEF Opens
    <2> QED
      BY <1>3, <2>1 DEF Recs
  <1>8. ASSUME NEW e \in BOOLEAN PROVE sells(e) \in Recs /\ sells(e).sol = 0 /\ sells(e).pending = s.pending
                                       /\ sells(e).funded = s.funded
    <2> HIDE DEF s
    <2>1. s.cash + s.sol \in Int
      BY <1>3
    <2>2. SellsAll(s) = [s EXCEPT !.cash = s.cash + s.sol, !.sol = 0]
      BY DEF SellsAll
    <2>3. [s EXCEPT !.cash = s.cash + s.sol, !.sol = 0] \in Recs
      BY <1>3, <2>1, RecsEmptied
    <2>4. SellsAll(s) \in Recs /\ SellsAll(s).sol = 0 /\ SellsAll(s).pending = s.pending
          /\ SellsAll(s).funded = s.funded
      BY <1>3, <2>2, <2>3 DEF Recs
    <2> QED
      BY <2>4 DEF Recs
  <1>9. \/ Save(r, s) /\ UNCHANGED <<wallet, air>>
        \/ /\ ~s.pending.open /\ ~s.funded /\ (n = 0 \/ MaySell(p, 0, n))
           /\ Save(r, funds) /\ WalletSells(n) /\ UNCHANGED air
        \/ acts /\ s.cash > 0 /\ Save(r, buys) /\ WalletSells(-s.cash) /\ UNCHANGED air
        \/ acts /\ Save(r, opens) /\ air' = [air EXCEPT ![r] = s.cash] /\ UNCHANGED wallet
        \/ /\ acts /\ wallet.sol >= s.sol /\ WalletSells(s.sol) /\ UNCHANGED air
           /\ \E e \in BOOLEAN : Save(r, sells(e))
    BY DEF Bar
  <1>10. CASE Save(r, s) /\ UNCHANGED <<wallet, air>>
    <2> HIDE DEF s, x
    <2> QED
      BY <1>1, <1>2, <1>3, <1>4, <1>10, BooksStep
  <1>11. CASE /\ ~s.pending.open /\ ~s.funded /\ (n = 0 \/ MaySell(p, 0, n))
              /\ Save(r, funds) /\ WalletSells(n) /\ UNCHANGED air
    <2> HIDE DEF s, x, n
    <2>1. funds \in Recs /\ ~funds.pending.open /\ Sound(funds, air[r], wallet', funds.sol + b)
      BY <1>1, <1>3, <1>5, <1>11, FundIsSound
    <2> HIDE DEF funds
    <2> QED
      BY <1>1, <1>4, <1>11, <2>1, BooksStep
  <1>12. CASE acts /\ s.cash > 0 /\ Save(r, buys) /\ WalletSells(-s.cash) /\ UNCHANGED air
    <2> HIDE DEF s, x, n, buys
    <2>1. wallet'.sol = wallet.sol - (-s.cash)
      BY <1>6, <1>12, AfterSale
    <2>2. buys.sol + b <= wallet'.sol
      BY <1>2, <1>3, <1>6, <2>1 DEF Sound
    <2>3. Sound(buys, air[r], wallet', buys.sol + b)
      BY <1>1, <1>3, <1>6, <1>12, <2>2 DEF Sound
    <2> QED
      BY <1>1, <1>4, <1>6, <1>12, <2>3, BooksStep
  <1>13. CASE acts /\ Save(r, opens) /\ air' = [air EXCEPT ![r] = s.cash] /\ UNCHANGED wallet
    <2>1. opens.pending.open
      BY <1>3 DEF Recs
    <2> HIDE DEF s, x, n, opens
    <2>2. Sound(opens, air'[r], wallet', opens.sol + b)
      BY <1>1, <1>3, <1>7, <1>13, <2>1 DEF Sound
    <2>3. \A q \in Runs \ {r} : air'[q] = air[q]
      BY <1>3, <1>13
    <2> QED
      BY <1>1, <1>2, <1>4, <1>7, <1>13, <2>2, <2>3, BooksStep
  <1>14. CASE /\ acts /\ wallet.sol >= s.sol /\ WalletSells(s.sol) /\ UNCHANGED air
              /\ \E e \in BOOLEAN : Save(r, sells(e))
    <2>1. PICK e \in BOOLEAN : Save(r, sells(e))
      BY <1>14
    <2> DEFINE t == sells(e)
    <2>2. t \in Recs /\ t.sol = 0 /\ t.pending = s.pending /\ t.funded = s.funded
      BY <1>8
    <2> HIDE DEF s, x, n, t
    <2>3. wallet'.sol = wallet.sol - s.sol
      BY <1>3, <1>14, AfterSale
    <2>4. t.sol + b <= wallet'.sol
      BY <1>2, <1>3, <2>2, <2>3 DEF Sound
    <2>5. Sound(t, air[r], wallet', t.sol + b)
      BY <1>3, <1>14, <2>2, <2>4 DEF Sound
    <2>6. Save(r, t)
      BY <2>1 DEF t, s
    <2> QED
      BY <1>1, <1>4, <1>14, <2>2, <2>5, <2>6, BooksStep
  <1> QED
    BY <1>9, <1>10, <1>11, <1>12, <1>13, <1>14

\* A program gone had no purchase to wait for.
LEMMA GoneBooks ==
    ASSUME TraderInv, WalletInv, NEW p \in Pids, Gone(p), UNCHANGED <<rec, wallet, air>>, recorded \subseteq recorded',
           \A r \in Runs : rec[r].pending.open => lock # p
    PROVE  WalletInv'
  <1> DEFINE x == [NotBegun EXCEPT !.pc = "gone"]
  <1>1. x \in Programs /\ Told(x, rec) /\ proc' = [proc EXCEPT ![p] = x]
    BY NobodyStarted DEF Gone, NotBegun, Told, Trading
  <1>2. lock # p => lock' = lock
    BY DEF Gone
  <1> HIDE DEF x
  <1> QED
    BY <1>1, <1>2, QuietStep

\* Elsewhere than at work, or at work on something else than an open purchase.
LEMMA NothingOpen ==
    ASSUME TraderInv, WalletInv, NEW p \in Pids,
           proc[p].pc \notin {"loop", "rebudget"} \/ proc[p].stop \/ rec[proc[p].run].ended
    PROVE  \A r \in Runs : rec[r].pending.open => lock # p
  <1>1. SUFFICES ASSUME NEW r \in Runs, rec[r].pending.open, lock = p PROVE FALSE
    OBVIOUS
  <1>2. Waiting(proc[p], r) /\ ~rec[r].ended
    BY <1>1 DEF WalletInv, RunsAreSound, Sound
  <1> QED
    BY <1>2 DEF Waiting

\* What the program is told of the other runs is all that they bought.
LEMMA OthersAreRest ==
    ASSUME TraderInv, WalletInv, NEW r \in Runs
    PROVE  HeldByOthers(r) = Rest(rec, r)
  <1> DEFINE R == Runs \ {r}
             U == {q \in recorded \ {r} : ~rec[q].ended}
  <1>1. HeldByOthers(r) = SolOf(rec, U)
    BY HeldIsNumber
  <1>2. IsFiniteSet(R)
    BY DeskAssumption, FS_Subset
  <1>3. U \in SUBSET R /\ \A q \in R : rec[q].sol \in Int
    BY DEF TraderInv, DataTyped, Recs
  <1>4. \A q \in R \ U : rec[q].sol = 0
    BY DEF WalletInv, RunsAreSound, Sound
  <1>5. \A q \in U : rec[q].sol = rec[q].sol
    OBVIOUS
  <1>6. SolOf(rec, U) = SolOf(rec, R)
    <2> HIDE DEF R, U
    <2> QED
      BY <1>2, <1>3, <1>4, <1>5, SolOfSome
  <1> QED
    BY <1>1, <1>6 DEF Rest

\* The steps at which nothing is bought or sold.
LEMMA QuietBooks ==
    ASSUME TraderInv, WalletInv, NEW p \in Pids,
           \/ Load(p) \/ TakeLock(p) \/ Hold(p) \/ Open(p) \/ Countdown(p) \/ Stops(p) \/ Ends(p) \/ TurnWish(p)
    PROVE  WalletInv'
  <1>1. proc[p] \in Programs /\ Placed(p, proc[p], lock, holder, recorded) /\ Told(proc[p], rec) /\ p # 0
    BY ProgramAt DEF WalletInv
  <1>2. ASSUME Gone(p), UNCHANGED <<rec, wallet, air>>, recorded \subseteq recorded',
               proc[p].pc \notin {"loop", "rebudget"} \/ proc[p].stop \/ rec[proc[p].run].ended
        PROVE  WalletInv'
    BY <1>2, GoneBooks, NothingOpen
  <1>3. ASSUME NEW x \in Programs, proc' = [proc EXCEPT ![p] = x], UNCHANGED <<rec, wallet, air>>,
               recorded \subseteq recorded', Told(x, rec),
               proc[p].pc \notin {"loop", "rebudget"}, lock' = lock \/ lock = 0
        PROVE  WalletInv'
    <2>1. ASSUME NEW r \in Runs, rec[r].pending.open PROVE lock' = lock /\ lock # p
      <3>1. lock # 0
        BY <2>1, DeskAssumption DEF WalletInv, RunsAreSound, Pids
      <3> QED
        BY <1>3, <2>1, <3>1, NothingOpen
    <2> QED
      BY <1>3, <2>1, QuietStep
  <1>4. CASE Load(p)
    <2>1. UNCHANGED <<rec, wallet, air, recorded>>
      BY <1>4 DEF Load, Exit, disk
    <2>2. proc[p].pc = "load"
      BY <1>4 DEF Load
    <2>3. CASE file[proc[p].file] = NoRun
      BY <1>2, <1>4, <2>1, <2>2, <2>3 DEF Load, Exit
    <2>4. CASE file[proc[p].file] # NoRun
      <3> DEFINE x == [proc[p] EXCEPT !.pc = "lock", !.run = file[proc[p].file]]
      <3>1. proc' = [proc EXCEPT ![p] = x] /\ lock' = lock
        BY <1>4, <2>4 DEF Load, TraderInv
      <3>2. file[proc[p].file] \in Runs
        BY <1>1, <2>2, <2>4 DEF Placed, TraderInv, DataTyped
      <3>3. x \in Programs /\ x.pc = "lock"
        BY <1>1, <3>2 DEF Programs, Places
      <3> HIDE DEF x
      <3>4. Told(x, rec)
        BY <3>3 DEF Told, Trading
      <3> QED
        BY <1>3, <2>1, <2>2, <3>1, <3>3, <3>4
    <2> QED
      BY <2>3, <2>4
  <1>5. CASE TakeLock(p)
    <2>1. UNCHANGED <<rec, wallet, air, recorded>> /\ proc[p].pc = "lock"
      BY <1>5 DEF TakeLock, Exit, disk
    <2>2. CASE lock # 0
      BY <1>2, <1>5, <2>1, <2>2 DEF TakeLock, Exit
    <2>3. CASE lock = 0
      <3> DEFINE x == [proc[p] EXCEPT !.pc = "hold"]
      <3>1. proc' = [proc EXCEPT ![p] = x]
        BY <1>5, <2>3 DEF TakeLock, Goto, TraderInv
      <3>2. x \in Programs /\ x.pc = "hold"
        BY <1>1 DEF Programs, Places
      <3> HIDE DEF x
      <3>3. Told(x, rec)
        BY <3>2 DEF Told, Trading
      <3> QED
        BY <1>3, <2>1, <2>3, <3>1, <3>2, <3>3
    <2> QED
      BY <2>2, <2>3
  <1>6. CASE Hold(p)
    <2> DEFINE x == [proc[p] EXCEPT !.pc = "open"]
    <2>1. proc' = [proc EXCEPT ![p] = x] /\ UNCHANGED <<rec, wallet, air, recorded, lock>> /\ proc[p].pc = "hold"
      BY <1>6 DEF Hold, Goto, TraderInv
    <2>2. x \in Programs /\ x.pc = "open"
      BY <1>1 DEF Programs, Places, Trading
    <2> HIDE DEF x
    <2>3. Told(x, rec)
      BY <2>2 DEF Told
    <2> QED
      BY <1>3, <2>1, <2>2, <2>3
  <1>7. CASE Open(p)
    <2> DEFINE r == proc[p].run
    <2>1. proc[p].pc = "open" /\ r \in Runs /\ UNCHANGED <<rec, wallet, air>> /\ recorded \subseteq recorded'
      BY <1>1, <1>7 DEF Open, Placed
    <2>2. CASE rec[r].ended
      BY <1>2, <1>7, <2>1, <2>2 DEF Open
    <2>3. CASE ~rec[r].ended
      <3> DEFINE x == [proc[p] EXCEPT !.pc = IF proc[p].close THEN "close" ELSE "count",
                                      !.others = HeldByOthers(r)]
      <3>1. proc' = [proc EXCEPT ![p] = x] /\ lock' = lock
        BY <1>7, <2>3 DEF Open, TraderInv
      <3>2. HeldByOthers(r) = Rest(rec, r) /\ HeldByOthers(r) \in Int
        BY <2>1, OthersAreRest, HeldIsNumber
      <3>3. x \in Programs /\ x.run = r /\ x.others = HeldByOthers(r) /\ x.pc \in {"close", "count"}
        BY <1>1, <3>2 DEF Programs, Places, Trading
      <3> HIDE DEF x
      <3>4. Told(x, rec)
        BY <3>2, <3>3 DEF Told
      <3> QED
        BY <1>3, <2>1, <3>1, <3>3, <3>4
    <2> QED
      BY <2>2, <2>3
  <1>8. CASE Countdown(p)
    <2> DEFINE x == [proc[p] EXCEPT !.pc = "setup", !.first = TRUE]
    <2>1. proc' = [proc EXCEPT ![p] = x] /\ UNCHANGED <<rec, wallet, air, recorded, lock>> /\ proc[p].pc = "count"
      BY <1>8 DEF Countdown, disk, TraderInv
    <2>2. x \in Programs /\ x.pc = "setup" /\ x.run = proc[p].run /\ x.others = proc[p].others
      BY <1>1 DEF Programs, Places, Trading
    <2> HIDE DEF x
    <2>3. Told(x, rec)
      BY <1>1, <2>1, <2>2 DEF Told, Trading
    <2> QED
      BY <1>3, <2>1, <2>2, <2>3
  <1>9. CASE Stops(p) \/ Ends(p)
    <2>1. UNCHANGED <<rec, wallet, air, recorded>> /\ Gone(p)
      BY <1>9 DEF Stops, Ends, Exit, disk
    <2> QED
      BY <1>2, <1>9, <2>1 DEF Stops, Ends
  <1>10. CASE TurnWish(p)
    <2> DEFINE x == [proc[p] EXCEPT !.pc = "rebudget", !.to = wish[proc[p].run], !.tried = wish[proc[p].run]]
    <2>1. proc' = [proc EXCEPT ![p] = x] /\ UNCHANGED <<rec, wallet, air, recorded, lock>> /\ proc[p].pc = "loop"
      BY <1>10 DEF TurnWish, Turn, disk, TraderInv
    <2>2. wish[proc[p].run] \in Int
      BY <1>1, <2>1 DEF TraderInv, DataTyped, Placed, Trading
    <2>3. /\ x \in Programs /\ x.pc = "rebudget" /\ x.run = proc[p].run /\ x.others = proc[p].others
          /\ x.first = proc[p].first /\ x.stop = proc[p].stop
      BY <1>1, <2>2 DEF Programs, Places, Trading
    <2> HIDE DEF x
    <2>4. Told(x, rec)
      BY <1>1, <2>1, <2>3 DEF Told, Trading
    <2>5. \A r \in Runs : rec[r].pending.open => lock' = lock /\ (lock = p => Waiting(x, r))
      BY <2>1, <2>3 DEF WalletInv, RunsAreSound, Waiting
    <2> QED
      BY <2>1, <2>3, <2>4, <2>5, QuietStep
  <1> QED
    BY <1>4, <1>5, <1>6, <1>7, <1>8, <1>9, <1>10

LEMMA WorksBooks ==
    ASSUME TraderInv, WalletInv, NEW p \in Pids, DeskWorks(p)
    PROVE  WalletInv'
  BY QuietBooks, CloseBooks, SetupBooks, RebudgetBooks, FundBooks, TurnActsBooks, BarBooks DEF DeskWorks

\* Who is asked to stop or crashes while a purchase is open is not its program.
LEMMA InterruptBooks ==
    ASSUME TraderInv, WalletInv, NEW p \in Pids, Alive(p), Interrupt(p), UNCHANGED <<disk, wallet, air>>,
           \A r \in Runs : rec[r].pending.open => lock # p
    PROVE  WalletInv'
  <1>1. proc[p] \in Programs /\ Told(proc[p], rec) /\ UNCHANGED <<rec, recorded>>
    BY ProgramAt DEF WalletInv, disk
  <1>2. CASE Gone(p)
    BY <1>1, <1>2, GoneBooks
  <1>3. CASE UNCHANGED <<proc, lock>>
    BY <1>1, <1>3 DEF WalletInv, RunsAreSound
  <1>4. CASE ~Gone(p) /\ ~UNCHANGED <<proc, lock>>
    <2> DEFINE x == [proc[p] EXCEPT !.stop = TRUE]
    <2>1. proc' = [proc EXCEPT ![p] = x] /\ lock' = lock
      BY <1>4 DEF Interrupt, TraderInv
    <2>2. x \in Programs /\ Told(x, rec)
      BY <1>1 DEF Programs, Told
    <2> HIDE DEF x
    <2> QED
      BY <1>1, <2>1, <2>2, QuietStep
  <1> QED
    BY <1>2, <1>3, <1>4

LEMMA SameBooks ==
    ASSUME WalletInv, UNCHANGED <<rec, recorded, wallet, air, lock, proc>>
    PROVE  WalletInv'
  BY DEF WalletInv, RunsAreSound

LEMMA AskedBooks ==
    ASSUME ~LeavesOpen, TraderInv, WalletInv, Asked
    PROVE  WalletInv'
  <1>1. ASSUME NEW r \in Runs, StopRun(r) PROVE WalletInv'
    <2> DEFINE p == holder.pid
    <2>1. p \in Pids /\ Alive(p) /\ Interrupt(p) /\ UNCHANGED <<disk, wallet, air>>
          /\ holder.run = r /\ ~rec[r].pending.open
      BY <1>1, DeskAssumption DEF StopRun, HeldBy, TraderInv, DataTyped
    <2>2. ASSUME NEW q \in Runs, rec[q].pending.open, lock = p PROVE FALSE
      <3>1. Waiting(proc[p], q)
        BY <2>2 DEF WalletInv, RunsAreSound
      <3>2. holder = [pid |-> p, run |-> q]
        BY <2>1, <3>1, ProgramAt DEF Waiting, Placed, Trading
      <3>3. q = r
        BY <2>1, <3>2
      <3> QED
        BY <2>1, <2>2, <3>3
    <2> QED
      BY <2>1, <2>2, InterruptBooks
  <1>2. ASSUME NEW f \in Files, NEW close \in BOOLEAN, Spawn(f, close) PROVE WalletInv'
    <2>1. PICK p \in Pids, x \in Programs :
             /\ proc[p].pc = "off" /\ x.pc = "load" /\ proc' = [proc EXCEPT ![p] = x]
      BY <1>2, SpawnKeeps
    <2>2. UNCHANGED <<disk, lock, wallet, air>> /\ UNCHANGED <<rec, recorded>>
      BY <1>2 DEF Spawn, disk
    <2>3. \A r \in Runs : rec[r].pending.open => lock # p
      BY <2>1, NothingOpen
    <2>4. Told(x, rec)
      BY <2>1 DEF Told, Trading
    <2> QED
      BY <2>1, <2>2, <2>3, <2>4, QuietStep
  <1>3. ASSUME NEW r \in Runs, NEW close \in BOOLEAN, StartOrClose(r, close) PROVE WalletInv'
    BY <1>2, <1>3, TypesOfFiles DEF StartOrClose
  <1>4. ASSUME NEW f \in Files, NEW close \in BOOLEAN, ByHand(f, close) PROVE WalletInv'
    BY <1>2, <1>4 DEF ByHand
  <1>5. ASSUME NEW r \in Runs, Mode(r) PROVE WalletInv'
    BY <1>5, SameBooks DEF Mode
  <1>6. ASSUME NEW r \in Runs, NEW to \in Stakes, Budget(r, to) PROVE WalletInv'
    BY <1>6, SameBooks DEF Budget
  <1>7. ASSUME NEW f \in Files, NEW r \in Runs, Create(f, r) \/ Edit(f, r) PROVE WalletInv'
    BY <1>7, SameBooks DEF Create, Edit
  <1> QED
    BY <1>1, <1>3, <1>4, <1>5, <1>6, <1>7 DEF Asked

LEMMA CrashBooks ==
    ASSUME ~LeavesOpen, TraderInv, WalletInv, NEW p \in Pids, Crash(p)
    PROVE  WalletInv'
  <1>1. Gone(p) /\ UNCHANGED <<rec, recorded, wallet, air>>
    BY DEF Crash, Exit, disk
  <1>2. ASSUME NEW r \in Runs, rec[r].pending.open, lock = p PROVE FALSE
    <2>1. proc[p].run = r
      BY <1>2 DEF WalletInv, RunsAreSound, Waiting
    <2>2. r # NoRun
      BY DeskAssumption
    <2> QED
      BY <1>2, <2>1, <2>2 DEF Crash
  <1> QED
    BY <1>1, <1>2, GoneBooks

\* A purchase that lands brings what the wallet paid for it.
LEMMA ChainBooks ==
    ASSUME TraderInv, WalletInv, NEW r \in Runs, Lands(r) \/ Expires(r)
    PROVE  WalletInv'
  <1>1. /\ UNCHANGED <<rec, recorded, lock, proc>> /\ air' = [air EXCEPT ![r] = 0] /\ air[r] > 0
        /\ air \in [Runs -> Int] /\ air[r] \in Int /\ wallet.sol \in Int
    BY DEF Lands, Expires, disk, TraderInv, DataTyped
  <1>2. wallet'.sol >= wallet.sol /\ wallet'.sol \in Int
    <2>1. CASE Lands(r)
      <3>1. -air[r] \in Int /\ WalletSells(-air[r])
        BY <1>1, <2>1 DEF Lands
      <3>2. wallet'.sol = wallet.sol - (-air[r])
        BY <3>1, AfterSale
      <3> QED
        BY <1>1, <3>2
    <2>2. CASE Expires(r)
      BY <1>1, <2>2 DEF Expires
    <2> QED
      BY <2>1, <2>2
  <1>3. rec[r].pending.open
    BY <1>1 DEF WalletInv, RunsAreSound, Sound
  <1>4. SolOf(rec, Runs) \in Int /\ \A q \in Runs : rec[q].pending.sol \in Int
    BY SolOfRuns DEF TraderInv, DataTyped, Recs, Opens
  <1>5. SolOf(rec, Runs) <= wallet'.sol
    BY <1>1, <1>2, <1>4 DEF WalletInv
  <1>6. ASSUME NEW q \in Runs PROVE Sound(rec[q], air'[q], wallet', SolOf(rec, Runs))
    <2>1. Sound(rec[q], air[q], wallet, SolOf(rec, Runs))
      BY DEF WalletInv, RunsAreSound
    <2>2. CASE q = r
      <3>1. air'[q] = 0
        BY <1>1, <2>2
      <3> QED
        BY <1>1, <1>2, <1>4, <1>5, <2>1, <3>1 DEF Sound
    <2>3. CASE q # r
      <3>1. ~rec[q].pending.open
        BY <1>3, <2>3 DEF WalletInv, RunsAreSound, Waiting
      <3>2. air'[q] = air[q]
        BY <1>1, <2>3
      <3> QED
        BY <1>5, <2>1, <3>1, <3>2 DEF Sound
    <2> QED
      BY <2>2, <2>3
  <1> QED
    BY <1>1, <1>5, <1>6 DEF WalletInv, RunsAreSound

LEMMA WalletInit ==
    ASSUME DeskInit PROVE WalletInv
  <1>1. \A r \in Runs : rec[r] = NewRec
    BY DEF DeskInit
  <1>2. NewRec.sol = 0 /\ ~NewRec.ended /\ ~NewRec.pending.open
    BY DEF NewRec, NoOpen
  <1>3. SolOf(rec, Runs) = 0
    <2>1. {} \in SUBSET Runs /\ \A r \in Runs : rec[r].sol \in Int /\ rec[r].sol = 0
      BY <1>1, <1>2
    <2>2. SolOf(rec, {}) = SolOf(rec, Runs)
      <3>1. /\ \A r \in Runs : rec[r].sol \in Int /\ rec[r].sol \in Int
            /\ \A r \in {} : rec[r].sol = rec[r].sol
            /\ \A r \in Runs \ {} : rec[r].sol = 0
        BY <2>1
      <3> QED
        BY <2>1, <3>1, SolOfSome, DeskAssumption
    <2>3. SolOf(rec, {}) = 0
      BY <2>1, SolAdds, DeskAssumption
    <2> QED
      BY <2>2, <2>3
  <1>4. wallet.sol \in Nat /\ \A r \in Runs : air[r] = 0
    BY DeskAssumption DEF DeskInit
  <1>5. RunsAreSound
    <2>1. ASSUME NEW r \in Runs PROVE Sound(rec[r], air[r], wallet, SolOf(rec, Runs))
      BY <1>1, <1>2, <1>3, <1>4 DEF Sound
    <2> QED
      BY <1>1, <1>2, <2>1 DEF RunsAreSound
  <1>6. \A p \in Pids : Told(proc[p], rec)
    BY DEF DeskInit, Told, NotBegun, Trading
  <1> QED
    BY <1>3, <1>4, <1>5, <1>6 DEF WalletInv

LEMMA WalletStep ==
    ASSUME ~LeavesOpen, TraderInv, WalletInv, [DeskStep]_deskVars PROVE WalletInv'
  <1>1. CASE Asked
    BY <1>1, AskedBooks
  <1>2. CASE \E p \in Pids : DeskWorks(p) \/ Crash(p)
    BY <1>2, WorksBooks, CrashBooks
  <1>3. CASE \E r \in Runs : Lands(r) \/ Expires(r)
    BY <1>3, ChainBooks
  <1>4. CASE UNCHANGED deskVars
    BY <1>4, SameBooks DEF deskVars, disk
  <1> QED
    BY <1>1, <1>2, <1>3, <1>4 DEF DeskStep

\* While no program stops with a swap of its own open, what the runs that have
\* not ended bought is in the wallet, whichever of them trades (held_by_others,
\* keep_also), and the page knows the trader.
THEOREM RunsLeaveEachOtherAlone ==
    ASSUME ~LeavesOpen PROVE DeskSpec => []DeskIsTrue
  <1>1. TraderInv /\ WalletInv => EveryRunsSolIsThere
    <2>1. SUFFICES ASSUME TraderInv, WalletInv PROVE EveryRunsSolIsThere
      OBVIOUS
    <2> DEFINE U == {r \in Runs : ~rec[r].ended}
    <2>2. U \in SUBSET Runs /\ \A r \in Runs : rec[r].sol \in Int
      BY <2>1 DEF TraderInv, DataTyped, Recs
    <2>3. \A r \in Runs \ U : rec[r].sol = 0
      BY <2>1 DEF WalletInv, RunsAreSound, Sound
    <2>4. SolOf(rec, U) = SolOf(rec, Runs)
      <3> HIDE DEF U
      <3> QED
        BY <2>2, <2>3, SolOfSome, DeskAssumption
    <2>5. SolOf(rec, U) <= wallet.sol
      BY <2>1, <2>4 DEF WalletInv
    <2> QED
      BY <2>5 DEF EveryRunsSolIsThere, SolOf
  <1>2. TraderInv /\ WalletInv /\ [DeskStep]_deskVars => (TraderInv /\ WalletInv)'
    BY TraderStep, WalletStep
  <1>3. DeskInit => TraderInv /\ WalletInv
    BY TraderInit, WalletInit
  <1>4. DeskSpec => []EveryRunsSolIsThere
    BY <1>1, <1>2, <1>3, PTL DEF DeskSpec
  <1> QED
    BY <1>4, PageKnowsTheTrader, PTL DEF DeskIsTrue

----------------------------------------------------------------------------
(* Measurements *)

\* --research on its own.
MeasureSpec == MeasureInit /\ [][MeasureStep]_measureVars

\* A request of a class is so far from the window's end as the class reserves:
\* it was when it was sent, and places only move up.
Reserved(sent) == \A i \in DOMAIN sent : i <= Capacity - RESERVE[sent[i]]
WindowInv ==
    /\ {"on", "queues", "sent"} \subseteq DOMAIN gate
    /\ gate.sent \in Seq(1..3) /\ Reserved(gate.sent)

LEMMA ReservedStarts ==
    ASSUME NEW sent \in Seq(1..3), Reserved(sent), NEW c \in 1..3, Capacity - Len(sent) > RESERVE[c]
    PROVE  Append(sent, c) \in Seq(1..3) /\ Reserved(Append(sent, c))
  <1>1. /\ Len(sent) \in Nat /\ DOMAIN sent = 1..Len(sent) /\ DOMAIN Append(sent, c) = 1..(Len(sent) + 1)
        /\ \A i \in 1..Len(sent) : Append(sent, c)[i] = sent[i]
        /\ Append(sent, c)[Len(sent) + 1] = c
    OBVIOUS
  <1>2. RESERVE[c] \in Nat /\ Capacity \in Nat
    BY MeasureAssumption DEF RESERVE
  <1>3. Len(sent) + 1 <= Capacity - RESERVE[c]
    BY <1>1, <1>2
  <1>4. ASSUME NEW i \in DOMAIN Append(sent, c)
        PROVE  i <= Capacity - RESERVE[Append(sent, c)[i]]
    <2>1. CASE i \in 1..Len(sent)
      BY <2>1, <1>1 DEF Reserved
    <2>2. CASE i = Len(sent) + 1
      BY <2>2, <1>1, <1>3
    <2> QED BY <2>1, <2>2, <1>1
  <1> QED BY <1>4 DEF Reserved

LEMMA ReservedAgesOut ==
    ASSUME NEW sent \in Seq(1..3), Reserved(sent), sent # <<>>
    PROVE  Tail(sent) \in Seq(1..3) /\ Reserved(Tail(sent))
  <1>1. /\ Len(sent) \in Nat \ {0} /\ DOMAIN sent = 1..Len(sent) /\ DOMAIN Tail(sent) = 1..(Len(sent) - 1)
        /\ \A i \in 1..(Len(sent) - 1) : Tail(sent)[i] = sent[i + 1]
        /\ \A i \in 1..Len(sent) : sent[i] \in 1..3
    OBVIOUS
  <1>2. ASSUME NEW i \in DOMAIN Tail(sent)
        PROVE  i <= Capacity - RESERVE[Tail(sent)[i]]
    <2>1. i \in Nat /\ i + 1 \in DOMAIN sent /\ Tail(sent)[i] = sent[i + 1]
      BY <1>1
    <2>2. i + 1 <= Capacity - RESERVE[sent[i + 1]]
      BY <2>1 DEF Reserved
    <2>3. RESERVE[sent[i + 1]] \in Nat /\ Capacity \in Nat
      BY <1>1, <2>1, MeasureAssumption DEF RESERVE
    <2> QED BY <2>1, <2>2, <2>3
  <1> QED BY <1>2 DEF Reserved

\* A second is one evaluation of the open episodes and some of the pools.
LEMMA SecondIs ==
    ASSUME Second
    PROVE  \E late, marks : \E wide \in SUBSET DOMAIN lag.pools, turn \in SUBSET DOMAIN lag.pools :
              Evaluated([i \in DOMAIN lag.open |-> Aged(lag.open[i], i \in late, marks[i])], wide, turn)
  <1>1. PICK late \in SUBSET DOMAIN lag.open, marks \in [DOMAIN lag.open -> 0..Markouts],
             ready \in SUBSET DOMAIN lag.pools, control \in SUBSET DOMAIN lag.pools :
        LET aged == [i \in DOMAIN lag.open |-> Aged(lag.open[i], i \in late, marks[i])]
            wide == {d \in ready : Abs(lag.pools[d]) >= Trigger /\ MayOpen(StillOpen(aged), d)}
            turn == {d \in control : d \notin wide /\ MayOpen(StillOpen(aged), d)}
        IN Evaluated(aged, wide, turn)
    BY DEF Second
  <1> DEFINE aged == [i \in DOMAIN lag.open |-> Aged(lag.open[i], i \in late, marks[i])]
             wide == {d \in ready : Abs(lag.pools[d]) >= Trigger /\ MayOpen(StillOpen(aged), d)}
             turn == {d \in control : d \notin wide /\ MayOpen(StillOpen(aged), d)}
  <1>2. wide \subseteq DOMAIN lag.pools /\ turn \subseteq DOMAIN lag.pools
    OBVIOUS
  <1>3. Evaluated(aged, wide, turn)
    BY <1>1
  <1> HIDE DEF wide, turn
  <1> QED BY <1>2, <1>3

LEMMA WindowStep == WindowInv /\ [MeasureStep]_measureVars => WindowInv'
  <1> SUFFICES ASSUME WindowInv, [MeasureStep]_measureVars PROVE WindowInv'
    OBVIOUS
  <1>0. {"on", "queues", "sent"} \subseteq DOMAIN gate /\ gate.sent \in Seq(1..3) /\ Reserved(gate.sent)
    BY DEF WindowInv
  <1>1. ASSUME DOMAIN gate' = DOMAIN gate, gate'.sent = gate.sent PROVE WindowInv'
    BY <1>0, <1>1 DEF WindowInv
  <1>2. ASSUME NEW job PROVE DOMAIN Built(job) = DOMAIN gate /\ Built(job).sent = gate.sent
    BY <1>0 DEF Built
  <1>3. CASE UNCHANGED measureVars
    BY <1>1, <1>3 DEF measureVars
  <1>4. CASE AgesOut
    <2>1. gate.sent # <<>> /\ gate' = [gate EXCEPT !.sent = Tail(gate.sent)]
      BY <1>4 DEF AgesOut
    <2>2. DOMAIN gate' = DOMAIN gate /\ gate'.sent = Tail(gate.sent)
      BY <1>0, <2>1
    <2> QED BY <1>0, <2>1, <2>2, ReservedAgesOut DEF WindowInv
  <1>5. ASSUME NEW c \in 1..3, Start(c) PROVE WindowInv'
    <2>1. /\ Capacity - Len(gate.sent) > RESERVE[c]
          /\ gate' = [gate EXCEPT !.queues[c] = Tail(@), !.sent = Append(gate.sent, c)]
      BY <1>5 DEF Start
    <2>2. DOMAIN gate' = DOMAIN gate /\ gate'.sent = Append(gate.sent, c)
      BY <1>0, <2>1
    <2> QED BY <1>0, <2>1, <2>2, ReservedStarts DEF WindowInv
  <1>6. CASE RunStarts \/ RunEnds
    <2>1. gate' = GateOff \/ gate' = [GateOff EXCEPT !.on = TRUE]
      BY <1>6 DEF RunStarts, RunEnds
    <2>2. {"on", "queues", "sent"} \subseteq DOMAIN gate' /\ gate'.sent = <<>>
      BY <2>1 DEF GateOff
    <2> QED BY <2>2 DEF WindowInv, Reserved
  <1>7. CASE GateStops
    <2>1. gate' = gate \/ \E q : gate' = [gate EXCEPT !.queues = q] \/ gate' = [gate EXCEPT !.on = FALSE, !.queues = q]
      BY <1>7 DEF GateStops
    <2>2. DOMAIN gate' = DOMAIN gate /\ gate'.sent = gate.sent
      BY <1>0, <2>1
    <2> QED BY <1>1, <2>2
  <1>8. CASE Second
    <2>1. ASSUME NEW new, NEW wide PROVE DOMAIN Entries(new, wide) = DOMAIN gate /\ Entries(new, wide).sent = gate.sent
      BY <1>0 DEF Entries
    <2>2. \E new, wide : gate' = Entries(new, wide)
      BY <1>8, SecondIs DEF Evaluated
    <2> QED BY <1>1, <2>1, <2>2
  <1>9. ASSUME NEW who, Round(who) PROVE WindowInv'
    BY <1>1, <1>2, <1>9 DEF Round
  <1>10. ASSUME NEW who, NEW ok, AnswerLeg(who, ok) PROVE WindowInv'
    BY <1>1, <1>2, <1>10 DEF AnswerLeg
  <1>11. ASSUME NEW id, NEW ok, AnswerConfirm(id, ok) PROVE WindowInv'
    BY <1>1, <1>2, <1>11 DEF AnswerConfirm
  <1>12. ASSUME NEW id, AnswerExit(id) PROVE WindowInv'
    BY <1>1, <1>2, <1>12 DEF AnswerExit
  <1>13. ASSUME NEW id, AnswerScale(id) PROVE WindowInv'
    BY <1>1, <1>13 DEF AnswerScale
  <1>14. ASSUME NEW d, NEW g, PoolTick(d, g) PROVE WindowInv'
    BY <1>1, <1>14 DEF PoolTick
  <1>15. ASSUME NEW p, Confirm(p) PROVE WindowInv'
    BY <1>1, <1>15 DEF Confirm
  <1>16. CASE Slept \/ LagStops \/ Stop \/ Sleeps
    BY <1>1, <1>16 DEF Slept, LagStops, Stop, Sleeps
  <1> QED
    BY <1>3, <1>4, <1>5, <1>6, <1>7, <1>8, <1>9, <1>10, <1>11, <1>12, <1>13, <1>14, <1>15, <1>16
    DEF MeasureStep, LadderRound, XchainRound, AnswerLadder, AnswerXchain

LEMMA WindowLeavesRoom == WindowInv => EntryFindsASlot
  <1> SUFFICES ASSUME WindowInv PROVE EntryFindsASlot
    OBVIOUS
  <1> DEFINE s == gate.sent
             n == Len(s)
  <1>1. s \in Seq(1..3) /\ Reserved(s) /\ n \in Nat /\ DOMAIN s = 1..n /\ Capacity \in Nat /\ Capacity > 2
    BY MeasureAssumption DEF WindowInv
  <1>2. CASE n = 0
    BY <1>1, <1>2 DEF EntryFindsASlot
  <1>3. CASE n > 0
    <2>1. n \in DOMAIN s /\ s[n] \in 1..3 /\ s[n] \in Range(s) /\ n <= Capacity - RESERVE[s[n]]
      BY <1>1, <1>3 DEF Range, Reserved
    <2>2. s[n] # 1 => n <= Capacity - 1
      BY <2>1, <1>1 DEF RESERVE
    <2>3. s[n] \notin {1, 2} => n <= Capacity - 2
      BY <2>1, <1>1 DEF RESERVE
    <2> QED BY <2>1, <2>2, <2>3 DEF EntryFindsASlot
  <1> QED BY <1>1, <1>2, <1>3

----------------------------------------------------------------------------
(* Episodes and sleeps *)

\* Values from both sides of a sleep are said to be.
Said(row) == row.mixed => row.err # "none"

EpisodeIs(o) ==
    /\ {"row", "closed", "confirmed", "left"} \subseteq DOMAIN o
    /\ {"epoch", "err", "end", "mixed"} \subseteq DOMAIN o.row /\ o.row.mixed \in BOOLEAN

LagShape ==
    /\ {"on", "pools", "open", "answers", "next"} \subseteq DOMAIN lag
    /\ lag.next \in Nat /\ DOMAIN lag.open \subseteq 1..lag.next /\ IsFiniteSet(DOMAIN lag.pools)
    /\ {"n", "up", "stopping"} \subseteq DOMAIN mrun /\ mrun.n \in Nat
    /\ {"sleeps", "normal"} \subseteq DOMAIN budget
    /\ \A k \in DOMAIN episodes : k[1] \in Nat /\ k[1] <= mrun.n

\* While evaluate runs: an open episode is of this waking, unless the machine
\* slept since; a row is its open episode's, or is finished and says what it is.
OpenIsOfNow ==
    \A i \in DOMAIN lag.open :
        /\ EpisodeIs(lag.open[i])
        /\ ~asleep => lag.open[i].row.epoch = budget.sleeps /\ Said(lag.open[i].row)
RowsAreSaid ==
    \A k \in DOMAIN episodes : k[1] = mrun.n =>
        IF k[2] \in DOMAIN lag.open THEN episodes[k] = lag.open[k[2]].row ELSE Said(episodes[k])
LagInv == LagShape /\ (lag.on => OpenIsOfNow /\ RowsAreSaid)

LEMMA UpsertIs ==
    ASSUME NEW o, NEW ids
    PROVE  \A k \in DOMAIN Upsert(o, ids) :
              /\ k[1] = mrun.n /\ k[2] \in ids => Upsert(o, ids)[k] = o[k[2]].row
              /\ ~(k[1] = mrun.n /\ k[2] \in ids) => k \in DOMAIN episodes /\ Upsert(o, ids)[k] = episodes[k]
  <1> SUFFICES ASSUME NEW k \in DOMAIN Upsert(o, ids)
               PROVE  /\ k[1] = mrun.n /\ k[2] \in ids => Upsert(o, ids)[k] = o[k[2]].row
                      /\ ~(k[1] = mrun.n /\ k[2] \in ids) => k \in DOMAIN episodes /\ Upsert(o, ids)[k] = episodes[k]
    OBVIOUS
  <1>1. k \in DOMAIN episodes \cup {<<mrun.n, i>> : i \in ids}
    BY DEF Upsert
  <1>2. k \in {<<mrun.n, i>> : i \in ids} => k[1] = mrun.n /\ k[2] \in ids
    OBVIOUS
  <1>3. Upsert(o, ids)[k] = IF k[1] = mrun.n /\ k[2] \in ids THEN o[k[2]].row ELSE episodes[k]
    BY <1>1 DEF Upsert
  <1> QED BY <1>1, <1>2, <1>3

LEMMA UpsertKeys ==
    ASSUME LagShape, NEW o, NEW ids
    PROVE  \A k \in DOMAIN Upsert(o, ids) : k[1] \in Nat /\ k[1] <= mrun.n
  <1> SUFFICES ASSUME NEW k \in DOMAIN Upsert(o, ids) PROVE k[1] \in Nat /\ k[1] <= mrun.n
    OBVIOUS
  <1>1. k[1] = mrun.n \/ k \in DOMAIN episodes
    BY UpsertIs
  <1> QED BY <1>1 DEF LagShape

\* What leaves the open episodes and their rows alone.
LEMMA LagAlone ==
    ASSUME LagInv, UNCHANGED <<episodes, asleep>>, mrun'.n = mrun.n, DOMAIN mrun' = DOMAIN mrun,
           DOMAIN budget' = DOMAIN budget, budget'.sleeps = budget.sleeps,
           DOMAIN lag' = DOMAIN lag, lag'.on = lag.on, lag'.open = lag.open, lag'.next = lag.next,
           IsFiniteSet(DOMAIN lag'.pools)
    PROVE  LagInv'
  <1>1. LagShape'
    BY DEF LagInv, LagShape
  <1>2. lag'.on => OpenIsOfNow'
    BY DEF LagInv, OpenIsOfNow
  <1>3. lag'.on => RowsAreSaid'
    BY DEF LagInv, RowsAreSaid
  <1> QED BY <1>1, <1>2, <1>3 DEF LagInv

LEMMA AgedIs ==
    ASSUME NEW o, EpisodeIs(o), NEW late, NEW marks
    PROVE  /\ EpisodeIs(Aged(o, late, marks))
           /\ o.row.epoch = budget.sleeps /\ Said(o.row) =>
                Aged(o, late, marks).row.epoch = budget.sleeps /\ Said(Aged(o, late, marks).row)
  BY DEF EpisodeIs, Aged, Said

LEMMA ConfirmKeeps == ASSUME LagInv, NEW p, Confirm(p) PROVE LagInv'
  <1> DEFINE a == Head(lag.answers)
             ok == a.ok /\ p
             o == [lag.open[a.id] EXCEPT !.confirmed = TRUE,
                                         !.row.err = IF ok THEN @ ELSE "quote",
                                         !.row.mixed = @ \/ lag.open[a.id].row.epoch # budget.sleeps]
  <1>0. LagShape /\ lag.on /\ OpenIsOfNow /\ RowsAreSaid /\ UNCHANGED <<mrun, asleep, budget>>
    BY DEF Confirm, LagInv
  <1>1. CASE a.id \notin DOMAIN lag.open
    <2>1. lag' = [lag EXCEPT !.answers = Tail(lag.answers)] /\ UNCHANGED episodes
      BY <1>1 DEF Confirm
    <2>2. /\ DOMAIN lag' = DOMAIN lag /\ lag'.on = lag.on /\ lag'.open = lag.open /\ lag'.next = lag.next
          /\ lag'.pools = lag.pools
      BY <1>0, <2>1 DEF LagShape
    <2> QED BY <1>0, <2>1, <2>2, LagAlone DEF LagShape
  <1>2. CASE a.id \in DOMAIN lag.open
    <2>1. lag' = [lag EXCEPT !.answers = Tail(lag.answers), !.open[a.id] = o] /\ episodes' = Upsert(lag'.open, {a.id})
      BY <1>2 DEF Confirm
    <2> DEFINE id == a.id
    <2>2. EpisodeIs(lag.open[id]) /\ (~asleep => lag.open[id].row.epoch = budget.sleeps /\ Said(lag.open[id].row))
      BY <1>0, <1>2 DEF OpenIsOfNow
    <2>3. EpisodeIs(o) /\ (~asleep => o.row.epoch = budget.sleeps /\ Said(o.row))
      BY <2>2 DEF EpisodeIs, Said
    <2> HIDE DEF o, ok
    <2>4. /\ DOMAIN lag' = DOMAIN lag /\ lag'.on = lag.on /\ lag'.next = lag.next /\ lag'.pools = lag.pools
          /\ DOMAIN lag'.open = DOMAIN lag.open /\ lag'.open[id] = o
          /\ \A i \in DOMAIN lag.open : i # id => lag'.open[i] = lag.open[i]
      BY <1>0, <1>2, <2>1 DEF LagShape
    <2> HIDE DEF id, a
    <2>5. episodes' = Upsert(lag'.open, {id})
      BY <2>1 DEF id
    <2>6. LagShape'
      BY <1>0, <2>4, <2>5, UpsertKeys DEF LagShape
    <2>7. OpenIsOfNow'
      BY <1>0, <2>3, <2>4 DEF OpenIsOfNow
    <2>8. ASSUME NEW k \in DOMAIN episodes', k[1] = mrun.n
          PROVE  IF k[2] \in DOMAIN lag'.open THEN episodes'[k] = lag'.open[k[2]].row ELSE Said(episodes'[k])
      <3>1. CASE k[2] = id
        <4>1. episodes'[k] = lag'.open[k[2]].row
          BY <3>1, <2>5, <2>8, UpsertIs
        <4>2. k[2] \in DOMAIN lag'.open
          BY <3>1, <1>2, <2>4 DEF id
        <4> QED BY <4>1, <4>2
      <3>2. CASE k[2] # id
        <4>1. k \in DOMAIN episodes /\ episodes'[k] = episodes[k]
          BY <3>2, <2>5, <2>8, UpsertIs
        <4>2. IF k[2] \in DOMAIN lag.open THEN episodes[k] = lag.open[k[2]].row ELSE Said(episodes[k])
          BY <4>1, <1>0, <2>8 DEF RowsAreSaid
        <4> QED BY <3>2, <4>1, <4>2, <2>4
      <3> QED BY <3>1, <3>2
    <2>9. RowsAreSaid'
      BY <1>0, <2>8 DEF RowsAreSaid
    <2> QED BY <2>6, <2>7, <2>9 DEF LagInv
  <1> QED BY <1>1, <1>2

LEMMA SleptKeepsRows == ASSUME LagInv, Slept PROVE LagInv'
  <1> DEFINE cut == [i \in DOMAIN lag.open |->
                       [lag.open[i] EXCEPT !.row.end = TRUE, !.row.err = IF @ = "none" THEN "slept" ELSE @]]
  <1>0. LagShape /\ lag.on /\ OpenIsOfNow /\ RowsAreSaid /\ UNCHANGED <<mrun, budget>>
    BY DEF Slept, LagInv
  <1>1. /\ episodes' = Upsert(cut, DOMAIN lag.open)
        /\ lag' = [lag EXCEPT !.open = << >>, !.pools = << >>]
    BY DEF Slept
  <1>2. \A i \in DOMAIN lag.open : cut[i].row.err # "none"
    BY <1>0 DEF OpenIsOfNow, EpisodeIs
  <1> HIDE DEF cut
  <1>3. /\ DOMAIN lag' = DOMAIN lag /\ lag'.on = lag.on /\ lag'.next = lag.next
        /\ lag'.open = << >> /\ lag'.pools = << >> /\ DOMAIN lag'.open = {} /\ DOMAIN lag'.pools = {}
    <2>1. DOMAIN << >> = {}
      OBVIOUS
    <2> QED BY <1>0, <1>1, <2>1 DEF LagShape
  <1>4. LagShape'
    BY <1>0, <1>1, <1>3, UpsertKeys, FS_EmptySet DEF LagShape
  <1>5. ASSUME NEW k \in DOMAIN episodes', k[1] = mrun.n PROVE Said(episodes'[k])
    <2>1. CASE k[2] \in DOMAIN lag.open
      <3>1. episodes'[k] = cut[k[2]].row
        BY <2>1, <1>1, <1>5, UpsertIs
      <3> QED BY <2>1, <3>1, <1>2 DEF Said
    <2>2. CASE k[2] \notin DOMAIN lag.open
      <3>1. k \in DOMAIN episodes /\ episodes'[k] = episodes[k]
        BY <2>2, <1>1, <1>5, UpsertIs
      <3> QED BY <2>2, <3>1, <1>0, <1>5 DEF RowsAreSaid
    <2> QED BY <2>1, <2>2
  <1>6. OpenIsOfNow' /\ RowsAreSaid'
    BY <1>0, <1>3, <1>5 DEF OpenIsOfNow, RowsAreSaid
  <1> QED BY <1>4, <1>6 DEF LagInv

LEMMA SetToSeqIs ==
    ASSUME NEW S, IsFiniteSet(S)
    PROVE  SetToSeq(S) \in Seq(S) /\ IsInjective(SetToSeq(S))
  <1>1. Cardinality(S) \in Nat /\ ExistsBijection(1..Cardinality(S), S)
    BY FS_CardinalityType
  <1>2. \E f \in [1..Cardinality(S) -> S] : IsInjective(f)
    BY <1>1 DEF ExistsBijection, Bijection, Injection
  <1>3. SetToSeq(S) \in [1..Cardinality(S) -> S] /\ IsInjective(SetToSeq(S))
    BY <1>2 DEF SetToSeq
  <1> QED BY <1>1, <1>3

\* The row an episode begins with is the same whatever it is beside.
LEMMA NewIsNew ==
    ASSUME NEW open, NEW other, NEW new, NEW wide, NEW i \in (lag.next + 1)..(lag.next + Len(new)),
           i \notin DOMAIN open, i \notin DOMAIN other
    PROVE  WithNew(open, new, wide)[i] = WithNew(other, new, wide)[i]
  BY DEF WithNew

LEMMA SecondKeeps == ASSUME LagInv, Second PROVE LagInv'
  <1>0. /\ LagShape /\ lag.on /\ ~asleep /\ OpenIsOfNow /\ RowsAreSaid
        /\ UNCHANGED <<mrun, asleep, budget>>
    BY DEF Second, LagInv
  <1>1. PICK late, marks : \E wide \in SUBSET DOMAIN lag.pools, turn \in SUBSET DOMAIN lag.pools :
          Evaluated([i \in DOMAIN lag.open |-> Aged(lag.open[i], i \in late, marks[i])], wide, turn)
    BY SecondIs
  <1> DEFINE aged == [i \in DOMAIN lag.open |-> Aged(lag.open[i], i \in late, marks[i])]
  <1>2. PICK wide \in SUBSET DOMAIN lag.pools, turn \in SUBSET DOMAIN lag.pools : Evaluated(aged, wide, turn)
    BY <1>1
  <1>3. DOMAIN aged = DOMAIN lag.open
    OBVIOUS
  <1>4. \A i \in DOMAIN aged : EpisodeIs(aged[i]) /\ aged[i].row.epoch = budget.sleeps /\ Said(aged[i].row)
    <2> SUFFICES ASSUME NEW i \in DOMAIN lag.open
                 PROVE  EpisodeIs(aged[i]) /\ aged[i].row.epoch = budget.sleeps /\ Said(aged[i].row)
      OBVIOUS
    <2>1. EpisodeIs(lag.open[i]) /\ lag.open[i].row.epoch = budget.sleeps /\ Said(lag.open[i].row)
      BY <1>0 DEF OpenIsOfNow
    <2>2. aged[i] = Aged(lag.open[i], i \in late, marks[i])
      OBVIOUS
    <2> HIDE DEF aged
    <2> QED BY <2>1, <2>2, AgedIs
  <1> HIDE DEF aged
  <1> DEFINE open == StillOpen(aged)
             new == SetToSeq(wide) \o SetToSeq(turn)
             seen == WithNew(aged, new, wide)
             next == WithNew(open, new, wide)
             F == (lag.next + 1)..(lag.next + Len(new))
  <1>5. /\ lag' = [lag EXCEPT !.open = next, !.next = lag.next + Len(new)]
        /\ episodes' = Upsert(seen, DOMAIN seen)
    BY <1>2 DEF Evaluated
  <1>6. DOMAIN open \subseteq DOMAIN aged /\ \A i \in DOMAIN open : open[i] = aged[i]
    BY DEF StillOpen
  <1>7. Len(new) \in Nat
    <2>1. IsFiniteSet(wide) /\ IsFiniteSet(turn)
      BY <1>0, FS_Subset DEF LagShape
    <2>2. SetToSeq(wide) \in Seq(wide) /\ SetToSeq(turn) \in Seq(turn)
      BY <2>1, SetToSeqIs
    <2>3. SetToSeq(wide) \in Seq(DOMAIN lag.pools) /\ SetToSeq(turn) \in Seq(DOMAIN lag.pools)
      BY <2>2
    <2> QED BY <2>3
  <1> HIDE DEF open, new, seen, next, F
  <1>8. DOMAIN aged \subseteq 1..lag.next /\ DOMAIN open \subseteq 1..lag.next /\ lag.next \in Nat
    BY <1>0, <1>3, <1>6 DEF LagShape
  <1>9. /\ DOMAIN seen = DOMAIN aged \cup F
        /\ \A i \in DOMAIN aged : seen[i] = aged[i]
        /\ \A i \in F : i \notin DOMAIN aged
    <2>1. Len(new) \in Nat /\ lag.next \in Nat /\ DOMAIN aged \subseteq 1..lag.next
      BY <1>7, <1>8
    <2>2. DOMAIN WithNew(aged, new, wide) = DOMAIN aged \cup (lag.next + 1)..(lag.next + Len(new))
      BY <2>1 DEF WithNew
    <2>3. \A i \in DOMAIN aged : WithNew(aged, new, wide)[i] = aged[i]
      BY <2>1 DEF WithNew
    <2>4. \A i \in (lag.next + 1)..(lag.next + Len(new)) : i \notin DOMAIN aged
      BY <2>1
    <2> QED BY <2>2, <2>3, <2>4 DEF seen, F
  <1>10. /\ DOMAIN next = DOMAIN open \cup F
         /\ \A i \in DOMAIN open : next[i] = aged[i]
         /\ \A i \in F : i \notin DOMAIN open /\ EpisodeIs(next[i]) /\ next[i].row.epoch = budget.sleeps /\ Said(next[i].row)
    <2>1. Len(new) \in Nat /\ lag.next \in Nat /\ DOMAIN open \subseteq 1..lag.next
      BY <1>7, <1>8
    <2>2. /\ DOMAIN next = DOMAIN open \cup F
          /\ \A i \in DOMAIN open : next[i] = open[i]
      BY <2>1 DEF WithNew, next, F
    <2>3. \A i \in F : i \notin DOMAIN open
      BY <2>1 DEF F
    <2>4. ASSUME NEW i \in F
          PROVE  EpisodeIs(next[i]) /\ next[i].row.epoch = budget.sleeps /\ Said(next[i].row)
      BY <2>3, <2>4 DEF WithNew, next, F, EpisodeIs, Said
    <2> QED BY <2>2, <2>3, <2>4, <1>6
  <1>11. \A i \in F : next[i] = seen[i]
    BY <1>9, <1>10, NewIsNew DEF seen, next, F
  <1>12. /\ DOMAIN lag' = DOMAIN lag /\ lag'.on = lag.on /\ lag'.next = lag.next + Len(new) /\ lag'.pools = lag.pools
         /\ lag'.open = next
    BY <1>0, <1>5 DEF LagShape
  <1>13. LagShape'
    <2>1. DOMAIN lag'.open \subseteq 1..lag'.next /\ lag'.next \in Nat
      BY <1>7, <1>8, <1>10, <1>12 DEF F
    <2> QED BY <1>0, <1>5, <1>12, <2>1, UpsertKeys DEF LagShape
  <1>14. OpenIsOfNow'
    <2> SUFFICES ASSUME NEW i \in DOMAIN next
                 PROVE  EpisodeIs(next[i]) /\ next[i].row.epoch = budget.sleeps /\ Said(next[i].row)
      BY <1>0, <1>12 DEF OpenIsOfNow
    <2>1. CASE i \in DOMAIN open
      BY <2>1, <1>4, <1>6, <1>10
    <2>2. CASE i \in F
      BY <2>2, <1>10
    <2> QED BY <2>1, <2>2, <1>10
  <1>15. ASSUME NEW k \in DOMAIN episodes', k[1] = mrun.n
         PROVE  IF k[2] \in DOMAIN next THEN episodes'[k] = next[k[2]].row ELSE Said(episodes'[k])
    <2>1. CASE k[2] \in DOMAIN seen
      <3>1. episodes'[k] = seen[k[2]].row
        BY <2>1, <1>5, <1>15, UpsertIs
      <3>2. CASE k[2] \in F
        BY <3>1, <3>2, <1>10, <1>11
      <3>3. CASE k[2] \in DOMAIN open
        BY <3>1, <3>3, <1>6, <1>9, <1>10
      <3>4. CASE k[2] \in DOMAIN aged /\ k[2] \notin DOMAIN open
        BY <3>1, <3>4, <1>4, <1>9, <1>10
      <3> QED BY <2>1, <3>2, <3>3, <3>4, <1>9
    <2>2. CASE k[2] \notin DOMAIN seen
      <3>1. k \in DOMAIN episodes /\ episodes'[k] = episodes[k]
        BY <2>2, <1>5, <1>15, UpsertIs
      <3>2. k[2] \notin DOMAIN next /\ k[2] \notin DOMAIN lag.open
        BY <2>2, <1>3, <1>6, <1>9, <1>10
      <3> QED BY <3>1, <3>2, <1>0, <1>15 DEF RowsAreSaid
    <2> QED BY <2>1, <2>2
  <1>16. RowsAreSaid'
    BY <1>0, <1>12, <1>15 DEF RowsAreSaid
  <1> QED BY <1>13, <1>14, <1>16 DEF LagInv

LEMMA LagStep == LagInv /\ [MeasureStep]_measureVars => LagInv'
  <1> SUFFICES ASSUME LagInv, [MeasureStep]_measureVars PROVE LagInv'
    OBVIOUS
  <1>0. LagShape
    BY DEF LagInv
  <1>1. ASSUME UNCHANGED <<lag, episodes, mrun, asleep, budget>> PROVE LagInv'
    BY <1>0, <1>1, LagAlone DEF LagShape
  <1>2. CASE UNCHANGED measureVars
    BY <1>1, <1>2 DEF measureVars
  <1>3. CASE AgesOut
    BY <1>1, <1>3 DEF AgesOut
  <1>4. ASSUME NEW c, Start(c) PROVE LagInv'
    BY <1>1, <1>4 DEF Start
  <1>5. CASE Slept
    BY <1>5, SleptKeepsRows
  <1>6. CASE Second
    BY <1>6, SecondKeeps
  <1>7. ASSUME NEW p, Confirm(p) PROVE LagInv'
    BY <1>7, ConfirmKeeps
  <1>8. CASE GateStops
    <2>1. (\E a : lag' = [lag EXCEPT !.answers = a]) /\ UNCHANGED <<episodes, mrun, asleep, budget>>
      BY <1>8 DEF GateStops
    <2>2. /\ DOMAIN lag' = DOMAIN lag /\ lag'.on = lag.on /\ lag'.open = lag.open /\ lag'.next = lag.next
          /\ lag'.pools = lag.pools
      BY <1>0, <2>1 DEF LagShape
    <2> QED BY <1>0, <2>1, <2>2, LagAlone DEF LagShape
  <1>9. ASSUME NEW id, NEW ok, AnswerConfirm(id, ok) PROVE LagInv'
    <2>1. (\E a : lag' = [lag EXCEPT !.answers = a]) /\ UNCHANGED <<episodes, mrun, asleep, budget>>
      BY <1>9 DEF AnswerConfirm
    <2>2. /\ DOMAIN lag' = DOMAIN lag /\ lag'.on = lag.on /\ lag'.open = lag.open /\ lag'.next = lag.next
          /\ lag'.pools = lag.pools
      BY <1>0, <2>1 DEF LagShape
    <2> QED BY <1>0, <2>1, <2>2, LagAlone DEF LagShape
  <1>10. ASSUME NEW d, NEW g, PoolTick(d, g) PROVE LagInv'
    <2> DEFINE pools == [x \in DOMAIN lag.pools \cup {d} |-> IF x = d THEN g ELSE lag.pools[x]]
    <2>1. lag' = [lag EXCEPT !.pools = pools] /\ UNCHANGED <<episodes, mrun, asleep, budget>>
      BY <1>10 DEF PoolTick
    <2>2. IsFiniteSet(DOMAIN pools)
      BY <1>0, FS_AddElement DEF LagShape
    <2> HIDE DEF pools
    <2>3. /\ DOMAIN lag' = DOMAIN lag /\ lag'.on = lag.on /\ lag'.open = lag.open /\ lag'.next = lag.next
          /\ lag'.pools = pools
      BY <1>0, <2>1 DEF LagShape
    <2> QED BY <2>1, <2>2, <2>3, LagAlone
  <1>11. ASSUME NEW who, Round(who) PROVE LagInv'
    <2>1. (\E n : budget' = [budget EXCEPT !.normal = n]) \/ budget' = budget
      BY <1>11 DEF Round
    <2>2. DOMAIN budget' = DOMAIN budget /\ budget'.sleeps = budget.sleeps
      BY <1>0, <2>1 DEF LagShape
    <2>3. UNCHANGED <<lag, episodes, mrun, asleep>>
      BY <1>11 DEF Round
    <2> QED BY <1>0, <2>2, <2>3, LagAlone DEF LagShape
  <1>12. ASSUME NEW who, NEW ok, AnswerLeg(who, ok) PROVE LagInv'
    BY <1>1, <1>12 DEF AnswerLeg
  <1>13. ASSUME NEW id, AnswerExit(id) PROVE LagInv'
    BY <1>1, <1>13 DEF AnswerExit
  <1>14. ASSUME NEW id, AnswerScale(id) PROVE LagInv'
    BY <1>1, <1>14 DEF AnswerScale
  <1>15. CASE LagStops
    <2>1. lag' = LagOff /\ episodes' = Upsert(lag.open, DOMAIN lag.open) /\ UNCHANGED <<mrun, budget>>
      BY <1>15 DEF LagStops
    <2>2. LagShape'
      BY <1>0, <2>1, UpsertKeys, FS_EmptySet DEF LagShape, LagOff
    <2> QED BY <2>1, <2>2 DEF LagInv, LagOff
  <1>16. CASE RunStarts
    <2>1. /\ lag' = [LagOff EXCEPT !.on = TRUE] /\ mrun' = [n |-> mrun.n + 1, up |-> TRUE, stopping |-> FALSE]
          /\ UNCHANGED <<episodes, budget>>
      BY <1>16 DEF RunStarts
    <2>2. LagShape'
      BY <1>0, <2>1, FS_EmptySet DEF LagShape, LagOff
    <2>3. OpenIsOfNow'
      BY <2>1 DEF OpenIsOfNow, LagOff
    <2>4. \A k \in DOMAIN episodes : k[1] # mrun'.n
      BY <1>0, <2>1 DEF LagShape
    <2>5. RowsAreSaid'
      BY <2>1, <2>4 DEF RowsAreSaid
    <2> QED BY <2>2, <2>3, <2>5 DEF LagInv
  <1>17. CASE Stop
    <2>1. mrun' = [mrun EXCEPT !.stopping = TRUE] /\ UNCHANGED <<lag, episodes, asleep, budget>>
      BY <1>17 DEF Stop
    <2>2. DOMAIN mrun' = DOMAIN mrun /\ mrun'.n = mrun.n
      BY <1>0, <2>1 DEF LagShape
    <2> QED BY <1>0, <2>1, <2>2, LagAlone DEF LagShape
  <1>18. CASE RunEnds
    <2>1. lag' = LagOff /\ mrun' = [mrun EXCEPT !.up = FALSE, !.stopping = FALSE] /\ UNCHANGED <<episodes, budget>>
      BY <1>18 DEF RunEnds
    <2>2. LagShape'
      BY <1>0, <2>1, FS_EmptySet DEF LagShape, LagOff
    <2> QED BY <2>1, <2>2 DEF LagInv, LagOff
  <1>19. CASE Sleeps
    <2>1. /\ asleep' = TRUE /\ budget' = [budget EXCEPT !.sleeps = budget.sleeps - 1]
          /\ UNCHANGED <<lag, episodes, mrun>>
      BY <1>19 DEF Sleeps
    <2>2. LagShape'
      BY <1>0, <2>1 DEF LagShape
    <2>3. lag.on => OpenIsOfNow' /\ RowsAreSaid'
      BY <2>1 DEF LagInv, OpenIsOfNow, RowsAreSaid
    <2> QED BY <2>1, <2>2, <2>3 DEF LagInv
  <1> QED
    BY <1>2, <1>3, <1>4, <1>5, <1>6, <1>7, <1>8, <1>9, <1>10, <1>11, <1>12, <1>13, <1>14, <1>15, <1>16, <1>17,
       <1>18, <1>19
    DEF MeasureStep, LadderRound, XchainRound, AnswerLadder, AnswerXchain

LEMMA MeasureInitIs == MeasureInit => WindowInv /\ LagInv
  <1> SUFFICES ASSUME MeasureInit PROVE WindowInv /\ LagInv
    OBVIOUS
  <1>1. WindowInv
    BY DEF MeasureInit, WindowInv, Reserved, GateOff
  <1>2. /\ {"on", "pools", "open", "answers", "next"} \subseteq DOMAIN lag /\ lag.next = 0 /\ lag.on = FALSE
        /\ lag.open = << >> /\ lag.pools = << >>
    BY DEF MeasureInit, LagOff
  <1>3. {"n", "up", "stopping"} \subseteq DOMAIN mrun /\ mrun.n = 0 /\ DOMAIN episodes = {}
    BY DEF MeasureInit
  <1>4. {"sleeps", "normal"} \subseteq DOMAIN budget
    <2>1. budget \in [sleeps : Nat, normal : Nat, episodes : Nat, stops : Nat]
      BY MeasureAssumption DEF MeasureInit
    <2> QED BY <2>1
  <1>5. IsFiniteSet(DOMAIN lag.pools)
    <2>1. DOMAIN lag.pools = {}
      BY <1>2
    <2> QED BY <2>1, FS_EmptySet
  <1>6. LagShape
    BY <1>2, <1>3, <1>4, <1>5 DEF LagShape
  <1> QED BY <1>1, <1>2, <1>6 DEF LagInv

\* Gate, evaluate and what sleeps between: for any window, exits and numbers of
\* episodes, entries are not held up, and a row that has values from both sides of
\* a sleep says so.
LEMMA MeasureIs == MeasureSpec => [](EntryFindsASlot /\ InterruptedIsSaid)
  <1>1. LagInv => InterruptedIsSaid
    <2> SUFFICES ASSUME LagInv, NEW k \in DOMAIN episodes, k[1] = mrun.n, lag.on, ~asleep, episodes[k].mixed
                 PROVE  episodes[k].err # "none"
      BY DEF InterruptedIsSaid
    <2>1. Said(episodes[k])
      <3>1. CASE k[2] \in DOMAIN lag.open
        BY <3>1 DEF LagInv, OpenIsOfNow, RowsAreSaid
      <3>2. CASE k[2] \notin DOMAIN lag.open
        BY <3>2 DEF LagInv, RowsAreSaid
      <3> QED BY <3>1, <3>2
    <2> QED BY <2>1 DEF Said
  <1> QED
    BY MeasureInitIs, WindowStep, LagStep, WindowLeavesRoom, <1>1, PTL DEF MeasureSpec

----------------------------------------------------------------------------
(* Pools *)

\* --research-pools on its own.
PoolsSpec == PoolsInit /\ [][PoolsStep]_poolsVars

EdgeRows == [slot : Nat, sell : PoolNames, buy : PoolNames, gross : Int]

PoolsInv ==
    /\ chain \in Seq([PoolNames -> Prices]) /\ Len(chain) > 0
    /\ lastSlot \in Nat /\ edges \in Seq(EdgeRows)
    /\ \A i \in DOMAIN edges : edges[i].slot \in DOMAIN chain /\ edges[i].slot <= lastSlot
    /\ EdgesAreOfTheirSlot

LEMMA OneIsASeq ==
    ASSUME NEW S, NEW f \in [1..1 -> S]
    PROVE  f \in Seq(S) /\ Len(f) = 1
  <1>1. f = <<f[1]>> /\ f[1] \in S
    OBVIOUS
  <1>2. <<f[1]>> \in Seq(S)
    BY <1>1
  <1>3. Len(<<f[1]>>) = 1
    OBVIOUS
  <1> QED BY <1>1, <1>2, <1>3, Zenon

LEMMA Appended ==
    ASSUME NEW S, NEW b \in Seq(S), NEW c \in Seq(S)
    PROVE  /\ b \o c \in Seq(S) /\ DOMAIN b = 1..Len(b) /\ DOMAIN c = 1..Len(c)
           /\ \A i \in DOMAIN b : i \in DOMAIN (b \o c) /\ (b \o c)[i] = b[i]
           /\ \A i \in DOMAIN (b \o c) : i \in DOMAIN b \/ (i \notin DOMAIN b /\ i - Len(b) \in DOMAIN c /\ (b \o c)[i] = c[i - Len(b)])
           /\ Len(b) \in Nat /\ DOMAIN (b \o c) \subseteq Nat
  OBVIOUS

LEMMA TradeKeeps ==
    ASSUME PoolsInv, Trade
    PROVE  PoolsInv'
  <1>0. /\ chain \in Seq([PoolNames -> Prices]) /\ Len(chain) > 0 /\ lastSlot \in Nat /\ edges \in Seq(EdgeRows)
        /\ \A i \in DOMAIN edges : edges[i].slot \in DOMAIN chain /\ edges[i].slot <= lastSlot
    BY DEF PoolsInv
  <1>1. PICK p \in PoolNames, x \in Prices : chain' = Append(chain, [Last(chain) EXCEPT ![p] = x])
    BY DEF Trade
  <1>2. Last(chain) \in [PoolNames -> Prices]
    BY <1>0 DEF Last
  <1>3. [Last(chain) EXCEPT ![p] = x] \in [PoolNames -> Prices]
    BY <1>2
  <1>4. /\ chain' \in Seq([PoolNames -> Prices]) /\ Len(chain') > 0
        /\ \A i \in DOMAIN chain : i \in DOMAIN chain' /\ chain'[i] = chain[i]
    BY <1>0, <1>1, <1>3
  <1>5. UNCHANGED <<deps, lastSlot, edges, taken>>
    BY DEF Trade
  <1>6. EdgesAreOfTheirSlot'
    BY <1>0, <1>4, <1>5 DEF PoolsInv, EdgesAreOfTheirSlot
  <1> QED BY <1>0, <1>4, <1>5, <1>6 DEF PoolsInv

LEMMA RoundTripsAre ==
    ASSUME PoolsInv, NEW slot \in DOMAIN chain, NEW ready \in SUBSET PoolNames,
           \A p \in ready : Usable(p, chain[slot][p])
    PROVE  /\ IsFiniteSet(RoundTrips(slot, ready))
           /\ \A e \in RoundTrips(slot, ready) :
                /\ e \in EdgeRows /\ e.slot = slot
                /\ e.gross = chain[slot][e.sell] - chain[slot][e.buy]
  <1> DEFINE R == RoundTrips(slot, ready)
             D == {y \in ready \X ready : y[1] # y[2]}
  <1>0. chain \in Seq([PoolNames -> Prices]) /\ slot \in Nat
    BY DEF PoolsInv
  <1>1. chain[slot] \in [PoolNames -> Prices]
    BY <1>0
  <1>2. \A p \in ready : chain[slot][p] \in Int /\ Decoded(p, chain[slot][p]) = chain[slot][p]
    <2> SUFFICES ASSUME NEW p \in ready
                 PROVE  chain[slot][p] \in Int /\ Decoded(p, chain[slot][p]) = chain[slot][p]
      OBVIOUS
    <2>1. chain[slot][p] \in Int
      <3>1. p \in PoolNames
        OBVIOUS
      <3>2. chain[slot][p] \in Prices
        BY <1>1, <3>1
      <3>3. Prices \subseteq Int
        BY PoolsAssumption
      <3> QED BY <3>2, <3>3
    <2>2. Dependencies(chain[slot][p]) = deps[p]
      BY DEF Usable
    <2> QED BY <2>1, <2>2 DEF Decoded
  <1>3. R = {[slot |-> slot, sell |-> x[1], buy |-> x[2],
              gross |-> Decoded(x[1], chain[slot][x[1]]) - Decoded(x[2], chain[slot][x[2]])] : x \in D}
    BY DEF RoundTrips
  <1>4. ASSUME NEW e \in R
        PROVE  /\ e \in EdgeRows /\ e.slot = slot /\ <<e.sell, e.buy>> \in D
               /\ e.gross = chain[slot][e.sell] - chain[slot][e.buy]
    <2>1. PICK x \in D : e = [slot |-> slot, sell |-> x[1], buy |-> x[2],
              gross |-> Decoded(x[1], chain[slot][x[1]]) - Decoded(x[2], chain[slot][x[2]])]
      BY <1>3
    <2>2. x[1] \in ready /\ x[2] \in ready /\ x = <<x[1], x[2]>>
      BY <2>1
    <2> QED BY <1>0, <1>2, <2>1, <2>2 DEF EdgeRows
  <1>5. IsFiniteSet(R)
    <2> DEFINE f == [e \in R |-> <<e.sell, e.buy>>]
    <2>1. IsFiniteSet(D)
      <3>1. IsFiniteSet(ready)
        BY PoolsAssumption, FS_Subset
      <3>2. IsFiniteSet(ready \X ready)
        BY <3>1, FS_Product
      <3>3. D \subseteq ready \X ready
        OBVIOUS
      <3> QED BY <3>2, <3>3, FS_Subset
    <2>2. f \in [R -> D]
      BY <1>4
    <2>3. ASSUME NEW a \in R, NEW b \in R, a.sell = b.sell, a.buy = b.buy PROVE a = b
      <3>1. a.slot = b.slot /\ a.gross = b.gross /\ a \in EdgeRows /\ b \in EdgeRows
        BY <1>4, <2>3
      <3> QED BY <2>3, <3>1 DEF EdgeRows
    <2>4. IsInjective(f)
      BY <2>3 DEF IsInjective
    <2>5. f \in Injection(R, D)
      BY <2>2, <2>4 DEF Injection
    <2> QED BY <2>1, <2>5, FS_Injection
  <1> QED BY <1>4, <1>5

LEMMA SnapshotKeeps ==
    ASSUME PoolsInv, NEW slot \in DOMAIN chain, NEW missing, Snapshot(slot, missing)
    PROVE  PoolsInv'
  <1>0. /\ chain \in Seq([PoolNames -> Prices]) /\ Len(chain) > 0 /\ lastSlot \in Nat /\ edges \in Seq(EdgeRows)
        /\ \A i \in DOMAIN edges : edges[i].slot \in DOMAIN chain /\ edges[i].slot <= lastSlot
        /\ slot \in Nat /\ chain' = chain
    BY DEF PoolsInv, Snapshot
  <1>1. CASE slot > lastSlot
    <2> DEFINE ready == {p \in PoolNames \ missing : Usable(p, chain[slot][p])}
               R == RoundTrips(slot, ready)
               rows == SetToSeq(R)
    <2>1. lastSlot' = slot /\ edges' = edges \o rows
      BY <1>1 DEF Snapshot
    <2>2. /\ IsFiniteSet(R)
          /\ \A e \in R : /\ e \in EdgeRows /\ e.slot = slot
                          /\ e.gross = chain[slot][e.sell] - chain[slot][e.buy]
      <3>1. ready \in SUBSET PoolNames /\ \A p \in ready : Usable(p, chain[slot][p])
        OBVIOUS
      <3> HIDE DEF ready
      <3> QED BY <3>1, RoundTripsAre
    <2> HIDE DEF R
    <2>3. rows \in Seq(R) /\ IsInjective(rows)
      BY <2>2, SetToSeqIs
    <2>4. rows \in Seq(EdgeRows) /\ \A j \in DOMAIN rows : rows[j] \in R
      BY <2>2, <2>3
    <2> HIDE DEF rows
    <2>5. /\ edges' \in Seq(EdgeRows)
          /\ \A i \in DOMAIN edges : i \in DOMAIN edges' /\ edges'[i] = edges[i]
          /\ \A i \in DOMAIN edges' : i \in Nat /\
                (i \in DOMAIN edges \/ (i \notin DOMAIN edges /\ i - Len(edges) \in DOMAIN rows /\ edges'[i] = rows[i - Len(edges)]))
          /\ Len(edges) \in Nat
      BY <1>0, <2>1, <2>4, Appended
    <2>6. ASSUME NEW i \in DOMAIN edges', i \notin DOMAIN edges
          PROVE  /\ edges'[i].slot = slot
                 /\ edges'[i].gross = chain[slot][edges'[i].sell] - chain[slot][edges'[i].buy]
      <3>1. edges'[i] \in R
        BY <2>4, <2>5, <2>6
      <3> QED BY <3>1, <2>2
    <2>7. ASSUME NEW i \in DOMAIN edges'
          PROVE  /\ edges'[i].slot \in DOMAIN chain /\ edges'[i].slot <= slot
                 /\ edges'[i].gross = chain[edges'[i].slot][edges'[i].sell] - chain[edges'[i].slot][edges'[i].buy]
      <3>1. CASE i \in DOMAIN edges
        <4>1. edges[i].slot \in DOMAIN chain /\ edges[i].slot <= lastSlot /\ edges[i].slot \in Nat
          BY <1>0, <3>1
        <4>2. edges[i].slot <= slot
          BY <4>1, <1>0, <1>1
        <4>3. edges[i].gross = chain[edges[i].slot][edges[i].sell] - chain[edges[i].slot][edges[i].buy]
          BY <3>1 DEF PoolsInv, EdgesAreOfTheirSlot
        <4> QED BY <3>1, <4>1, <4>2, <4>3, <2>5
      <3>2. CASE i \notin DOMAIN edges
        BY <3>2, <2>6, <1>0
      <3> QED BY <3>1, <3>2
    <2>8. ASSUME NEW i \in DOMAIN edges', NEW j \in DOMAIN edges', edges'[i] = edges'[j] PROVE i = j
      <3>1. CASE i \in DOMAIN edges /\ j \in DOMAIN edges
        BY <3>1, <2>5, <2>8 DEF PoolsInv, EdgesAreOfTheirSlot
      <3>2. CASE i \in DOMAIN edges /\ j \notin DOMAIN edges
        <4>1. edges[i].slot <= lastSlot /\ edges[i].slot = slot
          BY <3>2, <2>5, <2>6, <2>8, <1>0
        <4> QED BY <4>1, <1>0, <1>1
      <3>3. CASE i \notin DOMAIN edges /\ j \in DOMAIN edges
        <4>1. edges[j].slot <= lastSlot /\ edges[j].slot = slot
          BY <3>3, <2>5, <2>6, <2>8, <1>0
        <4> QED BY <4>1, <1>0, <1>1
      <3>4. CASE i \notin DOMAIN edges /\ j \notin DOMAIN edges
        <4>1. rows[i - Len(edges)] = rows[j - Len(edges)] /\ i - Len(edges) \in DOMAIN rows /\ j - Len(edges) \in DOMAIN rows
          BY <3>4, <2>5, <2>8
        <4>2. i - Len(edges) = j - Len(edges)
          BY <4>1, <2>3 DEF IsInjective
        <4> QED BY <4>2, <2>5
      <3> QED BY <3>1, <3>2, <3>3, <3>4
    <2>9. EdgesAreOfTheirSlot'
      BY <1>0, <2>7, <2>8 DEF EdgesAreOfTheirSlot
    <2> QED BY <1>0, <2>1, <2>5, <2>7, <2>9 DEF PoolsInv
  <1>2. CASE ~(slot > lastSlot)
    <2>1. UNCHANGED <<lastSlot, edges>>
      BY <1>2 DEF Snapshot
    <2>2. EdgesAreOfTheirSlot'
      BY <1>0, <2>1 DEF PoolsInv, EdgesAreOfTheirSlot
    <2> QED BY <1>0, <2>1, <2>2 DEF PoolsInv
  <1> QED BY <1>1, <1>2

LEMMA PoolsIs == PoolsSpec => []EdgesAreOfTheirSlot
  <1>1. PoolsInit => PoolsInv
    <2> SUFFICES ASSUME PoolsInit PROVE PoolsInv
      OBVIOUS
    <2>1. chain \in Seq([PoolNames -> Prices]) /\ Len(chain) = 1
      <3>1. PICK f \in [1..1 -> [PoolNames -> Prices]] : chain = f
        BY DEF PoolsInit
      <3> QED BY <3>1, OneIsASeq
    <2> QED BY <2>1 DEF PoolsInit, PoolsInv, EdgesAreOfTheirSlot
  <1>2. PoolsInv /\ [PoolsStep]_poolsVars => PoolsInv'
    <2> SUFFICES ASSUME PoolsInv, [PoolsStep]_poolsVars PROVE PoolsInv'
      OBVIOUS
    <2>1. CASE UNCHANGED poolsVars
      BY <2>1 DEF poolsVars, PoolsInv, EdgesAreOfTheirSlot
    <2>2. CASE Trade
      BY <2>2, TradeKeeps
    <2>3. ASSUME NEW slot \in DOMAIN chain, NEW missing, Snapshot(slot, missing) PROVE PoolsInv'
      BY <2>3, SnapshotKeeps
    <2> QED BY <2>1, <2>2, <2>3 DEF PoolsStep
  <1>3. PoolsInv => EdgesAreOfTheirSlot
    BY DEF PoolsInv
  <1> QED BY <1>1, <1>2, <1>3, PTL DEF PoolsSpec

\* Gate, evaluate and what sleeps between, and the pools' snapshots: for any
\* window, pools, prices and numbers of episodes, entries are not held up, a row
\* with values from both sides of a sleep says so, and an edge is what its two
\* pools would have paid at its slot, once.
THEOREM MeasurementsAreTrue == MeasureSpec /\ PoolsSpec => []MeasuresAreTrue
  BY MeasureIs, PoolsIs, PTL DEF MeasuresAreTrue
=============================================================================
