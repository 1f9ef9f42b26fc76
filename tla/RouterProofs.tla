---------------------------- MODULE RouterProofs ----------------------------
(***************************************************************************)
(* Proofs about Router, for any routes, prices, budgets and numbers of     *)
(* requests: no job is held twice and pending news is scheduled; no job is *)
(* lost while a leg has one place; each pricing starts from newer quotes.  *)
(***************************************************************************)
EXTENDS Router, WellFoundedInduction, FiniteSetTheorems, TLAPS

----------------------------------------------------------------------------
(* Recursion *)

LEMMA LeastOf ==
    ASSUME NEW T \in SUBSET Nat, T # {}
    PROVE  \E x \in T : \A y \in T : x <= y
  <1>1. PICK x \in T : \A y \in T : ~(<<y, x>> \in OpToRel(<, Nat))
    BY NatLessThanWellFounded, WFMin
  <1>2. \A y \in T : ~(y < x)
    BY <1>1 DEF OpToRel
  <1> HIDE <1>1
  <1> QED BY <1>2

LEMMA SetInduction ==
    ASSUME NEW S, 0 \in S, \A n \in Nat : n \in S => n + 1 \in S
    PROVE  \A n \in Nat : n \in S
  <1> DEFINE T == {n \in Nat : n \notin S}
  <1>1. SUFFICES ASSUME T # {} PROVE FALSE
    OBVIOUS
  <1>2. PICK x \in T : \A y \in T : x <= y
    BY <1>1, LeastOf
  <1>3. x # 0 /\ x - 1 \in Nat
    BY <1>2
  <1>4. x - 1 \in S
    BY <1>2, <1>3
  <1> QED BY <1>2, <1>3, <1>4

Steps(A, n) == [A \X (1..n) -> A]
Run(A, z, n, F, g) == g \in [0..n -> A] /\ g[0] = z /\ \A k \in 1..n : g[k] = F[<<g[k - 1], k>>]

LEMMA Recursion ==
    ASSUME NEW A, NEW z \in A, NEW n \in Nat, NEW F \in Steps(A, n)
    PROVE  \E g : Run(A, z, n, F, g)
  <1> DEFINE S == {m \in Nat : m <= n =>
                     \E g \in [0..m -> A] : g[0] = z /\ \A k \in 1..m : g[k] = F[<<g[k - 1], k>>]}
  <1>1. 0 \in S
    <2> DEFINE g == [k \in 0..0 |-> z]
    <2>1. g \in [0..0 -> A] /\ g[0] = z /\ \A k \in 1..0 : g[k] = F[<<g[k - 1], k>>]
      OBVIOUS
    <2> QED BY <2>1
  <1>2. ASSUME NEW m \in Nat, m \in S PROVE m + 1 \in S
    <2>1. SUFFICES ASSUME m + 1 <= n
          PROVE \E g \in [0..(m + 1) -> A] : g[0] = z /\ \A k \in 1..(m + 1) : g[k] = F[<<g[k - 1], k>>]
      OBVIOUS
    <2>2. PICK g \in [0..m -> A] : g[0] = z /\ \A k \in 1..m : g[k] = F[<<g[k - 1], k>>]
      BY <1>2, <2>1
    <2>3. m + 1 \in 1..n /\ g[m] \in A
      BY <2>1, <2>2
    <2> DEFINE v == F[<<g[m], m + 1>>]
               h == [k \in 0..(m + 1) |-> IF k = m + 1 THEN v ELSE g[k]]
    <2>4. v \in A
      BY <2>3 DEF Steps
    <2> HIDE DEF v
    <2>5. h \in [0..(m + 1) -> A] /\ h[0] = z /\ h[m + 1] = v /\ \A k \in 0..m : h[k] = g[k]
      BY <2>2, <2>4
    <2> HIDE DEF h
    <2>6. ASSUME NEW k \in 1..(m + 1) PROVE h[k] = F[<<h[k - 1], k>>]
      <3>1. CASE k = m + 1
        <4>1. k - 1 = m /\ m \in 0..m
          BY <3>1
        <4> QED BY <4>1, <3>1, <2>5 DEF v
      <3>2. CASE k # m + 1
        <4>1. k \in 1..m /\ k \in 0..m /\ k - 1 \in 0..m
          BY <3>2
        <4> QED BY <4>1, <2>2, <2>5
      <3> QED BY <3>1, <3>2
    <2> QED BY <2>5, <2>6
  <1> HIDE DEF S
  <1>3. n \in S
    BY <1>1, <1>2, SetInduction
  <1> QED BY <1>3 DEF S, Run

----------------------------------------------------------------------------
(* Lists *)

Lists == Seq(Routes)
Distinct(s) == \A i, j \in DOMAIN s : s[i] = s[j] => i = j

LEMMA InList ==
    ASSUME NEW s \in Lists
    PROVE  Len(s) \in Nat /\ DOMAIN s = 1..Len(s) /\ (\A i \in DOMAIN s : s[i] \in Routes) /\ ToSet(s) \subseteq Routes
  BY DEF Lists, ToSet

LEMMA Joined ==
    ASSUME NEW s \in Lists, NEW t \in Lists
    PROVE  /\ s \o t \in Lists /\ ToSet(s \o t) = ToSet(s) \cup ToSet(t)
           /\ \A i \in DOMAIN (s \o t) : \/ i \in DOMAIN s /\ (s \o t)[i] = s[i]
                                         \/ i - Len(s) \in DOMAIN t /\ (s \o t)[i] = t[i - Len(s)]
  <1> DEFINE n == Len(s)  m == Len(t)  u == s \o t
  <1>1. n \in Nat /\ DOMAIN s = 1..n /\ m \in Nat /\ DOMAIN t = 1..m
    BY InList
  <1>2. u \in Lists /\ Len(u) = n + m
    BY DEF Lists
  <1>3. DOMAIN u = 1..(n + m)
    BY <1>2, InList
  <1>4. (\A i \in 1..n : u[i] = s[i]) /\ \A i \in 1..m : u[n + i] = t[i]
    BY DEF Lists
  <1> HIDE DEF n, m, u
  <1>5. /\ \A i \in 1..n : i \in 1..(n + m)
        /\ \A i \in 1..m : n + i \in 1..(n + m)
        /\ \A i \in 1..(n + m) : i \in 1..n \/ (i - n \in 1..m /\ n + (i - n) = i)
    BY <1>1
  <1>6. \A i \in DOMAIN u : (i \in DOMAIN s /\ u[i] = s[i]) \/ (i - n \in DOMAIN t /\ u[i] = t[i - n])
    BY <1>1, <1>3, <1>4, <1>5
  <1>7. ToSet(u) = ToSet(s) \cup ToSet(t)
    <2>1. \A x : x \in ToSet(u) => x \in ToSet(s) \/ x \in ToSet(t)
      BY <1>6 DEF ToSet
    <2>2. \A x : x \in ToSet(s) => x \in ToSet(u)
      BY <1>1, <1>3, <1>4, <1>5 DEF ToSet
    <2>3. \A x : x \in ToSet(t) => x \in ToSet(u)
      BY <1>1, <1>3, <1>4, <1>5 DEF ToSet
    <2> QED BY <2>1, <2>2, <2>3
  <1> QED BY <1>2, <1>6, <1>7 DEF u, n

LEMMA JoinedDistinct ==
    ASSUME NEW s \in Lists, NEW t \in Lists, Distinct(s), Distinct(t), ToSet(s) \cap ToSet(t) = {}
    PROVE  Distinct(s \o t)
  <1> DEFINE n == Len(s)  u == s \o t
  <1>1. \A i \in DOMAIN u : (i \in DOMAIN s /\ u[i] = s[i]) \/ (i - n \in DOMAIN t /\ u[i] = t[i - n])
    BY Joined
  <1>2. n \in Nat /\ Len(t) \in Nat /\ DOMAIN s = 1..n /\ DOMAIN t = 1..Len(t) /\ DOMAIN u = 1..Len(u) /\ Len(u) \in Nat
    BY InList, Joined
  <1> HIDE DEF n, u
  <1>3. SUFFICES ASSUME NEW i \in DOMAIN u, NEW j \in DOMAIN u, u[i] = u[j] PROVE i = j
    BY DEF Distinct, u
  <1>4. CASE i \in DOMAIN s /\ u[i] = s[i] /\ j \in DOMAIN s /\ u[j] = s[j]
    BY <1>3, <1>4 DEF Distinct
  <1>5. CASE i - n \in DOMAIN t /\ u[i] = t[i - n] /\ j - n \in DOMAIN t /\ u[j] = t[j - n]
    <2>1. i - n = j - n
      BY <1>3, <1>5 DEF Distinct
    <2> QED BY <2>1, <1>2
  <1>6. \A a \in DOMAIN s, b \in DOMAIN t : s[a] # t[b]
    BY DEF ToSet
  <1> QED BY <1>1, <1>3, <1>4, <1>5, <1>6

LEMMA Rest ==
    ASSUME NEW s \in Lists, s # <<>>
    PROVE  /\ Tail(s) \in Lists /\ Head(s) \in ToSet(s) /\ 1 \in DOMAIN s /\ Head(s) = s[1]
           /\ \A i \in DOMAIN Tail(s) : i + 1 \in DOMAIN s /\ Tail(s)[i] = s[i + 1] /\ i # 0
           /\ \A i \in DOMAIN s : i # 1 => i - 1 \in DOMAIN Tail(s) /\ Tail(s)[i - 1] = s[i]
  <1>1. Len(s) \in Nat /\ DOMAIN s = 1..Len(s) /\ Len(s) # 0
    BY InList DEF Lists
  <1>2. Tail(s) \in Lists /\ Len(Tail(s)) = Len(s) - 1 /\ Head(s) = s[1]
    BY <1>1 DEF Lists
  <1>3. \A i \in 1..(Len(s) - 1) : Tail(s)[i] = s[i + 1]
    BY <1>1 DEF Lists
  <1>4. DOMAIN Tail(s) = 1..(Len(s) - 1)
    BY <1>2, InList
  <1>5. Head(s) \in ToSet(s) /\ 1 \in DOMAIN s
    BY <1>1, <1>2 DEF ToSet
  <1>6. \A i \in DOMAIN Tail(s) : i + 1 \in DOMAIN s /\ i \in 1..(Len(s) - 1) /\ i # 0
    BY <1>1, <1>4
  <1>7. \A i \in DOMAIN s : i # 1 => i - 1 \in 1..(Len(s) - 1) /\ (i - 1) + 1 = i
    BY <1>1
  <1> QED BY <1>2, <1>3, <1>4, <1>5, <1>6, <1>7

\* One entry more, or a list of one.
LEMMA One ==
    ASSUME NEW r \in Routes
    PROVE  /\ <<r>> \in Lists /\ ToSet(<<r>>) = {r} /\ Distinct(<<r>>) /\ Head(<<r>>) = r /\ Tail(<<r>>) = <<>>
           /\ \A s \in Lists : Append(s, r) = s \o <<r>>
  <1>1. <<r>> \in Lists /\ ToSet(<<r>>) = {r} /\ Distinct(<<r>>)
    BY DEF Lists, ToSet, Distinct
  <1>2. Head(<<r>>) = r /\ Tail(<<r>>) = <<>>
    OBVIOUS
  <1>3. \A s \in Lists : Append(s, r) = s \o <<r>>
    BY DEF Lists
  <1> QED BY <1>1, <1>2, <1>3

LEMMA Appended ==
    ASSUME NEW s \in Lists, NEW r \in Routes
    PROVE  ToSet(Append(s, r)) = ToSet(s) \cup {r}
  <1>1. <<r>> \in Lists /\ ToSet(<<r>>) = {r} /\ Append(s, r) = s \o <<r>>
    BY One
  <1>2. ToSet(s \o <<r>>) = ToSet(s) \cup ToSet(<<r>>)
    BY <1>1, Joined
  <1> QED BY <1>1, <1>2

LEMMA NoEntries ==
    /\ <<>> \in Lists /\ ToSet(<<>>) = {} /\ Distinct(<<>>)
    /\ \A s \in Lists : <<>> \o s = s /\ s \o <<>> = s
  <1>1. <<>> \in Lists /\ ToSet(<<>>) = {} /\ Distinct(<<>>)
    BY DEF Lists, ToSet, Distinct
  <1>2. \A s \in Lists : <<>> \o s = s /\ s \o <<>> = s
    BY DEF Lists
  <1> QED BY <1>1, <1>2

\* The entries of a list in a set, in their order.
LEMMA OnlyIs ==
    ASSUME NEW s \in Lists, Distinct(s), NEW R
    PROVE  Only(s, R) \in Lists /\ Distinct(Only(s, R)) /\ ToSet(Only(s, R)) = ToSet(s) \cap R
  <1> DEFINE n == Len(s)
             F == [z \in Lists \X (1..n) |-> IF s[z[2]] \in R THEN Append(z[1], s[z[2]]) ELSE z[1]]
             E(g) == g = [i \in 0..n |-> IF i = 0 THEN <<>> ELSE
                                         IF s[i] \in R THEN Append(g[i - 1], s[i]) ELSE g[i - 1]]
             L == CHOOSE g : E(g)
  <1>1. n \in Nat /\ DOMAIN s = 1..n /\ \A i \in 1..n : s[i] \in Routes
    BY InList
  <1>2. \A x \in Lists, k \in 1..n : Append(x, s[k]) \in Lists
    BY <1>1 DEF Lists
  <1>3. /\ F \in Steps(Lists, n)
        /\ \A x \in Lists, k \in 1..n : F[<<x, k>>] = IF s[k] \in R THEN Append(x, s[k]) ELSE x
    BY <1>2 DEF Steps
  <1>4. <<>> \in Lists
    BY NoEntries
  <1>5. Only(s, R) = L[n]
    BY DEF Only
  <1> HIDE DEF F, n
  <1>6. PICK g : Run(Lists, <<>>, n, F, g)
    BY <1>1, <1>3, <1>4, Recursion
  <1>7. g \in [0..n -> Lists] /\ E(g)
    <2>1. \A k \in 1..n : k \in 0..n /\ k - 1 \in 0..n
      BY <1>1
    <2>2. g[0] = <<>> /\ \A k \in 1..n : g[k] = IF s[k] \in R THEN Append(g[k - 1], s[k]) ELSE g[k - 1]
      BY <1>3, <1>6, <2>1 DEF Run
    <2>3. g \in [0..n -> Lists]
      BY <1>6 DEF Run
    <2>4. \A k \in 0..n : k # 0 => k \in 1..n
      BY <1>1
    <2>5. \A k \in 0..n : g[k] = IF k = 0 THEN <<>> ELSE
                                 IF s[k] \in R THEN Append(g[k - 1], s[k]) ELSE g[k - 1]
      BY <2>2, <2>4
    <2> QED BY <2>3, <2>5, Zenon
  <1>8. E(L)
    BY <1>7
  <1> HIDE DEF L
  <1>9. L[0] = <<>> /\ \A k \in 1..n : L[k] = IF s[k] \in R THEN Append(L[k - 1], s[k]) ELSE L[k - 1]
    <2>1. 0 \in 0..n /\ \A k \in 1..n : k \in 0..n /\ k # 0
      BY <1>1
    <2> QED BY <1>8, <2>1
  <1> DEFINE Upto(k) == {s[i] : i \in 1..k} \cap R
             Good == {k \in Nat : k <= n => /\ L[k] \in Lists /\ Distinct(L[k]) /\ ToSet(L[k]) = Upto(k)}
  <1>10. 0 \in Good
    <2>1. Upto(0) = {}
      OBVIOUS
    <2> QED BY <2>1, <1>9, NoEntries
  <1>11. ASSUME NEW k \in Nat, k \in Good PROVE k + 1 \in Good
    <2>1. SUFFICES ASSUME k + 1 <= n
          PROVE  L[k + 1] \in Lists /\ Distinct(L[k + 1]) /\ ToSet(L[k + 1]) = Upto(k + 1)
      OBVIOUS
    <2>2. L[k] \in Lists /\ Distinct(L[k]) /\ ToSet(L[k]) = Upto(k)
      BY <1>11, <2>1, <1>1
    <2>3. k + 1 \in 1..n /\ (k + 1) - 1 = k /\ 1..(k + 1) = (1..k) \cup {k + 1} /\ s[k + 1] \in Routes
      BY <1>1, <2>1
    <2>4. L[k + 1] = IF s[k + 1] \in R THEN Append(L[k], s[k + 1]) ELSE L[k]
      BY <1>9, <2>3
    <2>5. Upto(k + 1) = Upto(k) \cup ({s[k + 1]} \cap R)
      BY <2>3
    <2>6. s[k + 1] \notin Upto(k)
      <3>1. \A i \in 1..k : i \in DOMAIN s /\ k + 1 \in DOMAIN s /\ i # k + 1
        BY <1>1, <2>1
      <3> QED BY <3>1 DEF Distinct
    <2> HIDE DEF Upto
    <2>7. CASE s[k + 1] \in R
      <3>1. L[k + 1] = L[k] \o <<s[k + 1]>> /\ <<s[k + 1]>> \in Lists /\ ToSet(<<s[k + 1]>>) = {s[k + 1]}
            /\ Distinct(<<s[k + 1]>>)
        BY <2>2, <2>3, <2>4, <2>7, One
      <3>2. L[k + 1] \in Lists /\ ToSet(L[k + 1]) = Upto(k) \cup {s[k + 1]}
        <4>1. /\ L[k] \o <<s[k + 1]>> \in Lists
              /\ ToSet(L[k] \o <<s[k + 1]>>) = ToSet(L[k]) \cup ToSet(<<s[k + 1]>>)
          BY <3>1, <2>2, Joined
        <4> QED BY <4>1, <3>1, <2>2, Zenon
      <3>3. Distinct(L[k + 1])
        BY <3>1, <2>2, <2>6, JoinedDistinct
      <3> QED BY <3>2, <3>3, <2>5, <2>7
    <2>8. CASE s[k + 1] \notin R
      BY <2>2, <2>4, <2>5, <2>8
    <2> QED BY <2>7, <2>8
  <1> HIDE DEF Good, Upto
  <1>12. n \in Good
    BY <1>1, <1>10, <1>11, SetInduction
  <1>13. Upto(n) = ToSet(s) \cap R
    BY <1>1 DEF Upto, ToSet
  <1> QED BY <1>1, <1>5, <1>12, <1>13 DEF Good

----------------------------------------------------------------------------
(* Lists of routes by place *)

Holdings == [Places -> Lists]

\* Entries that no place holds are added to one.
LEMMA Added ==
    ASSUME NEW P \in Holdings, Once(P), NEW a \in Places, NEW t \in Lists, Distinct(t),
           ToSet(t) \cap Named(P) = {}
    PROVE  LET Q == [P EXCEPT ![a] = P[a] \o t]
           IN  Q \in Holdings /\ Once(Q) /\ Named(Q) = Named(P) \cup ToSet(t)
  <1> DEFINE u == P[a] \o t
             Q == [P EXCEPT ![a] = u]
  <1>1. P[a] \in Lists /\ \A n \in Places : P[n] \in Lists
    BY DEF Holdings
  <1>2. u \in Lists /\ ToSet(u) = ToSet(P[a]) \cup ToSet(t)
    BY <1>1, Joined
  <1>3. /\ DOMAIN P = Places /\ DOMAIN Q = Places /\ Q \in Holdings
        /\ Q[a] = u /\ \A n \in Places : n # a => Q[n] = P[n]
    BY <1>2 DEF Holdings
  <1>4. Distinct(P[a]) /\ \A n \in Places : ToSet(P[n]) \subseteq Named(P)
    BY <1>3 DEF Once, Distinct, Named
  <1>5. Distinct(u)
    BY <1>1, <1>4, JoinedDistinct
  <1> HIDE DEF u, Q
  <1>6. Named(Q) = Named(P) \cup ToSet(t)
    BY <1>2, <1>3 DEF Named
  <1>7. \A m, n \in Places : m # n => ToSet(P[m]) \cap ToSet(P[n]) = {}
    BY <1>3 DEF Once, ToSet
  <1>8. \A m, n \in Places : m # n => ToSet(Q[m]) \cap ToSet(Q[n]) = {}
    BY <1>2, <1>3, <1>4, <1>7
  <1>9. \A n \in Places : Distinct(Q[n])
    BY <1>3, <1>5 DEF Once, Distinct
  <1>10. Once(Q)
    BY <1>3, <1>8, <1>9 DEF Once, Distinct, ToSet
  <1> QED BY <1>3, <1>6, <1>10 DEF Q, u

\* The first entry of a place is taken.
LEMMA Taken ==
    ASSUME NEW P \in Holdings, Once(P), NEW a \in Places, P[a] # <<>>
    PROVE  LET Q == [P EXCEPT ![a] = Tail(P[a])]
           IN  Q \in Holdings /\ Once(Q) /\ Named(Q) = Named(P) \ {Head(P[a])} /\ Head(P[a]) \in Named(P)
  <1> DEFINE u == Tail(P[a])
             Q == [P EXCEPT ![a] = u]
             h == Head(P[a])
  <1>1. P[a] \in Lists
    BY DEF Holdings
  <1>2. u \in Lists /\ 1 \in DOMAIN P[a] /\ h = P[a][1] /\ h \in ToSet(P[a])
        /\ (\A i \in DOMAIN u : i + 1 \in DOMAIN P[a] /\ u[i] = P[a][i + 1] /\ i # 0)
        /\ \A i \in DOMAIN P[a] : i # 1 => i - 1 \in DOMAIN u /\ u[i - 1] = P[a][i]
    BY <1>1, Rest
  <1>3. /\ DOMAIN P = Places /\ DOMAIN Q = Places /\ Q \in Holdings
        /\ Q[a] = u /\ \A n \in Places : n # a => Q[n] = P[n]
    BY <1>2 DEF Holdings
  <1>n. DOMAIN u = 1..Len(u) /\ Len(u) \in Nat
    BY <1>2, InList
  <1> HIDE DEF u, Q, h
  <1>4. \A n \in Places : Distinct(P[n]) /\ ToSet(P[n]) \subseteq Named(P)
    BY <1>3 DEF Once, Distinct, Named
  <1>5. ToSet(u) = ToSet(P[a]) \ {h}
    <2>1. \A i \in DOMAIN u : u[i] # h /\ u[i] \in ToSet(P[a])
      <3>1. \A i \in DOMAIN u : i + 1 # 1
        BY <1>n
      <3> QED BY <3>1, <1>2, <1>4 DEF Distinct, ToSet
    <2>2. \A i \in DOMAIN P[a] : P[a][i] = h \/ P[a][i] \in ToSet(u)
      BY <1>2 DEF ToSet
    <2> QED BY <2>1, <2>2 DEF ToSet
  <1>6. Distinct(u)
    <2>1. SUFFICES ASSUME NEW i \in DOMAIN u, NEW j \in DOMAIN u, u[i] = u[j] PROVE i = j
      BY DEF Distinct
    <2>2. i + 1 = j + 1
      BY <2>1, <1>2, <1>4 DEF Distinct
    <2> QED BY <2>2, <1>n
  <1>7. \A m, n \in Places : m # n => ToSet(P[m]) \cap ToSet(P[n]) = {}
    BY <1>3 DEF Once, ToSet
  <1>8. \A m, n \in Places : m # n => ToSet(Q[m]) \cap ToSet(Q[n]) = {}
    BY <1>3, <1>5, <1>7
  <1>9. \A n \in Places : Distinct(Q[n])
    BY <1>3, <1>4, <1>6
  <1>10. Once(Q)
    BY <1>3, <1>8, <1>9 DEF Once, Distinct, ToSet
  <1>11. Named(Q) = Named(P) \ {h}
    <2>1. \A n \in Places : ToSet(Q[n]) = ToSet(P[n]) \ {h}
      BY <1>2, <1>3, <1>5, <1>7
    <2> QED BY <2>1, <1>3 DEF Named
  <1>12. h \in Named(P)
    BY <1>2, <1>4
  <1> QED BY <1>3, <1>10, <1>11, <1>12 DEF Q, u, h

\* A place is emptied.
LEMMA Emptied ==
    ASSUME NEW P \in Holdings, Once(P), NEW a \in Places
    PROVE  LET Q == [P EXCEPT ![a] = <<>>]
           IN  Q \in Holdings /\ Once(Q) /\ Named(Q) = Named(P) \ ToSet(P[a]) /\ Distinct(P[a])
               /\ ToSet(P[a]) \subseteq Named(P)
  <1> DEFINE Q == [P EXCEPT ![a] = <<>>]
  <1>1. /\ DOMAIN P = Places /\ DOMAIN Q = Places /\ Q \in Holdings
        /\ Q[a] = <<>> /\ \A n \in Places : n # a => Q[n] = P[n]
    BY NoEntries DEF Holdings
  <1>2. DOMAIN Q[a] = {}
    BY <1>1
  <1> HIDE DEF Q
  <1>3. \A n \in Places : Distinct(P[n]) /\ ToSet(P[n]) \subseteq Named(P)
    BY <1>1 DEF Once, Distinct, Named
  <1>4. Once(Q)
    BY <1>1, <1>2 DEF Once
  <1>5. \A m, n \in Places : m # n => ToSet(P[m]) \cap ToSet(P[n]) = {}
    BY <1>1 DEF Once, ToSet
  <1>6. Named(Q) = Named(P) \ ToSet(P[a])
    <2>1. \A n \in Places : ToSet(Q[n]) = ToSet(P[n]) \ ToSet(P[a])
      BY <1>1, <1>5, NoEntries
    <2> QED BY <2>1, <1>1 DEF Named
  <1> QED BY <1>1, <1>3, <1>4, <1>6 DEF Q

----------------------------------------------------------------------------
(* The invariant *)

\* A job has no more legs than its route; one that is ready has them all, and
\* one in a request waits for that request's leg, which is a leg of some route.
LegsFit ==
    /\ \A r \in Routes : jobs[r] # None => Len(jobs[r].legs) <= Len(LegsOf[r])
    /\ \A r \in ToSet(ready) : Complete(r)
    /\ \A k \in DOMAIN inflight : \A r \in ToSet(inflight[k].jobs) : ~Complete(r) /\ NextKey(r) = k
    /\ \A k \in DOMAIN inflight : \E r \in Routes :
          inflight[k].index + 1 \in DOMAIN LegsOf[r] /\ LegsOf[r][inflight[k].index + 1] = k[1]

RouterInv ==
    /\ TypeOK /\ IsFiniteSet(DOMAIN inflight)
    /\ NoJobTwice /\ LegsFit /\ PendingNewsIsScheduled

----------------------------------------------------------------------------
(* Types *)

LEMMA LegsAre ==
    ASSUME NEW r \in Routes
    PROVE  LegsOf[r] \in Seq(Specs) /\ Len(LegsOf[r]) \in Nat /\ Len(LegsOf[r]) # 0
           /\ DOMAIN LegsOf[r] = 1..Len(LegsOf[r]) /\ Base \in Amounts
  BY RouterAssumption

LEMMA JobIs ==
    ASSUME TypeOK, NEW r \in Routes, jobs[r] # None
    PROVE  /\ jobs[r] \in Jobs /\ jobs[r].legs \in Seq(Quotes) /\ Len(jobs[r].legs) \in Nat
           /\ DOMAIN jobs[r].legs = 1..Len(jobs[r].legs)
           /\ \A i \in DOMAIN jobs[r].legs : jobs[r].legs[i] \in Quotes /\ jobs[r].legs[i].sent \in Nat
  <1>1. jobs[r] \in Jobs
    BY DEF TypeOK
  <1>2. jobs[r].legs \in Seq(Quotes)
    BY <1>1 DEF Jobs
  <1>3. \A q \in Quotes : q.sent \in Nat
    BY DEF Quotes
  <1> HIDE DEF Quotes
  <1> QED BY <1>1, <1>2, <1>3

\* A record keeps its type when the legs change.
LEMMA JobWith ==
    ASSUME NEW j \in Jobs, NEW q \in Quotes
    PROVE  /\ [j EXCEPT !.legs = Append(@, q)] \in Jobs /\ [j EXCEPT !.legs = Append(@, q)] # None
           /\ [j EXCEPT !.legs = Append(@, q)].legs = Append(j.legs, q)
           /\ [j EXCEPT !.legs = Append(@, q)].trigger = j.trigger
           /\ [j EXCEPT !.legs = Append(@, q)].picked = j.picked
           /\ [j EXCEPT !.legs = Append(@, q)].inputs = j.inputs
  <1>1. j.legs \in Seq(Quotes) /\ Append(j.legs, q) \in Seq(Quotes)
    BY DEF Jobs
  <1> DEFINE v == Append(j.legs, q)
  <1>2. [j EXCEPT !.legs = v] \in Jobs
    <2>1. v \in Seq(Quotes)
      BY <1>1
    <2> HIDE DEF v
    <2> QED BY <2>1 DEF Jobs
  <1> QED BY <1>2, NoneAssumption DEF Jobs

LEMMA KeyIs ==
    ASSUME TypeOK, NEW r \in Routes, jobs[r] # None, Len(jobs[r].legs) <= Len(LegsOf[r]), ~Complete(r)
    PROVE  /\ NextKey(r) \in Keys /\ Len(jobs[r].legs) + 1 \in DOMAIN LegsOf[r]
           /\ NextKey(r)[1] = LegsOf[r][Len(jobs[r].legs) + 1] /\ NextKey(r)[1] \in Specs
  <1> DEFINE legs == jobs[r].legs
  <1>1. legs \in Seq(Quotes) /\ Len(legs) \in Nat /\ Len(legs) < Len(LegsOf[r])
    BY JobIs, LegsAre DEF Complete
  <1>2. Len(legs) + 1 \in DOMAIN LegsOf[r] /\ LegsOf[r][Len(legs) + 1] \in Specs
    BY <1>1, LegsAre
  <1>3. legs # <<>> => Last(legs).out \in Amounts
    <2>1. legs # <<>> => Last(legs) \in Quotes
      BY <1>1 DEF Last
    <2> QED BY <2>1 DEF Quotes
  <1> QED BY <1>2, <1>3, LegsAre DEF NextKey, Keys

\* A leg reads pools.
LEMMA ObservedIs ==
    ASSUME NEW x \in Specs
    PROVE  Observed(Obs[x]) \subseteq Pools
  <1>1. Obs[x] \in (SUBSET Pools) \cup {AllPools, Unobservable}
    BY RouterAssumption
  <1>2. CASE Obs[x] = Unobservable
    BY <1>2 DEF Observed
  <1>3. CASE Obs[x] # Unobservable /\ Obs[x] = AllPools
    <2>1. Observed(Obs[x]) = Pools
      BY <1>3 DEF Observed
    <2> QED BY <2>1
  <1>4. CASE Obs[x] # Unobservable /\ Obs[x] # AllPools
    <2>1. Obs[x] \in SUBSET Pools
      BY <1>1, <1>4
    <2>2. Observed(Obs[x]) = Obs[x]
      BY <1>4, Zenon DEF Observed
    <2> QED BY <2>1, <2>2
  <1> QED BY <1>2, <1>3, <1>4

LEMMA MidsAre ==
    ASSUME NEW x \in Specs, NEW s \in Snapshots
    PROVE  MidsFor(Obs[x], s) \in Mids
  <1>1. Observed(Obs[x]) \subseteq Pools
    BY ObservedIs
  <1>2. Known(s, Observed(Obs[x])) \in SUBSET Pools
    BY <1>1 DEF Known
  <1>3. \A p \in Known(s, Observed(Obs[x])) : s[p] \in Prices
    BY <1>1 DEF Known, Snapshots, Inputs
  <1>4. MidsFor(Obs[x], s) \in [Known(s, Observed(Obs[x])) -> Prices]
    BY <1>3 DEF MidsFor
  <1> QED BY <1>2, <1>4 DEF Mids

LEMMA WithIs ==
    ASSUME NEW S, NEW f, f \in [DOMAIN f -> S], NEW k, NEW v \in S
    PROVE  /\ With(f, k, v) \in [DOMAIN f \cup {k} -> S] /\ DOMAIN With(f, k, v) = DOMAIN f \cup {k}
           /\ With(f, k, v)[k] = v /\ \A x \in DOMAIN f : x # k => With(f, k, v)[x] = f[x]
  BY DEF With

LEMMA WithoutIs ==
    ASSUME NEW S, NEW f, f \in [DOMAIN f -> S], NEW k
    PROVE  /\ Without(f, k) \in [DOMAIN f \ {k} -> S] /\ DOMAIN Without(f, k) = DOMAIN f \ {k}
           /\ \A x \in DOMAIN f : x # k => Without(f, k)[x] = f[x]
  BY DEF Without

LEMMA BlockedIs ==
    ASSUME TypeOK, NEW k
    PROVE  BlockedOn(k) \in Lists
  BY NoEntries DEF TypeOK, BlockedOn, Lists

\* The job that is worked on is a job, and held where it is taken from.
AtContinuations == <<"continuations", None>>
AtReady == <<"ready", None>>
AtFresh == <<"fresh", None>>
AtInflight(k) == <<"inflight", k>>
AtBlocked(k) == <<"blocked", k>>
Source == IF fresh # None THEN AtFresh ELSE AtContinuations

LEMMA PlacesAre ==
    /\ AtContinuations \in Places /\ AtReady \in Places /\ AtFresh \in Places
    /\ AtContinuations # AtReady /\ AtContinuations # AtFresh /\ AtReady # AtFresh
    /\ \A k \in Keys :
          /\ AtInflight(k) \in Places /\ AtBlocked(k) \in Places
          /\ \A l \in Keys : AtInflight(k) # AtBlocked(l) /\ (AtInflight(k) = AtInflight(l) => k = l)
                             /\ (AtBlocked(k) = AtBlocked(l) => k = l)
          /\ \A p \in {AtContinuations, AtReady, AtFresh} : p # AtInflight(k) /\ p # AtBlocked(k)
    /\ \A p \in Places : \/ p \in {AtContinuations, AtReady, AtFresh}
                         \/ \E k \in Keys : p = AtInflight(k) \/ p = AtBlocked(k)
  BY DEF Places, AtContinuations, AtReady, AtFresh, AtInflight, AtBlocked

HeldBy(cs, rd, fr, inf, bl) == [n \in Places |->
    CASE n[1] = "continuations" -> cs
      [] n[1] = "ready" -> rd
      [] n[1] = "fresh" -> IF fr = None THEN <<>> ELSE <<fr>>
      [] n[1] = "inflight" -> IF n[2] \in DOMAIN inf THEN inf[n[2]].jobs ELSE <<>>
      [] n[1] = "blocked" -> IF n[2] \in DOMAIN bl THEN bl[n[2]] ELSE <<>>]

LEMMA HeldByIs ==
    ASSUME NEW cs \in Lists, NEW rd \in Lists, NEW fr \in Routes \cup {None},
           NEW inf, inf \in [DOMAIN inf -> Requests], NEW bl, bl \in [DOMAIN bl -> Lists]
    PROVE  LET H == HeldBy(cs, rd, fr, inf, bl)
           IN  /\ H \in Holdings
               /\ H[AtContinuations] = cs /\ H[AtReady] = rd
               /\ H[AtFresh] = IF fr = None THEN <<>> ELSE <<fr>>
               /\ \A k \in Keys : /\ H[AtInflight(k)] = IF k \in DOMAIN inf THEN inf[k].jobs ELSE <<>>
                                  /\ H[AtBlocked(k)] = IF k \in DOMAIN bl THEN bl[k] ELSE <<>>
  <1> DEFINE H == HeldBy(cs, rd, fr, inf, bl)
             W(n) == CASE n[1] = "continuations" -> cs
                       [] n[1] = "ready" -> rd
                       [] n[1] = "fresh" -> IF fr = None THEN <<>> ELSE <<fr>>
                       [] n[1] = "inflight" -> IF n[2] \in DOMAIN inf THEN inf[n[2]].jobs ELSE <<>>
                       [] n[1] = "blocked" -> IF n[2] \in DOMAIN bl THEN bl[n[2]] ELSE <<>>
  <1>1. H[AtContinuations] = cs /\ H[AtReady] = rd /\ H[AtFresh] = IF fr = None THEN <<>> ELSE <<fr>>
    BY PlacesAre DEF HeldBy, AtContinuations, AtReady, AtFresh
  <1>2. \A k \in Keys : /\ H[AtInflight(k)] = IF k \in DOMAIN inf THEN inf[k].jobs ELSE <<>>
                        /\ H[AtBlocked(k)] = IF k \in DOMAIN bl THEN bl[k] ELSE <<>>
    BY PlacesAre DEF HeldBy, AtInflight, AtBlocked
  <1>3. \A k \in DOMAIN inf : inf[k].jobs \in Lists
    BY DEF Requests, Lists
  <1>4. fr # None => <<fr>> \in Lists
    BY One
  <1>5. H = [n \in Places |-> W(n)]
    BY DEF HeldBy
  <1> HIDE DEF H, W
  <1>6. \A n \in Places : H[n] \in Lists
    BY <1>1, <1>2, <1>3, <1>4, NoEntries, PlacesAre
  <1>7. H \in Holdings
    BY <1>5, <1>6 DEF Holdings
  <1> QED BY <1>1, <1>2, <1>7 DEF H

LEMMA HeldIs ==
    ASSUME TypeOK
    PROVE  /\ Held \in Holdings
           /\ Held[AtContinuations] = continuations /\ Held[AtReady] = ready
           /\ Held[AtFresh] = IF fresh = None THEN <<>> ELSE <<fresh>>
           /\ \A k \in Keys : /\ Held[AtInflight(k)] = IF k \in DOMAIN inflight THEN inflight[k].jobs ELSE <<>>
                              /\ Held[AtBlocked(k)] = BlockedOn(k)
  <1>1. Held = HeldBy(continuations, ready, fresh, inflight, blocked)
    BY DEF Held, HeldBy, BlockedOn
  <1>2. /\ continuations \in Lists /\ ready \in Lists /\ fresh \in Routes \cup {None}
        /\ inflight \in [DOMAIN inflight -> Requests] /\ blocked \in [DOMAIN blocked -> Lists]
    BY DEF TypeOK, Lists
  <1> QED BY <1>1, <1>2, HeldByIs DEF BlockedOn

LEMMA SameHeld ==
    ASSUME NEW P \in Holdings, NEW Q \in Holdings,
           \A p \in {AtContinuations, AtReady, AtFresh} : P[p] = Q[p],
           \A k \in Keys : P[AtInflight(k)] = Q[AtInflight(k)] /\ P[AtBlocked(k)] = Q[AtBlocked(k)]
    PROVE  P = Q
  <1>1. \A n \in Places : P[n] = Q[n]
    BY PlacesAre
  <1> QED BY <1>1 DEF Holdings

\* What is worked on is taken from where it is held.
LEMMA WorkingIs ==
    ASSUME TypeOK, NoJobTwice, NEW r \in Routes, Working(r)
    PROVE  LET T == [Held EXCEPT ![Source] = Tail(Held[Source])]
           IN  /\ Source \in Places /\ T \in Holdings /\ Once(T) /\ Named(T) = Named(Held) \ {r}
               /\ r \in Named(Held) /\ jobs[r] # None /\ ready = <<>>
  <1>1. Source \in Places
    BY PlacesAre DEF Source
  <1>2. Held[Source] # <<>> /\ Head(Held[Source]) = r
    <2>1. CASE fresh # None
      BY <2>1, HeldIs, One DEF Working, Source
    <2>2. CASE fresh = None
      BY <2>2, HeldIs DEF Working, Source
    <2> QED BY <2>1, <2>2
  <1>3. Held \in Holdings /\ Once(Held)
    BY HeldIs DEF NoJobTwice
  <1> QED BY <1>1, <1>2, <1>3, Taken DEF NoJobTwice, Working

\* Types are kept by each step; the requests stay a finite set.
Typed == TypeOK /\ IsFiniteSet(DOMAIN inflight)

LEMMA TicksTyped ==
    ASSUME Typed, OnTick \/ Timer \/ SlotFrees \/ OtherUse
           \/ (\E r \in Routes : Rested(r) \/ Floor(r) \/ Expire(r)) \/ (\E i \in Inputs, m \in Prices : Receive(i, m))
    PROVE  Typed'
  <1> USE DEF Typed
  <1>1. CASE OnTick
    <2> DEFINE i == tick.input
               s == [seen EXCEPT ![i] = tick.price]
    <2>1. tick \in Ticks /\ i \in Inputs /\ tick.price \in Prices /\ tick.received \in Nat
      BY <1>1 DEF TypeOK, OnTick, Ticks
    <2>2. seen' \in Snapshots /\ at' \in [Inputs -> Nat]
      BY <1>1, <2>1 DEF TypeOK, OnTick, Snapshots
    <2>3. cache' \in [DOMAIN cache' -> Quotes] /\ DOMAIN cache' \subseteq Keys
      BY <1>1 DEF TypeOK, OnTick
    <2>4. trigger' \in [Routes -> Times] /\ triggered' \subseteq Routes
      <3>1. triggered' \subseteq Routes
        BY <1>1 DEF TypeOK, OnTick, Touched
      <3>2. PICK T, R : trigger' = [r \in Routes |-> CASE r \in T /\ trigger[r] = None -> tick.received
                                                      [] r \in R -> None
                                                      [] OTHER -> trigger[r]]
        BY <1>1 DEF OnTick
      <3>3. \A r \in Routes : trigger[r] \in Times /\ None \in Times /\ tick.received \in Times
        BY <2>1 DEF TypeOK, Times
      <3>4. trigger' \in [Routes -> Times]
        BY <3>2, <3>3
      <3> QED BY <3>1, <3>4
    <2>5. UNCHANGED <<clock, busy, reference, lastLegs, ages, jobs, pricing, fresh, lists,
                   inflight, blocked, slots, events>> /\ tick' = None /\ loop' = "next"
      BY <1>1 DEF OnTick
    <2> QED BY <2>2, <2>3, <2>4, <2>5 DEF TypeOK, ages, lists
  <1>2. CASE Timer
    BY <1>2 DEF TypeOK, Timer, market, route, ages, lists, requests
  <1>3. CASE SlotFrees
    <2>1. slots' \in 0..Capacity
      <3>1. slots \in 0..Capacity /\ Capacity \in Nat /\ slots < Capacity /\ slots' = slots + 1
        BY <1>3, RouterAssumption DEF TypeOK, SlotFrees
      <3> QED BY <3>1
    <2> QED BY <1>3, <2>1 DEF TypeOK, SlotFrees, market, route, ages, lists, requests
  <1>4. CASE OtherUse
    <2>1. slots' \in 0..Capacity /\ events' \in Nat
      <3>1. slots \in 0..Capacity /\ Capacity \in Nat /\ slots' \in 0..(slots - 1)
        BY <1>4, RouterAssumption DEF TypeOK, OtherUse
      <3>2. slots' \in 0..Capacity
        BY <3>1
      <3> QED BY <1>4, <3>2 DEF TypeOK, OtherUse, Event
    <2> QED BY <1>4, <2>1 DEF TypeOK, OtherUse, market, route, ages, lists, requests
  <1>5. ASSUME NEW r \in Routes, Rested(r) PROVE Typed'
    BY <1>5 DEF TypeOK, Rested, market, route, ages, lists, requests
  <1>6. ASSUME NEW r \in Routes, Floor(r) PROVE Typed'
    <2>1. cache' \in [DOMAIN cache' -> Quotes] /\ DOMAIN cache' \subseteq Keys
      BY <1>6 DEF TypeOK, Floor
    <2> QED BY <1>6, <2>1 DEF TypeOK, Floor, Event, market, route, ages, lists
  <1>7. ASSUME NEW r \in Routes, Expire(r) PROVE Typed'
    <2>1. cache' \in [DOMAIN cache' -> Quotes] /\ DOMAIN cache' \subseteq Keys
      <3>1. cache \in [DOMAIN cache -> Quotes] /\ DOMAIN cache \subseteq Keys
        BY DEF TypeOK
      <3>2. /\ Without(cache, NextKey(r)) \in [DOMAIN cache \ {NextKey(r)} -> Quotes]
            /\ DOMAIN Without(cache, NextKey(r)) = DOMAIN cache \ {NextKey(r)}
        BY <3>1, WithoutIs
      <3> QED BY <1>7, <3>1, <3>2 DEF Expire
    <2> QED BY <1>7, <2>1 DEF TypeOK, Expire, Working, InNext, market, route, ages, lists
  <1>8. ASSUME NEW i \in Inputs, NEW m \in Prices, Receive(i, m) PROVE Typed'
    <2>1. tick' \in Ticks /\ clock' \in Nat /\ events' \in Nat
      BY <1>8 DEF TypeOK, Receive, Ticks, Event
    <2> QED BY <1>8, <2>1 DEF TypeOK, Receive, route, ages, lists, requests
  <1> QED BY <1>1, <1>2, <1>3, <1>4, <1>5, <1>6, <1>7, <1>8

LEMMA ReadyTyped ==
    ASSUME Typed, NoJobTwice, DropRepeat \/ Finish \/ NothingToDo
    PROVE  Typed'
  <1> USE DEF Typed
  <1> DEFINE r == Head(ready)
  <1>1. ready # <<>> => /\ Tail(ready) \in Seq(Routes) /\ r \in Routes /\ jobs[r] # None
    <2>1. SUFFICES ASSUME ready # <<>> PROVE Tail(ready) \in Seq(Routes) /\ r \in Routes /\ jobs[r] # None
      OBVIOUS
    <2>2. ready \in Lists
      BY DEF TypeOK, Lists
    <2>3. Tail(ready) \in Lists /\ r \in ToSet(ready)
      BY <2>1, <2>2, Rest
    <2>4. r \in Named(Held)
      <3>1. Held \in Holdings /\ Held[AtReady] = ready /\ AtReady \in Places
        BY HeldIs, PlacesAre
      <3> QED BY <2>3, <3>1 DEF Named, Holdings
    <2> QED BY <2>3, <2>4 DEF Lists, NoJobTwice
  <1>2. CASE DropRepeat
    <2>1. jobs' \in [Routes -> Jobs \cup {None}] /\ trigger' \in [Routes -> Times] /\ ready' \in Seq(Routes)
      BY <1>1, <1>2 DEF TypeOK, DropRepeat, Times
    <2> QED BY <1>2, <2>1 DEF TypeOK, DropRepeat, InNext, market, ages, lists, requests
  <1>3. CASE Finish
    <2>1. jobs' \in [Routes -> Jobs \cup {None}] /\ ready' \in Seq(Routes)
      BY <1>1, <1>3 DEF TypeOK, Finish
    <2>2. jobs[r] \in Jobs /\ \A i \in DOMAIN jobs[r].legs : jobs[r].legs[i].sent \in Nat
      BY <1>1, <1>3, JobIs DEF Finish
    <2>3. Sends(jobs[r].legs) \in Seq(Nat)
      <3>1. Len(jobs[r].legs) \in Nat /\ DOMAIN jobs[r].legs = 1..Len(jobs[r].legs)
        BY <1>1, <1>3, JobIs DEF Finish
      <3>2. Sends(jobs[r].legs) \in [1..Len(jobs[r].legs) -> Nat]
        BY <2>2, <3>1 DEF Sends
      <3> QED BY <3>1, <3>2
    <2>4. lastLegs' \in [Routes -> Seq(Nat)]
      BY <2>3, <1>1, <1>3 DEF TypeOK, Finish
    <2>5. [inputs |-> jobs[r].inputs, started |-> jobs[r].picked] \in Pricings
      BY <2>2 DEF Jobs, Pricings
    <2>6. pricing' \in [Routes -> Pricings \cup {None}]
      BY <2>5, <1>1, <1>3 DEF TypeOK, Finish
    <2> QED BY <1>3, <2>1, <2>4, <2>6 DEF TypeOK, Finish, InNext, market, ages, lists, requests
  <1>4. CASE NothingToDo
    BY <1>4 DEF TypeOK, NothingToDo, Idle, InNext, market, route, ages, lists, requests
  <1> QED BY <1>2, <1>3, <1>4

\* The lists a job that is worked on leaves and joins.
LEMMA ListsTyped ==
    ASSUME TypeOK, NEW r \in Routes, Working(r), Placed
    PROVE  continuations' \in Seq(Routes) /\ fresh' \in Routes \cup {None}
  <1>1. continuations \in Lists
    BY DEF TypeOK, Lists
  <1>2. continuations # <<>> => Tail(continuations) \in Lists
    BY <1>1, Rest
  <1> QED BY <1>1, <1>2 DEF Working, Placed, TypeOK, Lists

LEMMA AdvanceTyped ==
    ASSUME Typed, NoJobTwice, LegsFit, NEW r \in Routes, Advance(r)
    PROVE  Typed'
  <1> USE DEF Typed
  <1>1. Working(r) /\ InNext /\ jobs[r] # None /\ Len(jobs[r].legs) <= Len(LegsOf[r])
    <2>1. Working(r)
      BY DEF Advance, BecomesReady, TakesCached, Coalesces, Blocks, Dispatch, ContinuationWaits, Abandon
    <2>2. jobs[r] # None
      BY <2>1, WorkingIs
    <2> QED BY <2>1, <2>2 DEF Working, LegsFit
  <1>2. ~Complete(r) => NextKey(r) \in Keys /\ NextKey(r)[1] \in Specs
    BY <1>1, KeyIs
  <1>a. \A s \in Seq(Routes) : Append(s, r) \in Seq(Routes)
    OBVIOUS
  <1>3. CASE BecomesReady(r)
    <2>1. ready' \in Seq(Routes)
      BY <1>3 DEF TypeOK, BecomesReady
    <2> QED BY <1>1, <1>3, <2>1, ListsTyped DEF TypeOK, BecomesReady, InNext, market, route, ages, requests
  <1>4. CASE TakesCached(r)
    <2>1. jobs' \in [Routes -> Jobs \cup {None}]
      <3>1. cache[NextKey(r)] \in Quotes /\ jobs[r] \in Jobs
        BY <1>1, <1>4 DEF TypeOK, TakesCached, Cached
      <3>2. [jobs[r] EXCEPT !.legs = Append(@, cache[NextKey(r)])] \in Jobs
        BY <3>1, JobWith
      <3>3. jobs' = [jobs EXCEPT ![r] = [jobs[r] EXCEPT !.legs = Append(@, cache[NextKey(r)])]]
        BY <1>4 DEF TakesCached
      <3> QED BY <3>2, <3>3 DEF TypeOK
    <2> QED BY <1>1, <1>4, <2>1 DEF TypeOK, TakesCached, InNext, market, route, ages, lists, requests
  <1>5. CASE Coalesces(r)
    <2> DEFINE k == NextKey(r)
               f == [inflight[k] EXCEPT !.jobs = Append(@, r)]
    <2>1. k \in DOMAIN inflight /\ inflight[k] \in Requests
      BY <1>5 DEF TypeOK, Coalesces, InFlight
    <2>2. f \in Requests
      BY <2>1, <1>a DEF Requests
    <2>3. inflight' = [inflight EXCEPT ![k] = f]
      BY <1>5 DEF Coalesces
    <2>4. inflight' \in [DOMAIN inflight' -> Requests] /\ DOMAIN inflight' = DOMAIN inflight
      BY <2>1, <2>2, <2>3 DEF TypeOK
    <2> QED BY <1>1, <1>5, <2>4, ListsTyped DEF TypeOK, Coalesces, InNext, market, route, ages
  <1>6. CASE Blocks(r)
    <2>1. Append(BlockedOn(NextKey(r)), r) \in Seq(Routes)
      BY BlockedIs DEF Lists
    <2>2. blocked' \in [DOMAIN blocked' -> Seq(Routes)]
      <3> DEFINE v == Append(BlockedOn(NextKey(r)), r)
      <3>1. blocked \in [DOMAIN blocked -> Seq(Routes)] /\ v \in Seq(Routes)
        BY <2>1 DEF TypeOK
      <3>2. blocked' = With(blocked, NextKey(r), v)
        BY <1>6 DEF Blocks
      <3> HIDE DEF v
      <3>3. /\ With(blocked, NextKey(r), v) \in [DOMAIN blocked \cup {NextKey(r)} -> Seq(Routes)]
            /\ DOMAIN With(blocked, NextKey(r), v) = DOMAIN blocked \cup {NextKey(r)}
        BY <3>1 DEF With
      <3> QED BY <3>2, <3>3
    <2> QED BY <1>1, <1>6, <2>2, ListsTyped DEF TypeOK, Blocks, InNext, market, route, ages
  <1>7. CASE Dispatch(r)
    <2> DEFINE k == NextKey(r)
               f == [jobs |-> <<r>>, index |-> Len(jobs[r].legs), sent |-> clock + 1,
                     mids |-> MidsFor(Obs[NextKey(r)[1]], seen)]
    <2>1. k \in Keys /\ f \in Requests
      <3>1. k \in Keys /\ k[1] \in Specs
        BY <1>2, <1>7 DEF Dispatch, MustSend
      <3>2. MidsFor(Obs[k[1]], seen) \in Mids
        BY <3>1, MidsAre DEF TypeOK
      <3>3. Len(jobs[r].legs) \in Nat /\ <<r>> \in Seq(Routes) /\ clock + 1 \in Nat
        BY <1>1, JobIs, One DEF TypeOK, Lists
      <3> QED BY <3>1, <3>2, <3>3 DEF Requests
    <2>2. inflight' = With(inflight, k, f)
      BY <1>7 DEF Dispatch
    <2> HIDE DEF f, k
    <2>3. inflight' \in [DOMAIN inflight' -> Requests] /\ DOMAIN inflight' = DOMAIN inflight \cup {k}
      <3>1. inflight \in [DOMAIN inflight -> Requests]
        BY DEF TypeOK
      <3>2. /\ With(inflight, k, f) \in [DOMAIN inflight \cup {k} -> Requests]
            /\ DOMAIN With(inflight, k, f) = DOMAIN inflight \cup {k}
        BY <2>1, <3>1 DEF With
      <3> QED BY <2>2, <3>2
    <2>4. IsFiniteSet(DOMAIN inflight') /\ Cardinality(DOMAIN inflight') <= MaxInFlight
      <3>1. Cardinality(DOMAIN inflight) \in Nat
        BY FS_CardinalityType
      <3>2. IsFiniteSet(DOMAIN inflight') /\ Cardinality(DOMAIN inflight') <= Cardinality(DOMAIN inflight) + 1
        <4>1. /\ IsFiniteSet(DOMAIN inflight \cup {k})
              /\ Cardinality(DOMAIN inflight \cup {k}) = IF k \in DOMAIN inflight THEN Cardinality(DOMAIN inflight)
                                                         ELSE Cardinality(DOMAIN inflight) + 1
          BY FS_AddElement
        <4> QED BY <4>1, <2>3, <3>1
      <3>3. ~(Cardinality(DOMAIN inflight) >= MaxInFlight)
        BY <1>7 DEF Dispatch, Full
      <3>4. Cardinality(DOMAIN inflight') \in Nat
        BY <3>2, FS_CardinalityType
      <3> QED BY <3>1, <3>2, <3>3, <3>4, RouterAssumption
    <2>5. slots' \in 0..Capacity /\ clock' \in Nat
      <3>1. slots > 0
        BY <1>7, RouterAssumption DEF Dispatch, Available, TypeOK
      <3>2. slots \in 0..Capacity /\ Capacity \in Nat /\ slots' = slots - 1
        BY <1>7, RouterAssumption DEF Dispatch, TypeOK
      <3>3. slots' \in 0..Capacity
        BY <3>1, <3>2
      <3> QED BY <1>7, <3>3 DEF Dispatch, TypeOK
    <2>6. DOMAIN inflight' \subseteq Keys
      BY <2>1, <2>3 DEF TypeOK
    <2>7. continuations' \in Seq(Routes) /\ fresh' \in Routes \cup {None}
      BY <1>1, <1>7, ListsTyped DEF Dispatch
    <2> QED BY <1>1, <1>7, <2>3, <2>4, <2>5, <2>6, <2>7 DEF TypeOK, Dispatch, InNext, market, route, ages
  <1>8. CASE ContinuationWaits(r)
    BY <1>1, <1>8 DEF TypeOK, ContinuationWaits, InNext, market, route, ages, lists, requests
  <1>9. CASE Abandon(r)
    <2>1. jobs' \in [Routes -> Jobs \cup {None}] /\ triggered' \subseteq Routes
      BY <1>9 DEF TypeOK, Abandon, StillNews
    <2> QED BY <1>1, <1>9, <2>1 DEF TypeOK, Abandon, InNext, market, ages, lists, requests
  <1> QED BY <1>3, <1>4, <1>5, <1>6, <1>7, <1>8, <1>9 DEF Advance

LEMMA StartTyped ==
    ASSUME Typed, NEW r \in Routes, StartJob(r)
    PROVE  Typed'
  <1> USE DEF Typed
  <1> DEFINE j == [legs |-> <<>>, picked |-> clock, trigger |-> trigger[r],
                   background |-> Urgent = {}, inputs |-> seen]
  <1>1. j \in Jobs
    BY DEF TypeOK, Jobs
  <1>2. jobs' = [jobs EXCEPT ![r] = j]
    BY DEF StartJob
  <1> HIDE DEF j
  <1>3. jobs' \in [Routes -> Jobs \cup {None}]
    BY <1>1, <1>2 DEF TypeOK
  <1> QED BY <1>3 DEF TypeOK, StartJob, Idle, InNext, market, ages, lists, requests

\* The jobs of a request that is in flight, and those blocked on it.
LEMMA RequestIs ==
    ASSUME TypeOK, NoJobTwice, NEW k \in DOMAIN inflight
    PROVE  /\ k \in Keys /\ inflight[k] \in Requests
           /\ inflight[k].jobs \in Lists /\ Distinct(inflight[k].jobs)
           /\ ToSet(inflight[k].jobs) \subseteq Named(Held)
           /\ Held[AtInflight(k)] = inflight[k].jobs /\ Held[AtBlocked(k)] = BlockedOn(k)
           /\ \A r \in ToSet(inflight[k].jobs) : r \in Routes /\ jobs[r] # None
  <1>1. k \in Keys /\ inflight[k] \in Requests
    BY DEF TypeOK
  <1>2. inflight[k].jobs \in Lists
    BY <1>1 DEF Requests, Lists
  <1>3. Held \in Holdings /\ Held[AtInflight(k)] = inflight[k].jobs /\ Held[AtBlocked(k)] = BlockedOn(k)
        /\ AtInflight(k) \in Places
    BY <1>1, HeldIs, PlacesAre
  <1>4. Once(Held)
    BY DEF NoJobTwice
  <1>5. Distinct(inflight[k].jobs) /\ ToSet(inflight[k].jobs) \subseteq Named(Held)
    BY <1>3, <1>4, Emptied
  <1> QED BY <1>1, <1>2, <1>3, <1>5 DEF NoJobTwice

\* Which of them get the answer, and where they go.
LEMMA AnsweredAre ==
    ASSUME TypeOK, NoJobTwice, NEW k \in DOMAIN inflight
    PROVE  LET f == inflight[k]
           IN  /\ Served(f) \subseteq ToSet(f.jobs)
               /\ Completed(f) \in Lists /\ Distinct(Completed(f)) /\ ToSet(Completed(f)) = Served(f) \cap LastLeg(f)
               /\ Continued(f) \in Lists /\ Distinct(Continued(f)) /\ ToSet(Continued(f)) = Served(f) \ LastLeg(f)
  <1> DEFINE f == inflight[k]
  <1>1. f.jobs \in Lists /\ Distinct(f.jobs)
    BY RequestIs
  <1>2. Served(f) \subseteq ToSet(f.jobs)
    BY DEF Served
  <1>3. /\ Completed(f) \in Lists /\ Distinct(Completed(f))
        /\ ToSet(Completed(f)) = ToSet(f.jobs) \cap (Served(f) \cap LastLeg(f))
    BY <1>1, OnlyIs DEF Completed
  <1>4. /\ Continued(f) \in Lists /\ Distinct(Continued(f))
        /\ ToSet(Continued(f)) = ToSet(f.jobs) \cap (Served(f) \ LastLeg(f))
    BY <1>1, OnlyIs DEF Continued
  <1> HIDE DEF f
  <1>5. /\ ToSet(f.jobs) \cap (Served(f) \cap LastLeg(f)) = Served(f) \cap LastLeg(f)
        /\ ToSet(f.jobs) \cap (Served(f) \ LastLeg(f)) = Served(f) \ LastLeg(f)
    BY <1>2
  <1> QED BY <1>2, <1>3, <1>4, <1>5 DEF f

LEMMA EndedTyped ==
    ASSUME Typed, NEW k, inflight' = Without(inflight, k), blocked' = Without(blocked, k)
    PROVE  /\ inflight' \in [DOMAIN inflight' -> Requests] /\ blocked' \in [DOMAIN blocked' -> Seq(Routes)]
           /\ DOMAIN inflight' = DOMAIN inflight \ {k} /\ DOMAIN blocked' = DOMAIN blocked \ {k}
           /\ IsFiniteSet(DOMAIN inflight') /\ Cardinality(DOMAIN inflight') <= MaxInFlight
           /\ \A l \in DOMAIN inflight' : inflight'[l] = inflight[l]
           /\ \A l \in DOMAIN blocked' : blocked'[l] = blocked[l]
  <1>1. inflight \in [DOMAIN inflight -> Requests] /\ blocked \in [DOMAIN blocked -> Seq(Routes)]
    BY DEF Typed, TypeOK
  <1>2. /\ inflight' \in [DOMAIN inflight' -> Requests] /\ DOMAIN inflight' = DOMAIN inflight \ {k}
        /\ \A l \in DOMAIN inflight' : inflight'[l] = inflight[l]
    BY <1>1 DEF Without
  <1>3. /\ blocked' \in [DOMAIN blocked' -> Seq(Routes)] /\ DOMAIN blocked' = DOMAIN blocked \ {k}
        /\ \A l \in DOMAIN blocked' : blocked'[l] = blocked[l]
    BY <1>1 DEF Without
  <1>4. IsFiniteSet(DOMAIN inflight') /\ Cardinality(DOMAIN inflight') <= Cardinality(DOMAIN inflight)
    <2>1. DOMAIN inflight' \subseteq DOMAIN inflight /\ IsFiniteSet(DOMAIN inflight)
      BY <1>2 DEF Typed
    <2> QED BY <2>1, FS_Subset
  <1>5. Cardinality(DOMAIN inflight') <= MaxInFlight
    <2>1. Cardinality(DOMAIN inflight) <= MaxInFlight /\ MaxInFlight \in Nat
          /\ Cardinality(DOMAIN inflight) \in Nat /\ Cardinality(DOMAIN inflight') \in Nat
      BY <1>4, RouterAssumption, FS_CardinalityType DEF Typed, TypeOK
    <2> QED BY <2>1, <1>4
  <1> QED BY <1>2, <1>3, <1>4, <1>5

LEMMA OkTyped ==
    ASSUME Typed, NoJobTwice, NEW k \in Keys, NEW out \in Amounts, OnLegOk(k, out)
    PROVE  Typed'
  <1> DEFINE f == inflight[k]
             q == [sent |-> f.sent, mids |-> f.mids, out |-> out]
  <1>1. k \in DOMAIN inflight /\ TypeOK
    BY DEF OnLegOk, Typed
  <1>2. q \in Quotes /\ f \in Requests
    BY <1>1 DEF TypeOK, Requests, Quotes
  <1>3. cache' = With(cache, k, q)
    BY DEF OnLegOk
  <1>4. jobs' = [r \in Routes |-> IF r \in Served(f) THEN [jobs[r] EXCEPT !.legs = Append(@, q)] ELSE jobs[r]]
    BY DEF OnLegOk
  <1>5. ready' = ready \o Completed(f) /\ continuations' = continuations \o BlockedOn(k) \o Continued(f)
    BY DEF OnLegOk
  <1>6. \A r \in Served(f) : r \in Routes /\ jobs[r] # None
    BY <1>1, AnsweredAre, RequestIs
  <1>7. /\ Completed(f) \in Seq(Routes) /\ Continued(f) \in Seq(Routes) /\ BlockedOn(k) \in Seq(Routes)
        /\ ready \in Seq(Routes) /\ continuations \in Seq(Routes)
    BY <1>1, AnsweredAre, BlockedIs DEF Lists, TypeOK
  <1> HIDE DEF q, f
  <1>8. cache' \in [DOMAIN cache' -> Quotes] /\ DOMAIN cache' \subseteq Keys
    <2>1. cache \in [DOMAIN cache -> Quotes] /\ DOMAIN cache \subseteq Keys
      BY <1>1 DEF TypeOK
    <2> QED BY <2>1, <1>2, <1>3 DEF With
  <1>9. jobs' \in [Routes -> Jobs \cup {None}]
    <2>1. \A r \in Served(f) : [jobs[r] EXCEPT !.legs = Append(@, q)] \in Jobs
      BY <1>1, <1>2, <1>6, JobWith DEF TypeOK
    <2>2. \A r \in Routes : jobs[r] \in Jobs \cup {None}
      BY <1>1 DEF TypeOK
    <2> QED BY <1>4, <2>1, <2>2
  <1>10. ready' \in Seq(Routes) /\ continuations' \in Seq(Routes)
    BY <1>5, <1>7
  <1>11. /\ inflight' \in [DOMAIN inflight' -> Requests] /\ blocked' \in [DOMAIN blocked' -> Seq(Routes)]
         /\ DOMAIN inflight' \subseteq Keys
         /\ IsFiniteSet(DOMAIN inflight') /\ Cardinality(DOMAIN inflight') <= MaxInFlight
    <2>1. inflight' = Without(inflight, k) /\ blocked' = Without(blocked, k)
      BY DEF OnLegOk
    <2> QED BY <2>1, <1>1, EndedTyped DEF TypeOK
  <1> QED BY <1>1, <1>8, <1>9, <1>10, <1>11 DEF OnLegOk, Typed, TypeOK, market, route, ages

LEMMA ErrTyped ==
    ASSUME Typed, NoJobTwice, NEW k \in Keys, NEW limited \in BOOLEAN, OnLegErr(k, limited)
    PROVE  Typed'
  <1> DEFINE rs == ToSet(inflight[k].jobs)
  <1>1. k \in DOMAIN inflight /\ TypeOK
    BY DEF OnLegErr, Typed
  <1>2. rs \subseteq Routes
    BY <1>1, RequestIs
  <1>3. /\ jobs' = [r \in Routes |-> IF r \in rs THEN None ELSE jobs[r]]
        /\ busy' = busy \ rs /\ resting' = resting \cup rs
        /\ \/ triggered' = triggered \cup {r \in rs : trigger[r] # None} /\ slots' = 0 /\ trigger' = trigger
           \/ /\ trigger' = [r \in Routes |-> IF r \in rs THEN None ELSE trigger[r]]
              /\ triggered' = triggered /\ slots' = slots
        /\ continuations' = continuations \o BlockedOn(k)
    BY DEF OnLegErr, Freed, Retried
  <1> HIDE DEF rs
  <1>4. continuations' \in Seq(Routes)
    BY <1>1, <1>3, BlockedIs DEF TypeOK, Lists
  <1>5. /\ jobs' \in [Routes -> Jobs \cup {None}] /\ trigger' \in [Routes -> Times] /\ triggered' \subseteq Routes
        /\ busy' \subseteq Routes /\ resting' \subseteq Routes
    BY <1>1, <1>2, <1>3 DEF TypeOK, Times
  <1>6. slots' \in 0..Capacity /\ events' \in Nat
    BY <1>1, <1>3, RouterAssumption DEF TypeOK, OnLegErr, Event
  <1>7. /\ inflight' \in [DOMAIN inflight' -> Requests] /\ blocked' \in [DOMAIN blocked' -> Seq(Routes)]
         /\ DOMAIN inflight' \subseteq Keys
         /\ IsFiniteSet(DOMAIN inflight') /\ Cardinality(DOMAIN inflight') <= MaxInFlight
    <2>1. inflight' = Without(inflight, k) /\ blocked' = Without(blocked, k)
      BY DEF OnLegErr
    <2> QED BY <2>1, <1>1, EndedTyped DEF TypeOK
  <1> QED BY <1>1, <1>4, <1>5, <1>6, <1>7 DEF OnLegErr, Typed, TypeOK, market

LEMMA DecidedTyped ==
    ASSUME Typed, NEW r \in Routes, OnDecided(r)
    PROVE  Typed'
  <1> DEFINE later == trigger[r] # None /\ trigger[r] > pricing[r].started
             again == ~later /\ Changed(r, seen, pricing[r].inputs)
             v == IF later THEN trigger[r] ELSE IF again THEN clock + 1 ELSE None
  <1>1. /\ trigger' = [trigger EXCEPT ![r] = v]
        /\ triggered' = IF later \/ again THEN triggered \cup {r} ELSE triggered
        /\ clock' = IF again THEN clock + 1 ELSE clock
    BY DEF OnDecided
  <1>2. v \in Times /\ clock \in Nat /\ clock + 1 \in Nat
    BY DEF Typed, TypeOK, Times
  <1> HIDE DEF v, later, again
  <1>3. trigger' \in [Routes -> Times] /\ triggered' \subseteq Routes /\ clock' \in Nat
    BY <1>1, <1>2 DEF Typed, TypeOK
  <1>4. reference' \in [Routes -> Snapshots \cup {None}] /\ pricing' \in [Routes -> Pricings \cup {None}]
    <2>1. pricing[r].inputs \in Snapshots
      BY DEF OnDecided, Typed, TypeOK, Pricings
    <2>2. reference' = [reference EXCEPT ![r] = pricing[r].inputs] /\ pricing' = [pricing EXCEPT ![r] = None]
      BY DEF OnDecided
    <2> QED BY <2>1, <2>2 DEF Typed, TypeOK
  <1> QED BY <1>3, <1>4 DEF OnDecided, Typed, TypeOK, market, lists, requests

LEMMA TypesKept ==
    ASSUME RouterInv, [Next]_vars
    PROVE  Typed'
  <1>1. Typed /\ NoJobTwice /\ LegsFit
    BY DEF RouterInv, Typed
  <1>2. CASE UNCHANGED vars
    BY <1>1, <1>2 DEF Typed, TypeOK, vars, market, route, ages, lists, requests
  <1>3. CASE Core
    BY <1>1, <1>3, ReadyTyped, AdvanceTyped, StartTyped DEF Core
  <1>4. CASE OnMessage
    BY <1>1, <1>4, OkTyped, ErrTyped, DecidedTyped DEF OnMessage, Answer
  <1>5. CASE OnTick \/ Timer \/ SlotFrees \/ OtherUse
           \/ (\E r \in Routes : Rested(r) \/ Floor(r) \/ Expire(r)) \/ (\E i \in Inputs, m \in Prices : Receive(i, m))
    BY <1>1, <1>5, TicksTyped
  <1> QED BY <1>2, <1>3, <1>4, <1>5 DEF Next

----------------------------------------------------------------------------
(* Where the jobs go in each step *)

LEMMA HeldNext ==
    ASSUME TypeOK'
    PROVE  /\ Held' \in Holdings
           /\ Held'[AtContinuations] = continuations' /\ Held'[AtReady] = ready'
           /\ Held'[AtFresh] = IF fresh' = None THEN <<>> ELSE <<fresh'>>
           /\ \A k \in Keys :
                 /\ Held'[AtInflight(k)] = IF k \in DOMAIN inflight' THEN inflight'[k].jobs ELSE <<>>
                 /\ Held'[AtBlocked(k)] = IF k \in DOMAIN blocked' THEN blocked'[k] ELSE <<>>
  <1>1. Held' = HeldBy(continuations', ready', fresh', inflight', blocked')
    BY DEF Held, HeldBy, BlockedOn
  <1>2. /\ continuations' \in Lists /\ ready' \in Lists /\ fresh' \in Routes \cup {None}
        /\ inflight' \in [DOMAIN inflight' -> Requests] /\ blocked' \in [DOMAIN blocked' -> Lists]
    BY DEF TypeOK, Lists
  <1> QED BY <1>1, <1>2, HeldByIs

LEMMA HeldStays ==
    ASSUME UNCHANGED <<lists, fresh, inflight, blocked>>
    PROVE  Held' = Held
  BY DEF Held, BlockedOn, lists

\* What is worked on leaves its source.
LEMMA PlacedIs ==
    ASSUME TypeOK, TypeOK', NEW r \in Routes, Working(r), Placed
    PROVE  /\ Held'[Source] = Tail(Held[Source])
           /\ \A p \in {AtContinuations, AtFresh} : p # Source => Held'[p] = Held[p]
  <1>1. CASE fresh # None
    <2>1. Held[AtFresh] = <<fresh>> /\ Held'[AtFresh] = <<>> /\ Held'[AtContinuations] = Held[AtContinuations]
      BY <1>1, HeldIs, HeldNext DEF Placed
    <2>2. Tail(<<fresh>>) = <<>>
      OBVIOUS
    <2> QED BY <1>1, <2>1, <2>2 DEF Source
  <1>2. CASE fresh = None
    <2>1. Held'[AtContinuations] = Tail(Held[AtContinuations]) /\ Held'[AtFresh] = Held[AtFresh]
      BY <1>2, HeldIs, HeldNext DEF Placed
    <2> QED BY <1>2, <2>1 DEF Source
  <1> QED BY <1>1, <1>2

\* It moves to the end of another list.
LEMMA JobMoves ==
    ASSUME TypeOK, TypeOK', NoJobTwice, NEW r \in Routes, Working(r), Placed,
           NEW a \in Places, a \notin {AtContinuations, AtFresh}, Held'[a] = Append(Held[a], r),
           \A p \in Places : p \notin {a, AtContinuations, AtFresh} => Held'[p] = Held[p]
    PROVE  Once(Held') /\ Named(Held') = Named(Held)
  <1> DEFINE T == [Held EXCEPT ![Source] = Tail(Held[Source])]
             Q == [T EXCEPT ![a] = T[a] \o <<r>>]
  <1>1. /\ Source \in Places /\ T \in Holdings /\ Once(T) /\ Named(T) = Named(Held) \ {r} /\ r \in Named(Held)
    BY WorkingIs
  <1>2. Held \in Holdings /\ Held' \in Holdings /\ Source \in {AtContinuations, AtFresh}
    BY HeldIs, HeldNext DEF Source
  <1>3. T[Source] = Tail(Held[Source]) /\ \A p \in Places : p # Source => T[p] = Held[p]
    BY <1>1, <1>2 DEF Holdings
  <1> HIDE DEF T
  <1>4. <<r>> \in Lists /\ ToSet(<<r>>) = {r} /\ Distinct(<<r>>) /\ Append(Held[a], r) = Held[a] \o <<r>>
    BY <1>2, One DEF Holdings
  <1>5. Q \in Holdings /\ Once(Q) /\ Named(Q) = Named(T) \cup {r}
    <2>1. ToSet(<<r>>) \cap Named(T) = {} /\ <<r>> \in Lists /\ Distinct(<<r>>)
      BY <1>1, <1>4
    <2>2. T \in Holdings /\ Once(T)
      BY <1>1
    <2>3. Q \in Holdings /\ Once(Q) /\ Named(Q) = Named(T) \cup ToSet(<<r>>)
      BY <2>1, <2>2, Added
    <2> QED BY <2>3, <1>4
  <1>6. Q[a] = T[a] \o <<r>> /\ \A p \in Places : p # a => Q[p] = T[p]
    BY <1>1 DEF Holdings
  <1> HIDE DEF Q
  <1>7. \A p \in Places : Held'[p] = Q[p]
    <2>1. Held'[a] = Q[a]
      BY <1>2, <1>3, <1>4, <1>6
    <2>2. Held'[Source] = Q[Source]
      BY <1>1, <1>2, <1>3, <1>6, PlacedIs
    <2>3. \A p \in {AtContinuations, AtFresh} : p # Source => Held'[p] = Q[p]
      BY <1>3, <1>6, PlacedIs, PlacesAre
    <2>4. \A p \in Places : p \notin {a, AtContinuations, AtFresh} => Held'[p] = Q[p]
      BY <1>2, <1>3, <1>6
    <2> QED BY <1>2, <2>1, <2>2, <2>3, <2>4
  <1>8. Held' = Q
    BY <1>2, <1>5, <1>7 DEF Holdings
  <1> QED BY <1>1, <1>5, <1>8

\* The first ready job is dropped or priced.
LEMMA ReadyTaken ==
    ASSUME TypeOK, TypeOK', NoJobTwice, ready # <<>>, ready' = Tail(ready),
           UNCHANGED <<continuations, fresh, inflight, blocked>>
    PROVE  /\ Once(Held') /\ Named(Held') = Named(Held) \ {Head(ready)}
           /\ Head(ready) \in Named(Held) /\ Head(ready) \in ToSet(ready) /\ ToSet(ready') \subseteq ToSet(ready)
  <1> DEFINE Q == [Held EXCEPT ![AtReady] = Tail(Held[AtReady])]
  <1>1. Held \in Holdings /\ Held' \in Holdings /\ Held[AtReady] = ready /\ AtReady \in Places /\ Once(Held)
    BY HeldIs, HeldNext, PlacesAre DEF NoJobTwice
  <1>2. Q \in Holdings /\ Once(Q) /\ Named(Q) = Named(Held) \ {Head(ready)} /\ Head(ready) \in Named(Held)
    BY <1>1, Taken
  <1>3. Q[AtReady] = Tail(ready) /\ \A p \in Places : p # AtReady => Q[p] = Held[p]
    BY <1>1 DEF Holdings
  <1> HIDE DEF Q
  <1>4. Held' = Q
    <2>1. \A p \in {AtContinuations, AtReady, AtFresh} : Held'[p] = Q[p]
      BY <1>3, HeldIs, HeldNext, PlacesAre
    <2>2. \A k \in Keys : Held'[AtInflight(k)] = Q[AtInflight(k)] /\ Held'[AtBlocked(k)] = Q[AtBlocked(k)]
      <3>1. SUFFICES ASSUME NEW k \in Keys
            PROVE Held'[AtInflight(k)] = Held[AtInflight(k)] /\ Held'[AtBlocked(k)] = Held[AtBlocked(k)]
        BY <1>3, PlacesAre
      <3> QED BY HeldIs, HeldNext DEF BlockedOn
    <2> QED BY <1>1, <1>2, <2>1, <2>2, SameHeld
  <1>5. ready \in Lists
    BY DEF TypeOK, Lists
  <1>6. Head(ready) \in ToSet(ready) /\ ToSet(ready') \subseteq ToSet(ready)
    <2>1. Head(ready) \in ToSet(ready) /\ \A i \in DOMAIN Tail(ready) : i + 1 \in DOMAIN ready /\ Tail(ready)[i] = ready[i + 1]
      BY <1>5, Rest
    <2> QED BY <2>1 DEF ToSet
  <1> QED BY <1>2, <1>4, <1>6

LEMMA JobStarted ==
    ASSUME TypeOK, TypeOK', NoJobTwice, NEW r \in Routes, StartJob(r)
    PROVE  Once(Held') /\ Named(Held') = Named(Held) \cup {r} /\ r \notin Named(Held)
           /\ jobs[r] = None /\ pricing[r] = None /\ r \notin busy
  <1>1. r \notin busy
    BY DEF StartJob, Candidates, Urgent, Calibrate
  <1>2. jobs[r] = None /\ pricing[r] = None /\ r \notin Named(Held)
    BY <1>1 DEF NoJobTwice
  <1> DEFINE Q == [Held EXCEPT ![AtFresh] = Held[AtFresh] \o <<r>>]
  <1>3. Held \in Holdings /\ Held' \in Holdings /\ Held[AtFresh] = <<>> /\ AtFresh \in Places /\ Once(Held)
    BY HeldIs, HeldNext, PlacesAre DEF NoJobTwice, StartJob, Idle
  <1>4. <<r>> \in Lists /\ ToSet(<<r>>) = {r} /\ Distinct(<<r>>) /\ <<>> \o <<r>> = <<r>>
    BY One, NoEntries
  <1>5. Q \in Holdings /\ Once(Q) /\ Named(Q) = Named(Held) \cup {r}
    <2>1. ToSet(<<r>>) \cap Named(Held) = {} /\ <<r>> \in Lists /\ Distinct(<<r>>)
      BY <1>2, <1>4
    <2>2. Q \in Holdings /\ Once(Q) /\ Named(Q) = Named(Held) \cup ToSet(<<r>>)
      BY <1>3, <2>1, Added
    <2> QED BY <2>2, <1>4
  <1>6. Q[AtFresh] = <<r>> /\ \A p \in Places : p # AtFresh => Q[p] = Held[p]
    BY <1>3, <1>4 DEF Holdings
  <1> HIDE DEF Q
  <1>7. Held' = Q
    <2>1. fresh' = r /\ r # None /\ UNCHANGED <<continuations, ready, inflight, blocked>>
      BY NoneAssumption DEF StartJob, lists, requests
    <2>2. \A p \in {AtContinuations, AtReady, AtFresh} : Held'[p] = Q[p]
      BY <1>6, <2>1, HeldIs, HeldNext, PlacesAre
    <2>3. \A k \in Keys : Held'[AtInflight(k)] = Q[AtInflight(k)] /\ Held'[AtBlocked(k)] = Q[AtBlocked(k)]
      <3>1. SUFFICES ASSUME NEW k \in Keys
            PROVE Held'[AtInflight(k)] = Held[AtInflight(k)] /\ Held'[AtBlocked(k)] = Held[AtBlocked(k)]
        BY <1>6, PlacesAre
      <3> QED BY <2>1, HeldIs, HeldNext DEF BlockedOn
    <2> QED BY <1>3, <1>5, <2>2, <2>3, SameHeld
  <1> QED BY <1>1, <1>2, <1>5, <1>7

\* A request ends: its jobs go to cs and rd, the blocked ones continue.
LEMMA RequestEnds ==
    ASSUME Typed, TypeOK', NoJobTwice, NEW k \in DOMAIN inflight, NEW cs \in Lists, NEW rd \in Lists,
           Distinct(cs), Distinct(rd), ToSet(cs) \cap ToSet(rd) = {},
           ToSet(cs) \cup ToSet(rd) \subseteq ToSet(inflight[k].jobs),
           inflight' = Without(inflight, k), blocked' = Without(blocked, k), fresh' = fresh,
           continuations' = continuations \o BlockedOn(k) \o cs, ready' = ready \o rd
    PROVE  Once(Held') /\ Named(Held') = (Named(Held) \ ToSet(inflight[k].jobs)) \cup ToSet(cs) \cup ToSet(rd)
  <1> DEFINE J == ToSet(inflight[k].jobs)
             bs == BlockedOn(k)
             A == [Held EXCEPT ![AtInflight(k)] = <<>>]
             B == [A EXCEPT ![AtBlocked(k)] = <<>>]
             C == [B EXCEPT ![AtContinuations] = B[AtContinuations] \o bs]
             D == [C EXCEPT ![AtContinuations] = C[AtContinuations] \o cs]
             E == [D EXCEPT ![AtReady] = D[AtReady] \o rd]
  <1> USE DEF Typed
  <1>1. /\ k \in Keys /\ Held[AtInflight(k)] = inflight[k].jobs /\ Held[AtBlocked(k)] = bs
        /\ J \subseteq Named(Held)
    BY RequestIs
  <1>2. /\ Held \in Holdings /\ Held' \in Holdings /\ Once(Held) /\ bs \in Lists
        /\ AtInflight(k) \in Places /\ AtBlocked(k) \in Places /\ AtContinuations \in Places /\ AtReady \in Places
    BY <1>1, HeldIs, HeldNext, PlacesAre, BlockedIs DEF NoJobTwice
  <1>3. A \in Holdings /\ Once(A) /\ Named(A) = Named(Held) \ J
    BY <1>1, <1>2, Emptied
  <1>4. A[AtInflight(k)] = <<>> /\ \A p \in Places : p # AtInflight(k) => A[p] = Held[p]
    BY <1>2 DEF Holdings
  <1> HIDE DEF A
  <1>5. /\ A[AtBlocked(k)] = bs
        /\ B \in Holdings /\ Once(B) /\ Named(B) = Named(A) \ ToSet(bs) /\ Distinct(bs) /\ ToSet(bs) \subseteq Named(A)
    <2>1. A[AtBlocked(k)] = bs
      BY <1>1, <1>2, <1>4, PlacesAre
    <2>2. /\ B \in Holdings /\ Once(B) /\ Named(B) = Named(A) \ ToSet(A[AtBlocked(k)])
          /\ Distinct(A[AtBlocked(k)]) /\ ToSet(A[AtBlocked(k)]) \subseteq Named(A)
      BY <1>2, <1>3, Emptied
    <2> HIDE DEF B, bs
    <2> QED BY <2>1, <2>2
  <1>6. B[AtBlocked(k)] = <<>> /\ \A p \in Places : p # AtBlocked(k) => B[p] = A[p]
    BY <1>2, <1>3 DEF Holdings
  <1> HIDE DEF B
  <1>7. C \in Holdings /\ Once(C) /\ Named(C) = Named(B) \cup ToSet(bs)
    <2>1. ToSet(bs) \cap Named(B) = {}
      BY <1>5
    <2> QED BY <2>1, <1>2, <1>5, Added
  <1>8. C[AtContinuations] = B[AtContinuations] \o bs /\ \A p \in Places : p # AtContinuations => C[p] = B[p]
    BY <1>2, <1>5 DEF Holdings
  <1> HIDE DEF C
  <1>9. D \in Holdings /\ Once(D) /\ Named(D) = Named(C) \cup ToSet(cs)
    <2>1. ToSet(cs) \cap Named(C) = {}
      BY <1>3, <1>5, <1>7
    <2> QED BY <2>1, <1>2, <1>7, Added
  <1>10. D[AtContinuations] = C[AtContinuations] \o cs /\ \A p \in Places : p # AtContinuations => D[p] = C[p]
    BY <1>2, <1>7 DEF Holdings
  <1> HIDE DEF D
  <1>11. E \in Holdings /\ Once(E) /\ Named(E) = Named(D) \cup ToSet(rd)
    <2>1. ToSet(rd) \cap Named(D) = {}
      BY <1>3, <1>5, <1>7, <1>9
    <2> QED BY <2>1, <1>2, <1>9, Added
  <1>12. E[AtReady] = D[AtReady] \o rd /\ \A p \in Places : p # AtReady => E[p] = D[p]
    BY <1>2, <1>9 DEF Holdings
  <1> HIDE DEF E
  <1>13. Held' = E
    <2>1. Held'[AtContinuations] = E[AtContinuations]
      <3>1. AtContinuations # AtInflight(k) /\ AtContinuations # AtBlocked(k) /\ AtContinuations # AtReady
        BY <1>1, PlacesAre
      <3>2. B[AtContinuations] = Held[AtContinuations]
        BY <3>1, <1>2, <1>4, <1>6
      <3>3. E[AtContinuations] = C[AtContinuations] \o cs /\ C[AtContinuations] = B[AtContinuations] \o bs
        BY <3>1, <1>2, <1>8, <1>10, <1>12
      <3>4. Held[AtContinuations] = continuations /\ Held'[AtContinuations] = continuations'
        BY HeldIs, HeldNext
      <3> QED BY <3>2, <3>3, <3>4
    <2>2. Held'[AtReady] = E[AtReady]
      <3>1. E[AtReady] = Held[AtReady] \o rd
        <4>1. AtReady # AtInflight(k) /\ AtReady # AtBlocked(k) /\ AtContinuations # AtReady
          BY <1>1, PlacesAre
        <4> QED BY <4>1, <1>2, <1>4, <1>6, <1>8, <1>10, <1>12
      <3> QED BY <3>1, HeldIs, HeldNext
    <2>3. Held'[AtFresh] = E[AtFresh]
      <3>1. E[AtFresh] = Held[AtFresh]
        <4>1. AtFresh \in Places /\ AtFresh # AtInflight(k) /\ AtFresh # AtBlocked(k) /\ AtContinuations # AtFresh /\ AtReady # AtFresh
          BY <1>1, PlacesAre
        <4> QED BY <4>1, <1>2, <1>4, <1>6, <1>8, <1>10, <1>12
      <3> QED BY <3>1, HeldIs, HeldNext
    <2>4. ASSUME NEW l \in Keys
          PROVE  Held'[AtInflight(l)] = E[AtInflight(l)] /\ Held'[AtBlocked(l)] = E[AtBlocked(l)]
      <3>1. /\ AtInflight(l) \in Places /\ AtBlocked(l) \in Places
            /\ AtInflight(l) # AtBlocked(k) /\ AtBlocked(l) # AtInflight(k)
            /\ AtInflight(l) \notin {AtContinuations, AtReady} /\ AtBlocked(l) \notin {AtContinuations, AtReady}
            /\ (l # k => AtInflight(l) # AtInflight(k) /\ AtBlocked(l) # AtBlocked(k))
        BY <1>1, PlacesAre
      <3>2. /\ E[AtInflight(l)] = A[AtInflight(l)]
            /\ E[AtBlocked(l)] = B[AtBlocked(l)]
        BY <3>1, <1>6, <1>8, <1>10, <1>12
      <3>3. /\ E[AtInflight(l)] = IF l = k THEN <<>> ELSE Held[AtInflight(l)]
            /\ E[AtBlocked(l)] = IF l = k THEN <<>> ELSE Held[AtBlocked(l)]
        BY <3>1, <3>2, <1>4, <1>6
      <3>4. /\ DOMAIN inflight' = DOMAIN inflight \ {k} /\ DOMAIN blocked' = DOMAIN blocked \ {k}
            /\ \A x \in DOMAIN inflight' : inflight'[x] = inflight[x]
            /\ \A x \in DOMAIN blocked' : blocked'[x] = blocked[x]
        BY EndedTyped
      <3>5. /\ Held'[AtInflight(l)] = IF l \in DOMAIN inflight' THEN inflight'[l].jobs ELSE <<>>
            /\ Held'[AtBlocked(l)] = IF l \in DOMAIN blocked' THEN blocked'[l] ELSE <<>>
            /\ Held[AtInflight(l)] = IF l \in DOMAIN inflight THEN inflight[l].jobs ELSE <<>>
            /\ Held[AtBlocked(l)] = BlockedOn(l)
        BY HeldIs, HeldNext
      <3>6. CASE l = k
        BY <3>3, <3>4, <3>5, <3>6
      <3>7. CASE l # k
        BY <3>3, <3>4, <3>5, <3>7 DEF BlockedOn
      <3> QED BY <3>6, <3>7
    <2>5. \A p \in {AtContinuations, AtReady, AtFresh} : Held'[p] = E[p]
      BY <2>1, <2>2, <2>3
    <2> QED BY <1>2, <1>11, <2>4, <2>5, SameHeld
  <1>14. Named(E) = (Named(Held) \ J) \cup ToSet(cs) \cup ToSet(rd)
    BY <1>3, <1>5, <1>7, <1>9, <1>11
  <1> QED BY <1>11, <1>13, <1>14

----------------------------------------------------------------------------
(* What each step keeps *)

JobsPlaced == {r \in Routes : jobs[r] # None} \subseteq Named(Held)

LEMMA OnePlace ==
    ASSUME TypeOK, NoJobTwice, NEW m \in Places, NEW n \in Places, NEW r \in ToSet(Held[m]), r \in ToSet(Held[n])
    PROVE  m = n /\ r \in Named(Held) /\ r \in Routes /\ jobs[r] # None
  <1>1. Held \in Holdings /\ DOMAIN Held = Places /\ Once(Held) /\ Named(Held) \subseteq {x \in Routes : jobs[x] # None}
    BY HeldIs DEF Holdings, NoJobTwice
  <1>2. r \in Named(Held)
    BY <1>1 DEF Named
  <1>3. m = n
    BY <1>1 DEF Once, ToSet
  <1> QED BY <1>1, <1>2, <1>3

LEMMA SameJob ==
    ASSUME NEW r, jobs'[r] = jobs[r]
    PROVE  Complete(r)' = Complete(r) /\ NextKey(r)' = NextKey(r)
  BY DEF Complete, NextKey

\* Nothing about the jobs changes.
LEMMA QuietKept ==
    ASSUME RouterInv, UNCHANGED <<busy, jobs, pricing, fresh, lists, inflight, blocked>>
    PROVE  NoJobTwice' /\ LegsFit' /\ (JobsPlaced => JobsPlaced')
  <1>1. Held' = Held
    BY HeldStays
  <1>2. NoJobTwice' /\ (JobsPlaced => JobsPlaced')
    BY <1>1 DEF RouterInv, NoJobTwice, JobsPlaced
  <1>3. \A r : Complete(r)' = Complete(r) /\ NextKey(r)' = NextKey(r)
    BY SameJob
  <1>4. LegsFit'
    BY <1>3 DEF RouterInv, LegsFit, lists
  <1> QED BY <1>2, <1>4

\* A tick makes news where it touches a route, and takes it back where it reverts.
LEMMA TickKept ==
    ASSUME RouterInv, OnTick
    PROVE  NoJobTwice' /\ LegsFit' /\ PendingNewsIsScheduled' /\ (JobsPlaced => JobsPlaced')
  <1>1. NoJobTwice' /\ LegsFit' /\ (JobsPlaced => JobsPlaced')
    BY QuietKept DEF OnTick
  <1> DEFINE i == tick.input
             s == [seen EXCEPT ![i] = tick.price]
  <1>2. /\ trigger' = [r \in Routes |-> CASE r \in Touched(s, i) /\ trigger[r] = None -> tick.received
                                          [] r \in Reverted(s, i) -> None
                                          [] OTHER -> trigger[r]]
        /\ triggered' = (triggered \cup Touched(s, i)) \ Reverted(s, i) /\ busy' = busy
    BY DEF OnTick
  <1>3. Touched(s, i) \cap Reverted(s, i) = {}
    BY DEF Touched, Reverted
  <1> HIDE DEF s, i
  <1>4. ASSUME NEW r \in Routes, trigger'[r] # None, r \notin busy' PROVE r \in triggered'
    <2>1. CASE r \in Touched(s, i)
      BY <2>1, <1>2, <1>3
    <2>2. CASE r \notin Touched(s, i)
      <3>1. trigger'[r] = IF r \in Reverted(s, i) THEN None ELSE trigger[r]
        BY <2>2, <1>2
      <3>2. r \notin Reverted(s, i) /\ trigger[r] # None
        BY <3>1, <1>4
      <3> QED BY <3>2, <1>2, <1>4 DEF RouterInv, PendingNewsIsScheduled
    <2> QED BY <2>1, <2>2
  <1>5. PendingNewsIsScheduled'
    BY <1>4 DEF PendingNewsIsScheduled
  <1> QED BY <1>1, <1>5

LEMMA PauseKept ==
    ASSUME RouterInv,
           UNCHANGED vars \/ Timer \/ SlotFrees \/ OtherUse \/ NothingToDo
           \/ (\E r \in Routes : Rested(r) \/ Floor(r) \/ Expire(r) \/ ContinuationWaits(r))
           \/ (\E i \in Inputs, m \in Prices : Receive(i, m))
    PROVE  NoJobTwice' /\ LegsFit' /\ PendingNewsIsScheduled' /\ (JobsPlaced => JobsPlaced')
  <1>1. UNCHANGED <<busy, jobs, pricing, fresh, lists, inflight, blocked>> /\ UNCHANGED <<trigger, triggered>>
    BY DEF vars, Timer, SlotFrees, OtherUse, NothingToDo, Rested, Floor, Expire, ContinuationWaits, Receive,
           route, requests
  <1>2. PendingNewsIsScheduled'
    BY <1>1 DEF RouterInv, PendingNewsIsScheduled
  <1> QED BY <1>1, <1>2, QuietKept

LEMMA ReadyKept ==
    ASSUME RouterInv, TypeOK', DropRepeat \/ Finish
    PROVE  NoJobTwice' /\ LegsFit' /\ PendingNewsIsScheduled' /\ (JobsPlaced => JobsPlaced')
  <1> DEFINE r == Head(ready)
  <1>1. /\ ready # <<>> /\ ready' = Tail(ready)
        /\ UNCHANGED <<continuations, fresh, inflight, blocked>> /\ TypeOK /\ NoJobTwice
    BY DEF DropRepeat, Finish, requests, RouterInv
  <1>2. /\ Once(Held') /\ Named(Held') = Named(Held) \ {r}
        /\ r \in Named(Held) /\ r \in ToSet(ready) /\ ToSet(ready') \subseteq ToSet(ready)
    BY <1>1, ReadyTaken
  <1>3. r \in Routes /\ jobs[r] # None /\ pricing[r] = None
    BY <1>1, <1>2 DEF NoJobTwice
  <1>4. jobs' = [x \in Routes |-> IF x = r THEN None ELSE jobs[x]]
    BY <1>1 DEF DropRepeat, Finish, TypeOK
  <1>5. \/ busy' = busy \ {r} /\ pricing' = pricing /\ trigger'[r] = None
           /\ \A x \in Routes : x # r => (trigger'[x] = trigger[x] /\ (x \in triggered => x \in triggered'))
        \/ /\ busy' = busy /\ pricing'[r] # None /\ \A x \in Routes : x # r => pricing'[x] = pricing[x]
           /\ UNCHANGED <<trigger, triggered>>
    <2>1. CASE DropRepeat
      BY <2>1, <1>1, <1>3 DEF DropRepeat, TypeOK
    <2>2. CASE Finish
      <3>1. pricing' = [pricing EXCEPT ![r] = [inputs |-> jobs[r].inputs, started |-> jobs[r].picked]]
            /\ DOMAIN pricing = Routes
        BY <2>2, <1>1 DEF Finish, TypeOK
      <3>2. pricing'[r] # None
        <4>1. jobs[r] \in Jobs
          BY <1>1, <1>3 DEF TypeOK
        <4>2. [inputs |-> jobs[r].inputs, started |-> jobs[r].picked] \in Pricings
          BY <4>1 DEF Jobs, Pricings
        <4> QED BY <3>1, <4>2, <1>3, NoneAssumption
      <3> QED BY <2>2, <3>1, <3>2 DEF Finish
    <2> QED BY <2>1, <2>2
  <1> HIDE DEF r
  <1>6. NoJobTwice'
    BY <1>1, <1>2, <1>3, <1>4, <1>5 DEF NoJobTwice
  <1>7. LegsFit'
    <2>1. \A x \in Routes : x # r => jobs'[x] = jobs[x] /\ Complete(x)' = Complete(x) /\ NextKey(x)' = NextKey(x)
      BY <1>4, SameJob
    <2>2. r \notin ToSet(ready') /\ ready' \in Lists
      <3>1. Held' \in Holdings /\ Held'[AtReady] = ready' /\ AtReady \in Places
        BY HeldNext, PlacesAre
      <3>2. ToSet(ready') \subseteq Named(Held')
        BY <3>1 DEF Named, Holdings
      <3> QED BY <3>1, <3>2, <1>2 DEF Holdings
    <2>3. \A k \in DOMAIN inflight : \A x \in ToSet(inflight[k].jobs) : x # r
      <3>1. SUFFICES ASSUME NEW k \in DOMAIN inflight, r \in ToSet(inflight[k].jobs) PROVE FALSE
        OBVIOUS
      <3>2. k \in Keys /\ Held[AtInflight(k)] = inflight[k].jobs /\ Held[AtReady] = ready
        BY <1>1, RequestIs, HeldIs
      <3>3. AtInflight(k) \in Places /\ AtReady \in Places /\ AtInflight(k) # AtReady
        BY <3>2, PlacesAre
      <3> QED BY <3>1, <3>2, <3>3, <1>1, <1>2, OnePlace
    <2>4. \A x \in ToSet(ready') : x \in Routes /\ x \in ToSet(ready)
      BY <1>2, <2>2, InList
    <2>5. \A k \in DOMAIN inflight : \A x \in ToSet(inflight[k].jobs) : x \in Routes
      BY <1>1, RequestIs
    <2> QED BY <1>1, <1>4, <2>1, <2>2, <2>3, <2>4, <2>5 DEF RouterInv, LegsFit
  <1>8. PendingNewsIsScheduled'
    BY <1>1, <1>4, <1>5 DEF RouterInv, PendingNewsIsScheduled
  <1>9. JobsPlaced => JobsPlaced'
    BY <1>2, <1>4 DEF JobsPlaced
  <1> QED BY <1>6, <1>7, <1>8, <1>9

\* The job that is worked on is in no other place.
LEMMA WorkingElsewhere ==
    ASSUME RouterInv, NEW r \in Routes, Working(r)
    PROVE  /\ TypeOK /\ NoJobTwice /\ LegsFit /\ jobs[r] # None /\ pricing[r] = None /\ ready = <<>>
           /\ r \in Named(Held) /\ Len(jobs[r].legs) <= Len(LegsOf[r])
           /\ \A k \in DOMAIN inflight : r \notin ToSet(inflight[k].jobs)
           /\ (~Complete(r) => /\ NextKey(r) \in Keys /\ Len(jobs[r].legs) + 1 \in DOMAIN LegsOf[r]
                               /\ NextKey(r)[1] = LegsOf[r][Len(jobs[r].legs) + 1])
  <1>1. TypeOK /\ NoJobTwice /\ LegsFit
    BY DEF RouterInv
  <1>2. r \in Named(Held) /\ jobs[r] # None /\ ready = <<>> /\ Source \in Places
    BY <1>1, WorkingIs
  <1>3. Len(jobs[r].legs) <= Len(LegsOf[r])
    BY <1>1, <1>2 DEF LegsFit
  <1>4. ASSUME NEW k \in DOMAIN inflight, r \in ToSet(inflight[k].jobs) PROVE FALSE
    <2>1. k \in Keys /\ Held[AtInflight(k)] = inflight[k].jobs
      BY <1>1, RequestIs
    <2>2. r \in ToSet(Held[Source])
      <3>1. CASE fresh # None
        <4>1. Held[Source] = <<r>>
          BY <3>1, <1>1, HeldIs DEF Source, Working
        <4> QED BY <4>1, One
      <3>2. CASE fresh = None
        <4>1. Held[Source] = continuations /\ continuations # <<>> /\ r = Head(continuations) /\ continuations \in Lists
          BY <3>2, <1>1, HeldIs DEF Source, Working, TypeOK, Lists
        <4> QED BY <4>1, Rest
      <3> QED BY <3>1, <3>2
    <2>3. AtInflight(k) \in Places /\ AtInflight(k) # Source
      BY <2>1, PlacesAre DEF Source
    <2> QED BY <1>1, <1>2, <1>4, <2>1, <2>2, <2>3, OnePlace
  <1>5. ~Complete(r) => /\ NextKey(r) \in Keys /\ Len(jobs[r].legs) + 1 \in DOMAIN LegsOf[r]
                        /\ NextKey(r)[1] = LegsOf[r][Len(jobs[r].legs) + 1]
    BY <1>1, <1>2, <1>3, KeyIs
  <1>6. pricing[r] = None
    BY <1>1, <1>2 DEF NoJobTwice
  <1> QED BY <1>1, <1>2, <1>3, <1>4, <1>5, <1>6

\* It joins another list with what it has.
LEMMA MovedKept ==
    ASSUME RouterInv, Typed', NEW r \in Routes, BecomesReady(r) \/ Coalesces(r) \/ Blocks(r) \/ Dispatch(r)
    PROVE  NoJobTwice' /\ LegsFit' /\ PendingNewsIsScheduled' /\ (JobsPlaced => JobsPlaced')
  <1> DEFINE k == NextKey(r)
  <1>1. Working(r) /\ Placed /\ UNCHANGED <<busy, jobs, pricing, trigger, triggered>> /\ TypeOK' /\ ready \in Lists
    BY DEF BecomesReady, Coalesces, Blocks, Dispatch, route, Typed, RouterInv, TypeOK, Lists
  <1>2. /\ TypeOK /\ NoJobTwice /\ LegsFit /\ jobs[r] # None
        /\ (~Complete(r) => /\ k \in Keys /\ Len(jobs[r].legs) + 1 \in DOMAIN LegsOf[r]
                            /\ k[1] = LegsOf[r][Len(jobs[r].legs) + 1])
    BY <1>1, WorkingElsewhere
  <1>3. \A x : Complete(x)' = Complete(x) /\ NextKey(x)' = NextKey(x)
    BY <1>1, SameJob
  <1>4. PendingNewsIsScheduled'
    BY <1>1 DEF RouterInv, PendingNewsIsScheduled
  <1>5. ASSUME Once(Held'), Named(Held') = Named(Held), DOMAIN blocked' \subseteq DOMAIN inflight'
        PROVE  NoJobTwice' /\ (JobsPlaced => JobsPlaced')
    BY <1>1, <1>2, <1>5 DEF NoJobTwice, JobsPlaced
  <1>6. CASE BecomesReady(r)
    <2>1. ready' = Append(ready, r) /\ inflight' = inflight /\ blocked' = blocked /\ Complete(r)
      BY <1>6 DEF BecomesReady, requests
    <2>2. Held'[AtReady] = Append(Held[AtReady], r)
      BY <1>1, <1>2, <2>1, HeldIs, HeldNext
    <2>3. \A p \in Places : p \notin {AtReady, AtContinuations, AtFresh} => Held'[p] = Held[p]
      <3>1. \A l \in Keys : Held'[AtInflight(l)] = Held[AtInflight(l)] /\ Held'[AtBlocked(l)] = Held[AtBlocked(l)]
        BY <1>1, <1>2, <2>1, HeldIs, HeldNext DEF BlockedOn
      <3> QED BY <3>1, PlacesAre
    <2>4. AtReady \in Places /\ AtReady \notin {AtContinuations, AtFresh}
      BY PlacesAre
    <2>5. Once(Held') /\ Named(Held') = Named(Held)
      BY <1>1, <1>2, <2>2, <2>3, <2>4, JobMoves
    <2>6. ToSet(ready') = ToSet(ready) \cup {r}
      BY <1>1, <2>1, Appended
    <2>7. LegsFit'
      BY <1>1, <1>2, <1>3, <2>1, <2>6 DEF LegsFit
    <2> QED BY <1>2, <1>4, <1>5, <2>1, <2>5, <2>7 DEF NoJobTwice
  <1>7. CASE Coalesces(r)
    <2> DEFINE f == [inflight[k] EXCEPT !.jobs = Append(@, r)]
    <2>1. /\ ~Complete(r) /\ k \in DOMAIN inflight /\ ready' = ready /\ blocked' = blocked
          /\ inflight' = [inflight EXCEPT ![k] = f]
      BY <1>7 DEF Coalesces, InFlight
    <2>2. /\ inflight[k].jobs \in Lists /\ inflight[k] \in Requests
          /\ f.jobs = Append(inflight[k].jobs, r) /\ f.index = inflight[k].index
      <3>1. inflight[k].jobs \in Lists /\ inflight[k] \in Requests
        BY <1>2, <2>1, RequestIs
      <3> QED BY <3>1 DEF Requests
    <2> HIDE DEF f
    <2>3. /\ DOMAIN inflight' = DOMAIN inflight /\ inflight'[k] = f
          /\ \A l \in DOMAIN inflight : l # k => inflight'[l] = inflight[l]
      BY <1>2, <2>1 DEF TypeOK
    <2> HIDE DEF k
    <2>4. Held'[AtInflight(k)] = Append(Held[AtInflight(k)], r)
      BY <1>1, <1>2, <2>1, <2>2, <2>3, HeldIs, HeldNext
    <2>5. \A p \in Places : p \notin {AtInflight(k), AtContinuations, AtFresh} => Held'[p] = Held[p]
      <3>1. \A l \in Keys : /\ l # k => Held'[AtInflight(l)] = Held[AtInflight(l)]
                            /\ Held'[AtBlocked(l)] = Held[AtBlocked(l)]
        BY <1>1, <1>2, <2>1, <2>3, HeldIs, HeldNext DEF BlockedOn
      <3>2. Held'[AtReady] = Held[AtReady]
        BY <1>1, <1>2, <2>1, HeldIs, HeldNext
      <3> QED BY <3>1, <3>2, PlacesAre
    <2>6. AtInflight(k) \in Places /\ AtInflight(k) \notin {AtContinuations, AtFresh}
      BY <1>2, <2>1, PlacesAre
    <2>7. Once(Held') /\ Named(Held') = Named(Held)
      BY <1>1, <1>2, <2>4, <2>5, <2>6, JobMoves
    <2>8. ToSet(f.jobs) = ToSet(inflight[k].jobs) \cup {r}
      BY <2>2, Appended
    <2>9. LegsFit'
      <3>1. \A l \in DOMAIN inflight' : inflight'[l].index = inflight[l].index
        BY <2>2, <2>3
      <3>2. \A l \in DOMAIN inflight' : \A x \in ToSet(inflight'[l].jobs) : ~Complete(x) /\ NextKey(x) = l
        <4>1. SUFFICES ASSUME NEW l \in DOMAIN inflight', NEW x \in ToSet(inflight'[l].jobs)
                       PROVE  ~Complete(x) /\ NextKey(x) = l
          OBVIOUS
        <4>2. x \in ToSet(inflight[l].jobs) \/ (l = k /\ x = r)
          BY <4>1, <2>3, <2>8
        <4> QED BY <4>2, <1>2, <2>1, <2>3 DEF LegsFit, k
      <3> QED BY <1>1, <1>2, <1>3, <2>1, <2>3, <3>1, <3>2 DEF LegsFit
    <2> QED BY <1>2, <1>4, <1>5, <2>1, <2>3, <2>7, <2>9 DEF NoJobTwice
  <1>8. CASE Blocks(r)
    <2>1. /\ ~Complete(r) /\ k \in DOMAIN inflight /\ ready' = ready /\ inflight' = inflight
          /\ blocked' = With(blocked, k, Append(BlockedOn(k), r))
      BY <1>8 DEF Blocks, InFlight
    <2> HIDE DEF k
    <2>2. /\ DOMAIN blocked' = DOMAIN blocked \cup {k} /\ blocked'[k] = Append(BlockedOn(k), r)
          /\ \A l \in DOMAIN blocked : l # k => blocked'[l] = blocked[l]
      BY <2>1 DEF With
    <2>3. Held'[AtBlocked(k)] = Append(Held[AtBlocked(k)], r)
      BY <1>1, <1>2, <2>1, <2>2, HeldIs, HeldNext
    <2>4. \A p \in Places : p \notin {AtBlocked(k), AtContinuations, AtFresh} => Held'[p] = Held[p]
      <3>1. \A l \in Keys : /\ l # k => Held'[AtBlocked(l)] = Held[AtBlocked(l)]
                            /\ Held'[AtInflight(l)] = Held[AtInflight(l)]
        BY <1>1, <1>2, <2>1, <2>2, HeldIs, HeldNext DEF BlockedOn
      <3>2. Held'[AtReady] = Held[AtReady]
        BY <1>1, <1>2, <2>1, HeldIs, HeldNext
      <3> QED BY <3>1, <3>2, PlacesAre
    <2>5. AtBlocked(k) \in Places /\ AtBlocked(k) \notin {AtContinuations, AtFresh}
      BY <1>2, <2>1, PlacesAre
    <2>6. Once(Held') /\ Named(Held') = Named(Held)
      BY <1>1, <1>2, <2>3, <2>4, <2>5, JobMoves
    <2>7. LegsFit'
      BY <1>1, <1>2, <1>3, <2>1 DEF LegsFit
    <2> QED BY <1>2, <1>4, <1>5, <2>1, <2>2, <2>6, <2>7 DEF NoJobTwice
  <1>9. CASE Dispatch(r)
    <2> DEFINE f == [jobs |-> <<r>>, index |-> Len(jobs[r].legs), sent |-> clock + 1,
                     mids |-> MidsFor(Obs[NextKey(r)[1]], seen)]
    <2>1. /\ ~Complete(r) /\ ready' = ready /\ blocked' = blocked /\ inflight' = With(inflight, k, f)
          /\ ~InFlight(r) /\ ~Cached(r) /\ f.jobs = <<r>> /\ f.index = Len(jobs[r].legs)
      BY <1>9 DEF Dispatch, MustSend
    <2>2. k \notin DOMAIN inflight
      BY <2>1 DEF InFlight
    <2> HIDE DEF f, k
    <2>3. /\ DOMAIN inflight' = DOMAIN inflight \cup {k} /\ inflight'[k] = f
          /\ \A l \in DOMAIN inflight : l # k => inflight'[l] = inflight[l]
      BY <2>1 DEF With
    <2>4. Held'[AtInflight(k)] = Append(Held[AtInflight(k)], r)
      <3>1. Held[AtInflight(k)] = <<>> /\ Held'[AtInflight(k)] = <<r>>
        BY <1>1, <1>2, <2>1, <2>2, <2>3, HeldIs, HeldNext
      <3> QED BY <3>1
    <2>5. \A p \in Places : p \notin {AtInflight(k), AtContinuations, AtFresh} => Held'[p] = Held[p]
      <3>1. \A l \in Keys : /\ l # k => Held'[AtInflight(l)] = Held[AtInflight(l)]
                            /\ Held'[AtBlocked(l)] = Held[AtBlocked(l)]
        BY <1>1, <1>2, <2>1, <2>3, HeldIs, HeldNext DEF BlockedOn
      <3>2. Held'[AtReady] = Held[AtReady]
        BY <1>1, <1>2, <2>1, HeldIs, HeldNext
      <3> QED BY <3>1, <3>2, PlacesAre
    <2>6. AtInflight(k) \in Places /\ AtInflight(k) \notin {AtContinuations, AtFresh}
      BY <1>2, <2>1, PlacesAre
    <2>7. Once(Held') /\ Named(Held') = Named(Held)
      BY <1>1, <1>2, <2>4, <2>5, <2>6, JobMoves
    <2>8. ToSet(f.jobs) = {r}
      BY <2>1, One
    <2>9. LegsFit'
      <3>1. \A l \in DOMAIN inflight' : \E x \in Routes :
               inflight'[l].index + 1 \in DOMAIN LegsOf[x] /\ LegsOf[x][inflight'[l].index + 1] = l[1]
        <4>1. SUFFICES ASSUME NEW l \in DOMAIN inflight'
              PROVE \E x \in Routes : inflight'[l].index + 1 \in DOMAIN LegsOf[x]
                                      /\ LegsOf[x][inflight'[l].index + 1] = l[1]
          OBVIOUS
        <4>2. CASE l = k
          <5>1. inflight'[l].index = Len(jobs[r].legs)
            BY <4>2, <2>1, <2>3
          <5>2. Len(jobs[r].legs) + 1 \in DOMAIN LegsOf[r] /\ LegsOf[r][Len(jobs[r].legs) + 1] = l[1]
            BY <4>2, <1>2, <2>1
          <5> QED BY <5>1, <5>2
        <4>3. CASE l # k
          BY <4>3, <1>2, <2>3 DEF LegsFit
        <4> QED BY <4>2, <4>3
      <3>2. \A l \in DOMAIN inflight' : \A x \in ToSet(inflight'[l].jobs) : ~Complete(x) /\ NextKey(x) = l
        <4>1. SUFFICES ASSUME NEW l \in DOMAIN inflight', NEW x \in ToSet(inflight'[l].jobs)
                       PROVE  ~Complete(x) /\ NextKey(x) = l
          OBVIOUS
        <4>2. CASE l = k
          BY <4>1, <4>2, <2>1, <2>3, <2>8 DEF k
        <4>3. CASE l # k
          BY <4>1, <4>3, <1>2, <2>3 DEF LegsFit
        <4> QED BY <4>2, <4>3
      <3> QED BY <1>1, <1>2, <1>3, <2>1, <3>1, <3>2 DEF LegsFit
    <2> QED BY <1>2, <1>4, <1>5, <2>1, <2>3, <2>7, <2>9 DEF NoJobTwice
  <1> QED BY <1>6, <1>7, <1>8, <1>9

LEMMA CachedKept ==
    ASSUME RouterInv, Typed', NEW r \in Routes, TakesCached(r)
    PROVE  NoJobTwice' /\ LegsFit' /\ PendingNewsIsScheduled' /\ (JobsPlaced => JobsPlaced')
  <1> DEFINE q == cache[NextKey(r)]
  <1>1. /\ Working(r) /\ ~Complete(r) /\ UNCHANGED <<busy, pricing, trigger, triggered, fresh, lists, inflight, blocked>>
        /\ NextKey(r) \in DOMAIN cache
        /\ jobs' = [jobs EXCEPT ![r] = [jobs[r] EXCEPT !.legs = Append(@, q)]]
    BY DEF TakesCached, Cached, route, requests
  <1>2. /\ TypeOK /\ NoJobTwice /\ LegsFit /\ jobs[r] # None /\ ready = <<>> /\ Len(jobs[r].legs) <= Len(LegsOf[r])
        /\ \A k \in DOMAIN inflight : r \notin ToSet(inflight[k].jobs)
    BY <1>1, WorkingElsewhere
  <1>3. jobs[r] \in Jobs /\ q \in Quotes /\ DOMAIN jobs = Routes
    BY <1>1, <1>2 DEF TypeOK
  <1> HIDE DEF q
  <1>4. jobs'[r] # None /\ jobs'[r].legs = Append(jobs[r].legs, q) /\ \A x \in Routes : x # r => jobs'[x] = jobs[x]
    <2>1. jobs'[r] = [jobs[r] EXCEPT !.legs = Append(@, q)] /\ \A x \in Routes : x # r => jobs'[x] = jobs[x]
      BY <1>1, <1>3
    <2> QED BY <2>1, <1>3, JobWith
  <1>5. Held' = Held
    BY <1>1, HeldStays
  <1>6. {x \in Routes : jobs'[x] # None} = {x \in Routes : jobs[x] # None}
    BY <1>2, <1>4
  <1>7. NoJobTwice' /\ (JobsPlaced => JobsPlaced')
    BY <1>1, <1>2, <1>4, <1>5, <1>6 DEF NoJobTwice, JobsPlaced
  <1>8. PendingNewsIsScheduled'
    BY <1>1 DEF RouterInv, PendingNewsIsScheduled
  <1>9. LegsFit'
    <2>1. Len(jobs'[r].legs) <= Len(LegsOf[r])
      <3>1. jobs[r].legs \in Seq(Quotes)
        BY <1>3 DEF Jobs
      <3>2. Len(jobs[r].legs) \in Nat /\ Len(jobs'[r].legs) = Len(jobs[r].legs) + 1
        BY <3>1, <1>4
      <3> QED BY <3>2, <1>1, <1>2, LegsAre DEF Complete
    <2>2. \A x \in Routes : x # r => Complete(x)' = Complete(x) /\ NextKey(x)' = NextKey(x)
      BY <1>4, SameJob
    <2>3. ready' = <<>> /\ ToSet(ready') = {}
      BY <1>1, <1>2, NoEntries DEF lists
    <2>4. \A k \in DOMAIN inflight : \A x \in ToSet(inflight[k].jobs) : x \in Routes /\ x # r
      BY <1>2, RequestIs
    <2>5. \A x \in Routes : jobs'[x] # None => Len(jobs'[x].legs) <= Len(LegsOf[x])
      BY <1>2, <1>4, <2>1 DEF LegsFit
    <2> QED BY <1>1, <1>2, <2>2, <2>3, <2>4, <2>5 DEF LegsFit
  <1> QED BY <1>7, <1>8, <1>9

LEMMA AbandonKept ==
    ASSUME RouterInv, Typed', NEW r \in Routes, Abandon(r)
    PROVE  NoJobTwice' /\ LegsFit' /\ PendingNewsIsScheduled' /\ (JobsPlaced => JobsPlaced')
  <1>1. /\ Working(r) /\ fresh = r /\ fresh # None /\ fresh' = None /\ TypeOK'
        /\ UNCHANGED <<pricing, trigger, lists, requests>>
        /\ jobs' = [jobs EXCEPT ![r] = None] /\ busy' = busy \ {r} /\ triggered' = StillNews(r)
    BY DEF Abandon, Working, Typed
  <1>2. /\ TypeOK /\ NoJobTwice /\ LegsFit /\ jobs[r] # None /\ pricing[r] = None /\ ready = <<>> /\ r \in Named(Held)
        /\ \A k \in DOMAIN inflight : r \notin ToSet(inflight[k].jobs)
    BY <1>1, WorkingElsewhere
  <1>3. jobs'[r] = None /\ \A x \in Routes : x # r => jobs'[x] = jobs[x]
    BY <1>1, <1>2 DEF TypeOK
  <1> DEFINE T == [Held EXCEPT ![Source] = Tail(Held[Source])]
  <1>4. T \in Holdings /\ Once(T) /\ Named(T) = Named(Held) \ {r} /\ Source \in Places
    BY <1>1, <1>2, WorkingIs
  <1>5. Held \in Holdings /\ Held' \in Holdings /\ Source = AtFresh
    BY <1>1, <1>2, HeldIs, HeldNext DEF Source
  <1>6. T[AtFresh] = Tail(Held[AtFresh]) /\ \A p \in Places : p # AtFresh => T[p] = Held[p]
    BY <1>4, <1>5 DEF Holdings
  <1> HIDE DEF T
  <1>7. Held' = T
    <2>1. Held'[AtFresh] = T[AtFresh]
      BY <1>1, <1>2, <1>6, HeldIs, HeldNext, One
    <2>2. \A p \in {AtContinuations, AtReady} : Held'[p] = T[p]
      BY <1>1, <1>2, <1>6, HeldIs, HeldNext, PlacesAre DEF lists
    <2>3. \A k \in Keys : Held'[AtInflight(k)] = T[AtInflight(k)] /\ Held'[AtBlocked(k)] = T[AtBlocked(k)]
      <3>1. SUFFICES ASSUME NEW k \in Keys
            PROVE Held'[AtInflight(k)] = Held[AtInflight(k)] /\ Held'[AtBlocked(k)] = Held[AtBlocked(k)]
        BY <1>6, PlacesAre
      <3> QED BY <1>1, <1>2, HeldIs, HeldNext DEF BlockedOn, requests
    <2> QED BY <1>4, <1>5, <2>1, <2>2, <2>3, SameHeld
  <1>8. Once(Held') /\ Named(Held') = Named(Held) \ {r}
    BY <1>4, <1>7
  <1>9. NoJobTwice' /\ (JobsPlaced => JobsPlaced')
    BY <1>1, <1>2, <1>3, <1>8 DEF NoJobTwice, JobsPlaced, requests
  <1>10. PendingNewsIsScheduled'
    <2>1. \A x \in Routes : x # r => (x \in triggered => x \in triggered')
      BY <1>1 DEF StillNews
    <2>2. trigger[r] # None => r \in triggered'
      BY <1>1 DEF StillNews
    <2> QED BY <1>1, <2>1, <2>2 DEF RouterInv, PendingNewsIsScheduled
  <1>11. LegsFit'
    <2>1. \A x \in Routes : x # r => Complete(x)' = Complete(x) /\ NextKey(x)' = NextKey(x)
      BY <1>3, SameJob
    <2>2. ToSet(ready') = {}
      BY <1>1, <1>2, NoEntries DEF lists
    <2>3. \A k \in DOMAIN inflight : \A x \in ToSet(inflight[k].jobs) : x \in Routes /\ x # r
      BY <1>2, RequestIs
    <2> QED BY <1>1, <1>2, <1>3, <2>1, <2>2, <2>3 DEF LegsFit, requests
  <1> QED BY <1>9, <1>10, <1>11

LEMMA StartKept ==
    ASSUME RouterInv, Typed', NEW r \in Routes, StartJob(r)
    PROVE  NoJobTwice' /\ LegsFit' /\ PendingNewsIsScheduled' /\ (JobsPlaced => JobsPlaced')
  <1>1. TypeOK /\ TypeOK' /\ NoJobTwice /\ LegsFit
    BY DEF RouterInv, Typed
  <1>2. /\ Once(Held') /\ Named(Held') = Named(Held) \cup {r} /\ r \notin Named(Held)
        /\ jobs[r] = None /\ pricing[r] = None /\ r \notin busy
    BY <1>1, JobStarted
  <1> DEFINE j == [legs |-> <<>>, picked |-> clock, trigger |-> trigger[r],
                   background |-> Urgent = {}, inputs |-> seen]
  <1>3. /\ UNCHANGED <<pricing, trigger, lists, requests>> /\ jobs' = [jobs EXCEPT ![r] = j]
        /\ busy' = busy \cup {r} /\ triggered' = triggered \ {r} /\ j.legs = <<>> /\ ready = <<>>
    BY DEF StartJob, Idle
  <1>4. j \in Jobs
    BY <1>1 DEF TypeOK, Jobs
  <1> HIDE DEF j
  <1>5. jobs'[r] = j /\ jobs'[r] # None /\ \A x \in Routes : x # r => jobs'[x] = jobs[x]
    BY <1>1, <1>3, <1>4, NoneAssumption DEF TypeOK
  <1>6. NoJobTwice' /\ (JobsPlaced => JobsPlaced')
    BY <1>1, <1>2, <1>3, <1>5 DEF NoJobTwice, JobsPlaced, requests
  <1>7. PendingNewsIsScheduled'
    BY <1>3 DEF RouterInv, PendingNewsIsScheduled
  <1>8. LegsFit'
    <2>1. \A x \in Routes : x # r => Complete(x)' = Complete(x) /\ NextKey(x)' = NextKey(x)
      BY <1>5, SameJob
    <2>2. ToSet(ready') = {}
      BY <1>3, NoEntries DEF lists
    <2>3. \A k \in DOMAIN inflight : \A x \in ToSet(inflight[k].jobs) : x \in Routes /\ x # r
      BY <1>1, <1>2, RequestIs
    <2>4. Len(jobs'[r].legs) <= Len(LegsOf[r])
      <3>1. Len(jobs'[r].legs) = 0
        BY <1>3, <1>5
      <3> QED BY <3>1, LegsAre
    <2> QED BY <1>1, <1>3, <1>5, <2>1, <2>2, <2>3, <2>4 DEF LegsFit, requests
  <1> QED BY <1>6, <1>7, <1>8

LEMMA DecidedKept ==
    ASSUME RouterInv, NEW r \in Routes, OnDecided(r)
    PROVE  NoJobTwice' /\ LegsFit' /\ PendingNewsIsScheduled' /\ (JobsPlaced => JobsPlaced')
  <1>1. /\ UNCHANGED <<jobs, fresh, lists, requests>> /\ busy' = busy \ {r} /\ pricing' = [pricing EXCEPT ![r] = None]
        /\ pricing[r] # None /\ TypeOK /\ NoJobTwice /\ LegsFit
    BY DEF OnDecided, RouterInv
  <1>2. pricing'[r] = None /\ jobs[r] = None /\ \A x \in Routes : x # r => pricing'[x] = pricing[x]
    BY <1>1 DEF TypeOK, NoJobTwice
  <1>3. Held' = Held
    BY <1>1, HeldStays DEF requests
  <1>4. NoJobTwice' /\ (JobsPlaced => JobsPlaced')
    BY <1>1, <1>2, <1>3 DEF NoJobTwice, JobsPlaced, requests
  <1>5. \A x : Complete(x)' = Complete(x) /\ NextKey(x)' = NextKey(x)
    BY <1>1, SameJob
  <1>6. LegsFit'
    BY <1>1, <1>5 DEF LegsFit, lists, requests
  <1>7. PendingNewsIsScheduled'
    <2> DEFINE later == trigger[r] # None /\ trigger[r] > pricing[r].started
               again == ~later /\ Changed(r, seen, pricing[r].inputs)
    <2>1. /\ trigger' = [trigger EXCEPT ![r] = IF later THEN trigger[r] ELSE IF again THEN clock + 1 ELSE None]
          /\ triggered' = IF later \/ again THEN triggered \cup {r} ELSE triggered
          /\ DOMAIN trigger = Routes
      BY <1>1 DEF OnDecided, TypeOK
    <2> HIDE DEF later, again
    <2>2. /\ trigger'[r] # None => r \in triggered'
          /\ \A x \in Routes : x # r => trigger'[x] = trigger[x] /\ (x \in triggered => x \in triggered')
      BY <2>1
    <2> QED BY <1>1, <2>2 DEF RouterInv, PendingNewsIsScheduled
  <1> QED BY <1>4, <1>6, <1>7

\* A request that ends is in no list; its jobs are nowhere else.
LEMMA EndedElsewhere ==
    ASSUME RouterInv, NEW k \in DOMAIN inflight
    PROVE  /\ \A r \in ToSet(ready) : r \in Routes /\ r \notin ToSet(inflight[k].jobs)
           /\ \A l \in DOMAIN inflight : l # k => ToSet(inflight[l].jobs) \cap ToSet(inflight[k].jobs) = {}
  <1>1. TypeOK /\ NoJobTwice /\ k \in Keys /\ Held[AtInflight(k)] = inflight[k].jobs /\ Held[AtReady] = ready
    BY RequestIs, HeldIs DEF RouterInv
  <1>2. AtInflight(k) \in Places /\ AtReady \in Places /\ AtInflight(k) # AtReady
    BY <1>1, PlacesAre
  <1>3. \A r \in ToSet(ready) : r \in Routes /\ r \notin ToSet(inflight[k].jobs)
    BY <1>1, <1>2, OnePlace
  <1>4. ASSUME NEW l \in DOMAIN inflight, l # k, NEW r \in ToSet(inflight[l].jobs), r \in ToSet(inflight[k].jobs)
        PROVE  FALSE
    <2>1. l \in Keys /\ Held[AtInflight(l)] = inflight[l].jobs
      BY <1>1, RequestIs
    <2>2. AtInflight(l) \in Places /\ AtInflight(l) # AtInflight(k)
      BY <1>1, <1>4, <2>1, PlacesAre
    <2> QED BY <1>1, <1>2, <1>4, <2>1, <2>2, OnePlace
  <1> QED BY <1>3, <1>4

LEMMA ErrKept ==
    ASSUME RouterInv, Typed', NEW k \in Keys, NEW limited \in BOOLEAN, OnLegErr(k, limited)
    PROVE  NoJobTwice' /\ LegsFit' /\ PendingNewsIsScheduled' /\ (JobsPlaced => JobsPlaced')
  <1> DEFINE rs == ToSet(inflight[k].jobs)
  <1>1. TypeOK /\ TypeOK' /\ Typed /\ NoJobTwice /\ LegsFit /\ k \in DOMAIN inflight
    BY DEF RouterInv, Typed, OnLegErr
  <1>2. \A r \in rs : r \in Routes /\ jobs[r] # None /\ pricing[r] = None
    BY <1>1, RequestIs DEF NoJobTwice
  <1>3. /\ jobs' = [r \in Routes |-> IF r \in rs THEN None ELSE jobs[r]] /\ busy' = busy \ rs /\ pricing' = pricing
        /\ \/ triggered' = triggered \cup {r \in rs : trigger[r] # None} /\ trigger' = trigger
           \/ trigger' = [r \in Routes |-> IF r \in rs THEN None ELSE trigger[r]] /\ triggered' = triggered
        /\ continuations' = continuations \o BlockedOn(k) /\ ready' = ready /\ fresh' = fresh
        /\ inflight' = Without(inflight, k) /\ blocked' = Without(blocked, k)
    BY DEF OnLegErr, Freed, Retried
  <1>4. Once(Held') /\ Named(Held') = Named(Held) \ rs
    <2>1. /\ continuations' = continuations \o BlockedOn(k) \o <<>> /\ ready' = ready \o <<>>
      <3>1. continuations \in Lists /\ ready \in Lists /\ BlockedOn(k) \in Lists
        BY <1>1, BlockedIs DEF TypeOK, Lists
      <3>2. continuations \o BlockedOn(k) \in Lists
        BY <3>1, Joined
      <3> QED BY <1>3, <3>1, <3>2, NoEntries
    <2> DEFINE none == <<>>
    <2>2. /\ none \in Lists /\ Distinct(none) /\ ToSet(none) = {}
          /\ continuations' = continuations \o BlockedOn(k) \o none /\ ready' = ready \o none
      BY <2>1, NoEntries
    <2> HIDE DEF none
    <2>3. ToSet(none) \cap ToSet(none) = {} /\ ToSet(none) \cup ToSet(none) \subseteq ToSet(inflight[k].jobs)
      BY <2>2
    <2>4. Once(Held') /\ Named(Held') = (Named(Held) \ rs) \cup ToSet(none) \cup ToSet(none)
      BY <1>1, <1>3, <2>2, <2>3, RequestEnds
    <2> QED BY <2>2, <2>4
  <1>5. /\ DOMAIN inflight' = DOMAIN inflight \ {k} /\ DOMAIN blocked' = DOMAIN blocked \ {k}
        /\ \A l \in DOMAIN inflight' : inflight'[l] = inflight[l]
    BY <1>1, <1>3, EndedTyped
  <1>6. /\ \A r \in ToSet(ready) : r \in Routes /\ r \notin rs
        /\ \A l \in DOMAIN inflight : l # k => ToSet(inflight[l].jobs) \cap rs = {}
        /\ \A l \in DOMAIN inflight : \A r \in ToSet(inflight[l].jobs) : r \in Routes
    BY <1>1, EndedElsewhere, RequestIs
  <1> HIDE DEF rs
  <1>7. NoJobTwice' /\ (JobsPlaced => JobsPlaced')
    BY <1>1, <1>2, <1>3, <1>4, <1>5 DEF NoJobTwice, JobsPlaced
  <1>8. PendingNewsIsScheduled'
    BY <1>3 DEF RouterInv, PendingNewsIsScheduled
  <1>9. LegsFit'
    <2>1. \A x \in Routes : x \notin rs => jobs'[x] = jobs[x] /\ Complete(x)' = Complete(x) /\ NextKey(x)' = NextKey(x)
      BY <1>3, SameJob
    <2>2. \A x \in Routes : jobs'[x] # None => x \notin rs
      BY <1>3
    <2>3. \A l \in DOMAIN inflight' : \A x \in ToSet(inflight'[l].jobs) :
             x \in Routes /\ x \notin rs /\ l \in DOMAIN inflight /\ x \in ToSet(inflight[l].jobs)
      BY <1>5, <1>6
    <2>4. \A l \in DOMAIN inflight' : \A x \in ToSet(inflight'[l].jobs) : ~Complete(x)' /\ NextKey(x)' = l
      BY <1>1, <2>1, <2>3 DEF LegsFit
    <2> QED BY <1>1, <1>3, <1>5, <1>6, <2>1, <2>2, <2>4 DEF LegsFit
  <1> QED BY <1>7, <1>8, <1>9

\* The answer of a request goes to the jobs that wait for its leg: all of them,
\* as long as a leg has one place.
LEMMA OkKept ==
    ASSUME RouterInv, Typed', NEW k \in Keys, NEW out \in Amounts, OnLegOk(k, out)
    PROVE  /\ NoJobTwice' /\ LegsFit' /\ PendingNewsIsScheduled'
           /\ LegsHaveOnePlace /\ JobsPlaced => JobsPlaced'
  <1> DEFINE f == inflight[k]
             S == Served(f)
             q == [sent |-> f.sent, mids |-> f.mids, out |-> out]
  <1>1. TypeOK /\ TypeOK' /\ Typed /\ NoJobTwice /\ LegsFit /\ k \in DOMAIN inflight /\ f \in Requests /\ q \in Quotes
    <2>1. TypeOK /\ TypeOK' /\ Typed /\ NoJobTwice /\ LegsFit /\ k \in DOMAIN inflight
      BY DEF RouterInv, Typed, OnLegOk
    <2>2. f \in Requests
      BY <2>1, RequestIs
    <2> QED BY <2>1, <2>2 DEF Requests, Quotes
  <1>2. /\ S \subseteq ToSet(f.jobs)
        /\ Completed(f) \in Lists /\ Distinct(Completed(f)) /\ ToSet(Completed(f)) = S \cap LastLeg(f)
        /\ Continued(f) \in Lists /\ Distinct(Continued(f)) /\ ToSet(Continued(f)) = S \ LastLeg(f)
    BY <1>1, AnsweredAre
  <1>3. \A r \in ToSet(f.jobs) : r \in Routes /\ jobs[r] # None /\ jobs[r] \in Jobs /\ ~Complete(r) /\ NextKey(r) = k
    BY <1>1, RequestIs DEF LegsFit, TypeOK
  <1>4. /\ jobs' = [r \in Routes |-> IF r \in S THEN [jobs[r] EXCEPT !.legs = Append(@, q)] ELSE jobs[r]]
        /\ ready' = ready \o Completed(f) /\ continuations' = continuations \o BlockedOn(k) \o Continued(f)
        /\ inflight' = Without(inflight, k) /\ blocked' = Without(blocked, k)
        /\ UNCHANGED <<route, pricing, fresh>>
    BY DEF OnLegOk
  <1>5. /\ DOMAIN inflight' = DOMAIN inflight \ {k} /\ DOMAIN blocked' = DOMAIN blocked \ {k}
        /\ \A l \in DOMAIN inflight' : inflight'[l] = inflight[l]
    BY <1>1, <1>4, EndedTyped
  <1>6. /\ \A r \in ToSet(ready) : r \in Routes /\ r \notin ToSet(f.jobs)
        /\ \A l \in DOMAIN inflight : l # k => ToSet(inflight[l].jobs) \cap ToSet(f.jobs) = {}
        /\ \A l \in DOMAIN inflight : \A r \in ToSet(inflight[l].jobs) : r \in Routes
    BY <1>1, EndedElsewhere, RequestIs
  <1>7. Once(Held') /\ Named(Held') = (Named(Held) \ ToSet(f.jobs)) \cup S
    <2>1. ToSet(Continued(f)) \cap ToSet(Completed(f)) = {} /\ ToSet(Continued(f)) \cup ToSet(Completed(f)) = S
      BY <1>2
    <2>2. Once(Held') /\ Named(Held') = (Named(Held) \ ToSet(f.jobs)) \cup ToSet(Continued(f)) \cup ToSet(Completed(f))
      BY <1>1, <1>2, <1>4, <2>1, RequestEnds
    <2> QED BY <2>1, <2>2
  <1>8. \A r \in S : Len(jobs[r].legs) = f.index
    BY DEF Served
  <1>9. \A r \in Routes : f.index + 1 = Len(LegsOf[r]) <=> r \in LastLeg(f)
    BY DEF LastLeg
  <1>10. LegsHaveOnePlace => S = ToSet(f.jobs)
    <2>1. SUFFICES ASSUME LegsHaveOnePlace, NEW r \in ToSet(f.jobs) PROVE r \in S
      BY <1>2
    <2>2. PICK x \in Routes : f.index + 1 \in DOMAIN LegsOf[x] /\ LegsOf[x][f.index + 1] = k[1]
      BY <1>1 DEF LegsFit
    <2>3. r \in Routes /\ jobs[r] # None /\ ~Complete(r) /\ NextKey(r) = k /\ Len(jobs[r].legs) <= Len(LegsOf[r])
      BY <1>1, <1>3 DEF LegsFit
    <2>4. Len(jobs[r].legs) + 1 \in DOMAIN LegsOf[r] /\ LegsOf[r][Len(jobs[r].legs) + 1] = k[1]
      BY <1>1, <2>3, KeyIs
    <2>5. f.index + 1 = Len(jobs[r].legs) + 1
      BY <2>1, <2>2, <2>3, <2>4 DEF LegsHaveOnePlace
    <2>6. Len(jobs[r].legs) \in Nat /\ f.index \in Nat
      BY <1>1, <2>3, JobIs DEF Requests
    <2> QED BY <2>1, <2>5, <2>6 DEF Served
  <1> HIDE DEF q, f, S
  <1>11. ASSUME NEW r \in S
         PROVE  /\ r \in Routes /\ jobs'[r] # None /\ jobs'[r].legs = Append(jobs[r].legs, q)
                /\ Len(jobs'[r].legs) = f.index + 1 /\ Len(jobs'[r].legs) <= Len(LegsOf[r])
    <2>1. r \in Routes /\ jobs[r] # None /\ jobs[r] \in Jobs /\ ~Complete(r) /\ Len(jobs[r].legs) = f.index
      BY <1>2, <1>3, <1>8
    <2>2. jobs'[r] = [jobs[r] EXCEPT !.legs = Append(@, q)]
      BY <1>4, <2>1
    <2>3. jobs'[r] # None /\ jobs'[r].legs = Append(jobs[r].legs, q)
      BY <1>1, <2>1, <2>2, JobWith
    <2>4. Len(jobs'[r].legs) = Len(jobs[r].legs) + 1 /\ Len(jobs[r].legs) \in Nat
      <3>1. jobs[r].legs \in Seq(Quotes)
        BY <2>1 DEF Jobs
      <3> QED BY <3>1, <2>3
    <2>5. Len(jobs[r].legs) <= Len(LegsOf[r]) /\ Len(jobs[r].legs) # Len(LegsOf[r]) /\ Len(LegsOf[r]) \in Nat
      BY <1>1, <2>1, LegsAre DEF LegsFit, Complete
    <2> QED BY <2>1, <2>3, <2>4, <2>5
  <1>12. \A r \in Routes : r \notin S => jobs'[r] = jobs[r] /\ Complete(r)' = Complete(r) /\ NextKey(r)' = NextKey(r)
    BY <1>4, SameJob
  <1>13. {r \in Routes : jobs'[r] # None} = {r \in Routes : jobs[r] # None}
    BY <1>2, <1>3, <1>11, <1>12
  <1>14. NoJobTwice'
    <2>1. Named(Held') \subseteq {r \in Routes : jobs'[r] # None}
      BY <1>1, <1>2, <1>3, <1>7, <1>13 DEF NoJobTwice
    <2>2. \A r \in Routes : (jobs'[r] # None) = (jobs[r] # None)
      BY <1>2, <1>3, <1>11, <1>12
    <2> QED BY <1>1, <1>4, <1>5, <1>7, <2>1, <2>2 DEF NoJobTwice, route
  <1>15. LegsHaveOnePlace /\ JobsPlaced => JobsPlaced'
    BY <1>2, <1>7, <1>10, <1>13 DEF JobsPlaced
  <1>16. PendingNewsIsScheduled'
    BY <1>4 DEF RouterInv, PendingNewsIsScheduled, route
  <1>17. LegsFit'
    <2>1. \A r \in Routes : jobs'[r] # None => Len(jobs'[r].legs) <= Len(LegsOf[r])
      BY <1>1, <1>11, <1>12 DEF LegsFit
    <2>2. \A r \in ToSet(ready') : Complete(r)'
      <3>1. ready \in Lists
        BY <1>1 DEF TypeOK, Lists
      <3>2. ToSet(ready') = ToSet(ready) \cup (S \cap LastLeg(f))
        BY <1>2, <1>4, <3>1, Joined
      <3>3. \A r \in ToSet(ready) : Complete(r)'
        BY <1>1, <1>2, <1>6, <1>12 DEF LegsFit
      <3>4. \A r \in S \cap LastLeg(f) : Complete(r)'
        BY <1>9, <1>11 DEF Complete
      <3> QED BY <3>2, <3>3, <3>4
    <2>3. \A l \in DOMAIN inflight' : \A r \in ToSet(inflight'[l].jobs) :
             r \in Routes /\ r \notin S /\ l \in DOMAIN inflight /\ r \in ToSet(inflight[l].jobs)
      BY <1>2, <1>5, <1>6
    <2>4. \A l \in DOMAIN inflight' : \A r \in ToSet(inflight'[l].jobs) : ~Complete(r)' /\ NextKey(r)' = l
      BY <1>1, <1>12, <2>3 DEF LegsFit
    <2> QED BY <1>1, <1>5, <2>1, <2>2, <2>4 DEF LegsFit
  <1> QED BY <1>14, <1>15, <1>16, <1>17

----------------------------------------------------------------------------
(* Nothing is lost *)

LEMMA RouterStep ==
    ASSUME RouterInv, [Next]_vars
    PROVE  RouterInv' /\ (LegsHaveOnePlace /\ JobsPlaced => JobsPlaced')
  <1>1. Typed'
    BY TypesKept
  <1>2. TypeOK'
    BY <1>1 DEF Typed
  <1>3. NoJobTwice' /\ LegsFit' /\ PendingNewsIsScheduled' /\ (LegsHaveOnePlace /\ JobsPlaced => JobsPlaced')
    <2>1. CASE Core
      <3>1. CASE DropRepeat \/ Finish
        BY <1>2, <3>1, ReadyKept
      <3>2. CASE NothingToDo
        BY <3>2, PauseKept
      <3>3. ASSUME NEW r \in Routes, Advance(r)
            PROVE  NoJobTwice' /\ LegsFit' /\ PendingNewsIsScheduled' /\ (JobsPlaced => JobsPlaced')
        BY <1>1, <3>3, MovedKept, CachedKept, AbandonKept, PauseKept DEF Advance
      <3>4. ASSUME NEW r \in Routes, StartJob(r)
            PROVE  NoJobTwice' /\ LegsFit' /\ PendingNewsIsScheduled' /\ (JobsPlaced => JobsPlaced')
        BY <1>1, <3>4, StartKept
      <3> QED BY <2>1, <3>1, <3>2, <3>3, <3>4 DEF Core
    <2>2. CASE OnMessage
      <3>1. ASSUME NEW k \in Keys, NEW out \in Amounts, OnLegOk(k, out)
            PROVE  NoJobTwice' /\ LegsFit' /\ PendingNewsIsScheduled' /\ (LegsHaveOnePlace /\ JobsPlaced => JobsPlaced')
        BY <1>1, <3>1, OkKept
      <3>2. ASSUME NEW k \in Keys, NEW limited \in BOOLEAN, OnLegErr(k, limited)
            PROVE  NoJobTwice' /\ LegsFit' /\ PendingNewsIsScheduled' /\ (JobsPlaced => JobsPlaced')
        BY <1>1, <3>2, ErrKept
      <3>3. ASSUME NEW r \in Routes, OnDecided(r)
            PROVE  NoJobTwice' /\ LegsFit' /\ PendingNewsIsScheduled' /\ (JobsPlaced => JobsPlaced')
        BY <3>3, DecidedKept
      <3> QED BY <2>2, <3>1, <3>2, <3>3 DEF OnMessage, Answer
    <2>3. CASE OnTick
      BY <2>3, TickKept
    <2>4. CASE UNCHANGED vars \/ Timer \/ SlotFrees \/ OtherUse
           \/ (\E r \in Routes : Rested(r) \/ Floor(r) \/ Expire(r))
           \/ (\E i \in Inputs, m \in Prices : Receive(i, m))
      BY <2>4, PauseKept
    <2> QED BY <2>1, <2>2, <2>3, <2>4 DEF Next
  <1> QED BY <1>1, <1>3 DEF RouterInv, Typed

LEMMA RouterInit ==
    ASSUME Init
    PROVE  RouterInv /\ JobsPlaced
  <1>1. PICK undecided \in SUBSET Routes : Start(undecided)
    BY DEF Init
  <1>2. /\ clock = 0 /\ tick = None /\ at = [i \in Inputs |-> 0]
        /\ seen = [i \in Inputs |-> IF undecided = Routes THEN None ELSE Opening]
        /\ trigger = [r \in Routes |-> None] /\ triggered = {} /\ busy = {}
        /\ reference = [r \in Routes |-> IF r \in undecided THEN None ELSE seen]
        /\ lastLegs = [r \in Routes |-> IF r \in undecided THEN <<>> ELSE [i \in DOMAIN LegsOf[r] |-> 0]]
        /\ due = undecided /\ resting = {}
        /\ jobs = [r \in Routes |-> None] /\ pricing = [r \in Routes |-> None] /\ fresh = None
        /\ continuations = <<>> /\ ready = <<>>
        /\ inflight = <<>> /\ blocked = <<>> /\ cache = <<>>
        /\ slots = Capacity /\ loop = "next" /\ events = Cardinality(undecided)
    BY <1>1 DEF Start
  <1>3. seen \in Snapshots
    BY <1>2, RouterAssumption DEF Snapshots
  <1>4. events \in Nat
    <2>1. IsFiniteSet(undecided)
      BY RouterAssumption, FS_Subset
    <2> QED BY <1>2, <2>1, FS_CardinalityType
  <1>5. lastLegs \in [Routes -> Seq(Nat)]
    <2>1. ASSUME NEW r \in Routes PROVE [i \in DOMAIN LegsOf[r] |-> 0] \in Seq(Nat)
      <3>1. DOMAIN LegsOf[r] = 1..Len(LegsOf[r]) /\ Len(LegsOf[r]) \in Nat
        BY LegsAre
      <3> QED BY <3>1
    <2>2. <<>> \in Seq(Nat)
      OBVIOUS
    <2> QED BY <1>2, <2>1, <2>2
  <1>6. DOMAIN inflight = {} /\ DOMAIN blocked = {} /\ DOMAIN cache = {}
    BY <1>2
  <1>7. IsFiniteSet(DOMAIN inflight) /\ Cardinality(DOMAIN inflight) = 0
    BY <1>6, FS_EmptySet
  <1>8. TypeOK
    <2>1. /\ clock \in Nat /\ at \in [Inputs -> Nat] /\ slots \in 0..Capacity /\ tick \in Ticks \cup {None}
          /\ trigger \in [Routes -> Times] /\ triggered \subseteq Routes /\ busy \subseteq Routes
          /\ due \subseteq Routes /\ resting \subseteq Routes /\ fresh \in Routes \cup {None}
          /\ loop \in {"next", "event", "slot", "deadline"}
      BY <1>2, RouterAssumption DEF Times
    <2>2. reference \in [Routes -> Snapshots \cup {None}]
      BY <1>2, <1>3
    <2>3. /\ jobs \in [Routes -> Jobs \cup {None}] /\ pricing \in [Routes -> Pricings \cup {None}]
          /\ continuations \in Seq(Routes) /\ ready \in Seq(Routes)
      BY <1>2
    <2>4. /\ inflight \in [DOMAIN inflight -> Requests] /\ blocked \in [DOMAIN blocked -> Seq(Routes)]
          /\ cache \in [DOMAIN cache -> Quotes]
          /\ DOMAIN inflight \subseteq Keys /\ DOMAIN cache \subseteq Keys
      BY <1>2, <1>6
    <2>5. Cardinality(DOMAIN inflight) <= MaxInFlight
      BY <1>7, RouterAssumption
    <2> QED BY <1>3, <1>4, <1>5, <2>1, <2>2, <2>3, <2>4, <2>5 DEF TypeOK
  <1>9. \A n \in Places : Held[n] = <<>>
    <2>1. /\ Held[AtContinuations] = <<>> /\ Held[AtReady] = <<>> /\ Held[AtFresh] = <<>>
          /\ \A k \in Keys : Held[AtInflight(k)] = <<>> /\ Held[AtBlocked(k)] = <<>>
      BY <1>2, <1>6, <1>8, HeldIs DEF BlockedOn
    <2> QED BY <2>1, PlacesAre
  <1>10. DOMAIN Held = Places /\ Named(Held) = {} /\ Once(Held)
    <2>1. DOMAIN Held = Places
      BY <1>8, HeldIs DEF Holdings
    <2>2. \A n \in Places : ToSet(Held[n]) = {} /\ DOMAIN Held[n] = {}
      BY <1>9, NoEntries
    <2> QED BY <2>1, <2>2 DEF Named, Once
  <1>11. NoJobTwice /\ JobsPlaced
    BY <1>2, <1>6, <1>10 DEF NoJobTwice, JobsPlaced
  <1>12. LegsFit /\ PendingNewsIsScheduled
    BY <1>2, <1>6, NoEntries DEF LegsFit, PendingNewsIsScheduled
  <1> QED BY <1>7, <1>8, <1>11, <1>12 DEF RouterInv

\* Whatever is answered, fails or is abandoned: the state is well formed, no
\* route has a job in two places or while it is priced, and a pending change of
\* an idle route is among those next picks from (next, advance, on_leg,
\* on_tick and on_decided of Core).
THEOREM NoRouteTwice == Spec => [](TypeOK /\ NoJobTwice /\ PendingNewsIsScheduled)
  <1>1. Init => RouterInv
    BY RouterInit
  <1>2. RouterInv /\ [Next]_vars => RouterInv'
    BY RouterStep
  <1>3. RouterInv => TypeOK /\ NoJobTwice /\ PendingNewsIsScheduled
    BY DEF RouterInv
  <1> QED BY <1>1, <1>2, <1>3, PTL DEF Spec

\* Where a leg has one place in the routes that share it, no job is lost either:
\* on_leg gives a request's answer to every job that waits on it.
THEOREM RouterLosesNothing ==
    ASSUME LegsHaveOnePlace
    PROVE  Spec => []NothingIsLost
  <1> DEFINE Inv == RouterInv /\ JobsPlaced
  <1>1. Init => Inv
    BY RouterInit
  <1>2. Inv /\ [Next]_vars => Inv'
    BY LegsHaveOnePlace, RouterStep
  <1>3. Inv => NothingIsLost
    BY DEF RouterInv, NothingIsLost, EveryJobHasAPlace, JobsPlaced
  <1> HIDE DEF Inv
  <1> QED BY <1>1, <1>2, <1>3, PTL DEF Spec

----------------------------------------------------------------------------
(* Decisions start from newer quotes.                                      *)
(*                                                                         *)
(* Only the times of its last quotes are kept of a route, not what they    *)
(* returned: the argument needs the past, a function H from the time of    *)
(* each answered request to its key and amount, of which some H fits.      *)

NewestOf(H, k, t) == \A u \in DOMAIN H : H[u][1] = k => u <= t

\* Each send asked for the leg at its place, at the amount of the one before.
Chain(H, r, s) == \A i \in DOMAIN s :
    s[i] \in DOMAIN H /\ H[s[i]][1] = <<LegsOf[r][i], IF i = 1 THEN Base ELSE H[s[i - 1]][2]>>

LastPast(H, r, last) == last # <<>> =>
    /\ Len(last) = Len(LegsOf[r])
    /\ (\A i \in DOMAIN last : last[i] = 0) \/ Chain(H, r, last)

LegsPast(H, r, legs, last) ==
    /\ Chain(H, r, Sends(legs))
    /\ \A i \in DOMAIN legs : H[legs[i].sent][2] = legs[i].out
    /\ last # <<>> => \A i \in DOMAIN legs :
          (\A j \in 1..(i - 1) : legs[j].sent = last[j]) => legs[i].sent >= last[i]

RequestsPast(H) ==
    /\ \A k \in DOMAIN inflight :
          inflight[k].sent \in (1..clock) \ DOMAIN H /\ NewestOf(H, k, inflight[k].sent)
    /\ \A k, l \in DOMAIN inflight : inflight[k].sent = inflight[l].sent => k = l

CachePast(H) == \A k \in DOMAIN cache :
    cache[k].sent \in DOMAIN H /\ H[cache[k].sent] = <<k, cache[k].out>> /\ NewestOf(H, k, cache[k].sent)

Past(H) ==
    /\ DOMAIN H \subseteq 1..clock /\ RequestsPast(H) /\ CachePast(H)
    /\ \A r \in Routes : /\ LastPast(H, r, lastLegs[r])
                         /\ jobs[r] # None => LegsPast(H, r, jobs[r].legs, lastLegs[r])

\* The next leg of a job: if the ones before are those of last time, it was
\* asked for with the same key, and no answer to that key is newer.
LEMMA LegAdded ==
    ASSUME NEW H, NEW r \in Routes, NEW legs \in Seq(Quotes), NEW last \in Seq(Nat), NEW q \in Quotes, NEW k,
           Len(legs) < Len(LegsOf[r]), LegsPast(H, r, legs, last), LastPast(H, r, last),
           k = <<LegsOf[r][Len(legs) + 1], IF legs = <<>> THEN Base ELSE Last(legs).out>>,
           q.sent \in DOMAIN H, H[q.sent] = <<k, q.out>>, NewestOf(H, k, q.sent)
    PROVE  LegsPast(H, r, Append(legs, q), last)
  <1> DEFINE n == Len(legs)
             u == Append(legs, q)
  <1>1. /\ n \in Nat /\ DOMAIN legs = 1..n /\ DOMAIN u = 1..(n + 1) /\ u[n + 1] = q
        /\ (\A i \in 1..n : u[i] = legs[i]) /\ (legs = <<>> <=> n = 0) /\ q.sent \in Nat
    <2>1. q.sent \in Nat
      BY DEF Quotes
    <2> HIDE DEF n
    <2>2. n \in Nat /\ DOMAIN legs = 1..n
      BY DEF n
    <2> QED BY <2>1, <2>2 DEF n
  <1>2. n # 0 => Last(legs) = legs[n]
    BY DEF Last
  <1>3. k[1] = LegsOf[r][n + 1] /\ k[2] = (IF n = 0 THEN Base ELSE legs[n].out) /\ k = <<k[1], k[2]>>
    BY <1>1, <1>2
  <1>4. /\ DOMAIN Sends(legs) = 1..n /\ DOMAIN Sends(u) = 1..(n + 1)
        /\ (\A i \in 1..n : Sends(legs)[i] = legs[i].sent /\ Sends(u)[i] = legs[i].sent) /\ Sends(u)[n + 1] = q.sent
    BY <1>1 DEF Sends
  <1>5. /\ n + 1 \in 1..(n + 1) /\ (n + 1) - 1 = n /\ \A i \in 1..(n + 1) : i \in 1..n \/ i = n + 1
        /\ (n # 0 => n \in 1..n) /\ \A i \in 1..n : i # 1 => i - 1 \in 1..n
    BY <1>1
  <1> HIDE DEF n, u
  <1>6. \A i \in 1..n : /\ legs[i].sent \in DOMAIN H /\ H[legs[i].sent][2] = legs[i].out
                        /\ H[legs[i].sent][1] = <<LegsOf[r][i], IF i = 1 THEN Base ELSE H[legs[i - 1].sent][2]>>
    <2>1. SUFFICES ASSUME NEW i \in 1..n
          PROVE  /\ legs[i].sent \in DOMAIN H /\ H[legs[i].sent][2] = legs[i].out
                 /\ H[legs[i].sent][1] = <<LegsOf[r][i], IF i = 1 THEN Base ELSE H[legs[i - 1].sent][2]>>
      OBVIOUS
    <2>2. Chain(H, r, Sends(legs)) /\ H[legs[i].sent][2] = legs[i].out
      BY <1>1 DEF LegsPast
    <2>3. /\ Sends(legs)[i] \in DOMAIN H
          /\ H[Sends(legs)[i]][1] = <<LegsOf[r][i], IF i = 1 THEN Base ELSE H[Sends(legs)[i - 1]][2]>>
      BY <1>4, <2>2 DEF Chain
    <2>4. Sends(legs)[i] = legs[i].sent /\ (i # 1 => Sends(legs)[i - 1] = legs[i - 1].sent)
      BY <1>4, <1>5
    <2> QED BY <2>2, <2>3, <2>4
  <1>7. k = <<LegsOf[r][n + 1], IF n + 1 = 1 THEN Base ELSE H[legs[n].sent][2]>>
    <2>1. CASE n = 0
      BY <2>1, <1>3
    <2>2. CASE n # 0
      <3>1. n + 1 # 1 /\ H[legs[n].sent][2] = legs[n].out
        BY <2>2, <1>1, <1>5, <1>6
      <3> QED BY <3>1, <2>2, <1>3
    <2> QED BY <2>1, <2>2
  <1>8. Chain(H, r, Sends(u))
    <2>1. SUFFICES ASSUME NEW i \in 1..(n + 1)
          PROVE  Sends(u)[i] \in DOMAIN H
                 /\ H[Sends(u)[i]][1] = <<LegsOf[r][i], IF i = 1 THEN Base ELSE H[Sends(u)[i - 1]][2]>>
      BY <1>4 DEF Chain
    <2>2. CASE i \in 1..n
      <3>1. Sends(u)[i] = legs[i].sent /\ (i # 1 => Sends(u)[i - 1] = legs[i - 1].sent)
        BY <2>2, <1>4, <1>5
      <3>2. /\ legs[i].sent \in DOMAIN H
            /\ H[legs[i].sent][1] = <<LegsOf[r][i], IF i = 1 THEN Base ELSE H[legs[i - 1].sent][2]>>
        BY <2>2, <1>6
      <3> QED BY <3>1, <3>2
    <2>3. CASE i = n + 1
      <3>1. Sends(u)[i] = q.sent /\ H[q.sent][1] = k
        BY <2>3, <1>4
      <3>2. n # 0 => Sends(u)[n] = legs[n].sent
        BY <1>4, <1>5
      <3>3. i = 1 <=> n = 0
        BY <2>3, <1>1
      <3> QED BY <2>3, <3>1, <3>2, <3>3, <1>5, <1>7
    <2> QED BY <2>2, <2>3, <1>5
  <1>9. \A i \in DOMAIN u : H[u[i].sent][2] = u[i].out
    BY <1>1, <1>5, <1>6
  <1>10. ASSUME last # <<>>, NEW i \in DOMAIN u, \A j \in 1..(i - 1) : u[j].sent = last[j]
         PROVE  u[i].sent >= last[i]
    <2>1. CASE i \in 1..n
      <3>1. \A j \in 1..(i - 1) : j \in 1..n
        BY <2>1, <1>1
      <3> QED BY <2>1, <3>1, <1>1, <1>10 DEF LegsPast
    <2>2. CASE i = n + 1
      <3>1. Len(last) = Len(LegsOf[r]) /\ Len(last) \in Nat /\ DOMAIN last = 1..Len(last)
        BY <1>10 DEF LastPast
      <3>2. n + 1 \in DOMAIN last
        BY <3>1, <1>1 DEF n
      <3>3. CASE \A j \in DOMAIN last : last[j] = 0
        BY <2>2, <3>2, <3>3, <1>1
      <3>4. CASE Chain(H, r, last)
        <4>1. last[n + 1] \in DOMAIN H
              /\ H[last[n + 1]][1] = <<LegsOf[r][n + 1], IF n + 1 = 1 THEN Base ELSE H[last[(n + 1) - 1]][2]>>
          BY <3>2, <3>4 DEF Chain
        <4>2. n # 0 => legs[n].sent = last[n]
          <5>1. n # 0 => n \in 1..(i - 1) /\ u[n] = legs[n]
            BY <2>2, <1>1, <1>5
          <5> QED BY <5>1, <1>10
        <4>3. H[last[n + 1]][1] = k
          BY <4>1, <4>2, <1>1, <1>5, <1>7
        <4>4. last[n + 1] <= q.sent
          BY <4>1, <4>3 DEF NewestOf
        <4>5. last[n + 1] \in Nat
          BY <3>1, <3>2
        <4> QED BY <2>2, <4>4, <4>5, <1>1
      <3> QED BY <1>10, <3>3, <3>4 DEF LastPast
    <2> QED BY <1>1, <1>5, <2>1, <2>2
  <1> QED BY <1>8, <1>9, <1>10 DEF LegsPast, u

\* An answer more: what fitted the past still does.
LEMMA PastGrows ==
    ASSUME NEW H, NEW t, t \notin DOMAIN H, NEW v, NEW r \in Routes
    PROVE  LET G == With(H, t, v)
           IN  /\ \A last \in Seq(Nat) : LastPast(H, r, last) => LastPast(G, r, last)
               /\ \A legs \in Seq(Quotes), last \in Seq(Nat) : LegsPast(H, r, legs, last) => LegsPast(G, r, legs, last)
  <1> DEFINE G == With(H, t, v)
  <1>1. \A x \in DOMAIN H : x \in DOMAIN G /\ G[x] = H[x]
    BY DEF With
  <1> HIDE DEF G
  <1>2. ASSUME NEW s, NEW n \in Nat, DOMAIN s = 1..n, Chain(H, r, s) PROVE Chain(G, r, s)
    <2>1. SUFFICES ASSUME NEW i \in 1..n
          PROVE s[i] \in DOMAIN G /\ G[s[i]][1] = <<LegsOf[r][i], IF i = 1 THEN Base ELSE G[s[i - 1]][2]>>
      BY <1>2 DEF Chain
    <2>2. s[i] \in DOMAIN H /\ H[s[i]][1] = <<LegsOf[r][i], IF i = 1 THEN Base ELSE H[s[i - 1]][2]>>
      BY <1>2 DEF Chain
    <2>3. i # 1 => i - 1 \in DOMAIN s
      BY <1>2
    <2>4. i # 1 => s[i - 1] \in DOMAIN H
      BY <1>2, <2>3 DEF Chain
    <2> QED BY <1>1, <2>2, <2>4
  <1>3. ASSUME NEW last \in Seq(Nat), LastPast(H, r, last) PROVE LastPast(G, r, last)
    <2>1. DOMAIN last = 1..Len(last) /\ Len(last) \in Nat
      OBVIOUS
    <2>2. Chain(H, r, last) => Chain(G, r, last)
      BY <1>2, <2>1
    <2> QED BY <1>3, <2>2 DEF LastPast
  <1>4. ASSUME NEW legs \in Seq(Quotes), NEW last \in Seq(Nat), LegsPast(H, r, legs, last)
        PROVE  LegsPast(G, r, legs, last)
    <2>1. DOMAIN legs = 1..Len(legs) /\ Len(legs) \in Nat
      OBVIOUS
    <2>2. DOMAIN Sends(legs) = 1..Len(legs) /\ \A i \in DOMAIN legs : Sends(legs)[i] = legs[i].sent
      BY <2>1 DEF Sends
    <2>3. Chain(H, r, Sends(legs))
      BY <1>4 DEF LegsPast
    <2>4. Chain(G, r, Sends(legs))
      BY <1>2, <2>1, <2>2, <2>3
    <2>5. \A i \in DOMAIN legs : G[legs[i].sent][2] = legs[i].out
      <3>1. \A i \in DOMAIN legs : legs[i].sent \in DOMAIN H
        BY <2>1, <2>2, <2>3 DEF Chain
      <3> QED BY <3>1, <1>1, <1>4 DEF LegsPast
    <2> QED BY <1>4, <2>4, <2>5 DEF LegsPast
  <1> QED BY <1>3, <1>4 DEF G

LEMMA NoLegs ==
    ASSUME NEW H, NEW r, NEW last
    PROVE  LegsPast(H, r, <<>>, last)
  BY DEF LegsPast, Chain, Sends

\* Answers that expire, requests that fail, jobs that start or end.
LEMMA PastStays ==
    ASSUME NEW H, Past(H), clock \in Nat, clock' \in Nat, clock' >= clock, lastLegs' = lastLegs,
           \A k \in DOMAIN cache' : k \in DOMAIN cache /\ cache'[k] = cache[k],
           \A k \in DOMAIN inflight' : k \in DOMAIN inflight /\ inflight'[k].sent = inflight[k].sent,
           \A r \in Routes : jobs'[r] # None => jobs'[r] = jobs[r] \/ jobs'[r].legs = <<>>
    PROVE  Past(H)'
  <1>1. 1..clock \subseteq 1..clock'
    OBVIOUS
  <1>2. DOMAIN H \subseteq 1..clock'
    BY <1>1 DEF Past
  <1>3. RequestsPast(H)'
    <2>1. /\ \A k \in DOMAIN inflight : /\ inflight[k].sent \in 1..clock /\ inflight[k].sent \notin DOMAIN H
                                        /\ NewestOf(H, k, inflight[k].sent)
          /\ \A k, l \in DOMAIN inflight : inflight[k].sent = inflight[l].sent => k = l
      BY DEF Past, RequestsPast
    <2>2. \A k \in DOMAIN inflight' : /\ inflight'[k].sent \in 1..clock' /\ inflight'[k].sent \notin DOMAIN H
                                      /\ NewestOf(H, k, inflight'[k].sent)
      BY <1>1, <2>1
    <2>3. \A k, l \in DOMAIN inflight' : inflight'[k].sent = inflight'[l].sent => k = l
      BY <2>1
    <2> QED BY <2>2, <2>3 DEF RequestsPast
  <1>4. CachePast(H)'
    BY DEF Past, CachePast
  <1>5. ASSUME NEW r \in Routes
        PROVE  LastPast(H, r, lastLegs'[r]) /\ (jobs'[r] # None => LegsPast(H, r, jobs'[r].legs, lastLegs'[r]))
    <2>1. LastPast(H, r, lastLegs'[r]) /\ (jobs[r] # None => LegsPast(H, r, jobs[r].legs, lastLegs'[r]))
      BY DEF Past
    <2>2. LegsPast(H, r, <<>>, lastLegs'[r])
      BY NoLegs
    <2> QED BY <2>1, <2>2
  <1> QED BY <1>2, <1>3, <1>4, <1>5 DEF Past

\* A job is priced: with the quotes of last time up to one that is newer.
LEMMA FinishPast ==
    ASSUME RouterInv, NEW H, Past(H), Finish
    PROVE  Past(H)' /\ \A r \in Routes : pricing[r] = None /\ pricing'[r] # None => Newer(lastLegs'[r], lastLegs[r])
  <1> DEFINE h == Head(ready)
             legs == jobs[h].legs
             last == lastLegs[h]
             s == Sends(legs)
  <1>1. /\ ready # <<>> /\ s # last /\ TypeOK /\ NoJobTwice /\ LegsFit
        /\ lastLegs' = [lastLegs EXCEPT ![h] = s] /\ jobs' = [jobs EXCEPT ![h] = None]
        /\ pricing' = [pricing EXCEPT ![h] = [inputs |-> jobs[h].inputs, started |-> jobs[h].picked]]
        /\ UNCHANGED <<clock, requests>>
    BY DEF RouterInv, Finish, Repeat
  <1>2. h \in Routes /\ h \in ToSet(ready) /\ jobs[h] # None /\ Complete(h)
    <2>1. ready \in Lists
      BY <1>1 DEF TypeOK, Lists
    <2>2. h \in ToSet(ready) /\ Held[AtReady] = ready /\ AtReady \in Places
      BY <1>1, <2>1, Rest, HeldIs, PlacesAre
    <2>3. h \in Routes /\ jobs[h] # None
      BY <1>1, <2>2, OnePlace
    <2> QED BY <1>1, <2>2, <2>3 DEF LegsFit
  <1>3. /\ legs \in Seq(Quotes) /\ Len(legs) \in Nat /\ DOMAIN legs = 1..Len(legs)
        /\ \A i \in DOMAIN legs : legs[i].sent \in Nat
    BY <1>1, <1>2, JobIs
  <1>4. /\ Len(legs) = Len(LegsOf[h]) /\ Len(legs) # 0 /\ last \in Seq(Nat)
        /\ DOMAIN lastLegs = Routes /\ DOMAIN jobs = Routes /\ DOMAIN pricing = Routes
    BY <1>1, <1>2, LegsAre DEF Complete, TypeOK
  <1>5. LegsPast(H, h, legs, last) /\ LastPast(H, h, last)
    BY <1>2 DEF Past
  <1> HIDE DEF legs, last
  <1>6. /\ DOMAIN s = 1..Len(legs) /\ (\A i \in 1..Len(legs) : s[i] = legs[i].sent) /\ s \in [1..Len(legs) -> Nat]
        /\ Len(s) = Len(legs)
    <2>1. DOMAIN s = 1..Len(legs) /\ (\A i \in 1..Len(legs) : s[i] = legs[i].sent) /\ s \in [1..Len(legs) -> Nat]
      BY <1>3 DEF Sends
    <2>2. s \in Seq(Nat)
      BY <1>3, <2>1
    <2> HIDE DEF s
    <2>3. Len(s) = Len(legs)
      BY <1>3, <2>1, <2>2
    <2> QED BY <2>1, <2>3
  <1>7. LastPast(H, h, s)
    BY <1>4, <1>5, <1>6 DEF LegsPast, LastPast
  <1> HIDE DEF s, h
  <1>8. Newer(s, last)
    <2>1. CASE last = <<>>
      <3>1. 1 \in DOMAIN s /\ 1 \notin DOMAIN last /\ 1..(1 - 1) = {}
        BY <2>1, <1>3, <1>4, <1>6
      <3> QED BY <3>1 DEF Newer
    <2>2. CASE last # <<>>
      <3>1. Len(last) = Len(legs) /\ DOMAIN last = 1..Len(legs)
        BY <2>2, <1>4, <1>5 DEF LastPast
      <3> DEFINE T == {i \in 1..Len(legs) : s[i] # last[i]}
      <3>2. T # {} /\ T \in SUBSET Nat
        <4>1. SUFFICES ASSUME T = {} PROVE FALSE
          BY <1>3
        <4>2. \A i \in 1..Len(legs) : s[i] = last[i]
          BY <4>1
        <4>3. s = [i \in 1..Len(legs) |-> s[i]] /\ last = [i \in 1..Len(legs) |-> last[i]]
          BY <1>4, <1>6, <3>1
        <4> QED BY <4>2, <4>3, <1>1 DEF last
      <3>3. PICK i \in T : \A j \in T : i <= j
        BY <3>2, LeastOf
      <3>4. i \in 1..Len(legs) /\ s[i] # last[i] /\ \A j \in 1..(i - 1) : j \in 1..Len(legs) /\ ~(i <= j)
        BY <3>3, <1>3
      <3>5. \A j \in 1..(i - 1) : j \in DOMAIN last /\ s[j] = last[j]
        BY <3>1, <3>3, <3>4
      <3>6. legs[i].sent >= last[i]
        <4>1. \A j \in 1..(i - 1) : legs[j].sent = last[j]
          BY <3>4, <3>5, <1>6
        <4> QED BY <4>1, <3>4, <1>3, <1>5, <2>2 DEF LegsPast
      <3>7. s[i] > last[i]
        <4>1. s[i] = legs[i].sent /\ s[i] \in Nat /\ last[i] \in Nat
          BY <3>1, <3>4, <1>4, <1>6
        <4> QED BY <4>1, <3>4, <3>6
      <3> QED BY <3>4, <3>5, <3>7, <1>6 DEF Newer
    <2> QED BY <2>1, <2>2
  <1>9. Past(H)'
    <2>1. RequestsPast(H)' /\ CachePast(H)' /\ DOMAIN H \subseteq 1..clock'
      BY <1>1 DEF Past, RequestsPast, CachePast, requests
    <2>2. ASSUME NEW r \in Routes
          PROVE  LastPast(H, r, lastLegs'[r]) /\ (jobs'[r] # None => LegsPast(H, r, jobs'[r].legs, lastLegs'[r]))
      <3>1. CASE r = h
        BY <3>1, <1>1, <1>2, <1>4, <1>7
      <3>2. CASE r # h
        <4>1. lastLegs'[r] = lastLegs[r] /\ jobs'[r] = jobs[r]
          BY <3>2, <1>1, <1>4
        <4> QED BY <4>1 DEF Past
      <3> QED BY <3>1, <3>2
    <2> QED BY <2>1, <2>2 DEF Past
  <1>10. ASSUME NEW r \in Routes, pricing[r] = None, pricing'[r] # None PROVE Newer(lastLegs'[r], lastLegs[r])
    <2>1. r = h
      BY <1>1, <1>4, <1>10
    <2>2. lastLegs'[r] = s /\ lastLegs[r] = last
      BY <2>1, <1>1, <1>2, <1>4 DEF last
    <2> QED BY <1>8, <2>2
  <1> QED BY <1>9, <1>10

LEMMA CachedPast ==
    ASSUME RouterInv, NEW H, Past(H), NEW r \in Routes, TakesCached(r)
    PROVE  Past(H)'
  <1> DEFINE k == NextKey(r)
             q == cache[k]
  <1>1. /\ Working(r) /\ ~Complete(r) /\ k \in DOMAIN cache /\ UNCHANGED <<clock, lastLegs, inflight, cache>>
        /\ jobs' = [jobs EXCEPT ![r] = [jobs[r] EXCEPT !.legs = Append(@, q)]]
    BY DEF TakesCached, Cached, route, requests
  <1>2. TypeOK /\ jobs[r] # None /\ Len(jobs[r].legs) <= Len(LegsOf[r])
    BY <1>1, WorkingElsewhere
  <1>3. jobs[r] \in Jobs /\ jobs[r].legs \in Seq(Quotes) /\ q \in Quotes /\ DOMAIN jobs = Routes /\ lastLegs[r] \in Seq(Nat)
    BY <1>1, <1>2, JobIs DEF TypeOK
  <1>4. Len(jobs[r].legs) < Len(LegsOf[r])
    BY <1>1, <1>2, <1>3, LegsAre DEF Complete
  <1>5. q.sent \in DOMAIN H /\ H[q.sent] = <<k, q.out>> /\ NewestOf(H, k, q.sent)
    BY <1>1 DEF Past, CachePast
  <1>6. k = <<LegsOf[r][Len(jobs[r].legs) + 1], IF jobs[r].legs = <<>> THEN Base ELSE Last(jobs[r].legs).out>>
    BY DEF NextKey
  <1> HIDE DEF q, k
  <1>7. LegsPast(H, r, Append(jobs[r].legs, q), lastLegs[r])
    <2>1. LegsPast(H, r, jobs[r].legs, lastLegs[r]) /\ LastPast(H, r, lastLegs[r])
      BY <1>2 DEF Past
    <2> QED BY <2>1, <1>3, <1>4, <1>5, <1>6, LegAdded
  <1>8. jobs'[r].legs = Append(jobs[r].legs, q) /\ \A x \in Routes : x # r => jobs'[x] = jobs[x]
    <2>1. jobs'[r] = [jobs[r] EXCEPT !.legs = Append(@, q)] /\ \A x \in Routes : x # r => jobs'[x] = jobs[x]
      BY <1>1, <1>3
    <2> QED BY <2>1, <1>3, JobWith
  <1>9. RequestsPast(H)' /\ CachePast(H)' /\ DOMAIN H \subseteq 1..clock'
    BY <1>1 DEF Past, RequestsPast, CachePast
  <1>10. ASSUME NEW x \in Routes
         PROVE  LastPast(H, x, lastLegs'[x]) /\ (jobs'[x] # None => LegsPast(H, x, jobs'[x].legs, lastLegs'[x]))
    <2>1. LastPast(H, x, lastLegs[x]) /\ (jobs[x] # None => LegsPast(H, x, jobs[x].legs, lastLegs[x]))
      BY DEF Past
    <2> QED BY <2>1, <1>1, <1>7, <1>8
  <1> QED BY <1>9, <1>10 DEF Past

LEMMA DispatchPast ==
    ASSUME RouterInv, NEW H, Past(H), NEW r \in Routes, Dispatch(r)
    PROVE  Past(H)'
  <1> DEFINE k == NextKey(r)
             f == [jobs |-> <<r>>, index |-> Len(jobs[r].legs), sent |-> clock + 1,
                   mids |-> MidsFor(Obs[NextKey(r)[1]], seen)]
  <1>1. /\ clock \in Nat /\ clock' = clock + 1 /\ UNCHANGED <<lastLegs, jobs, cache>>
        /\ inflight' = With(inflight, k, f) /\ f.sent = clock + 1
    BY DEF RouterInv, TypeOK, Dispatch, route
  <1> HIDE DEF f, k
  <1>2. /\ DOMAIN inflight' = DOMAIN inflight \cup {k} /\ inflight'[k] = f
        /\ \A l \in DOMAIN inflight : l # k => inflight'[l] = inflight[l]
    BY <1>1 DEF With
  <1>3. /\ \A t \in 1..clock : t \in 1..clock' /\ t < clock + 1
        /\ clock + 1 \in 1..clock' /\ clock + 1 \notin 1..clock
    BY <1>1
  <1>4. DOMAIN H \subseteq 1..clock /\ DOMAIN H \subseteq 1..clock'
    BY <1>3 DEF Past
  <1>5. NewestOf(H, k, clock + 1)
    <2>1. \A t \in DOMAIN H : t <= clock + 1
      BY <1>1, <1>4
    <2> QED BY <2>1 DEF NewestOf
  <1>6. /\ \A l \in DOMAIN inflight : /\ inflight[l].sent \in 1..clock /\ inflight[l].sent \notin DOMAIN H
                                      /\ NewestOf(H, l, inflight[l].sent)
        /\ \A l, m \in DOMAIN inflight : inflight[l].sent = inflight[m].sent => l = m
    BY DEF Past, RequestsPast
  <1>7. \A l \in DOMAIN inflight' : \/ l = k /\ inflight'[l].sent = clock + 1
                                    \/ l # k /\ l \in DOMAIN inflight /\ inflight'[l].sent = inflight[l].sent
    BY <1>1, <1>2
  <1>8. RequestsPast(H)'
    <2>1. \A l \in DOMAIN inflight' : /\ inflight'[l].sent \in 1..clock' /\ inflight'[l].sent \notin DOMAIN H
                                      /\ NewestOf(H, l, inflight'[l].sent)
      BY <1>3, <1>4, <1>5, <1>6, <1>7
    <2>2. \A l, m \in DOMAIN inflight' : inflight'[l].sent = inflight'[m].sent => l = m
      BY <1>3, <1>6, <1>7
    <2> QED BY <2>1, <2>2 DEF RequestsPast
  <1>9. CachePast(H)' /\ \A x \in Routes :
           LastPast(H, x, lastLegs'[x]) /\ (jobs'[x] # None => LegsPast(H, x, jobs'[x].legs, lastLegs'[x]))
    BY <1>1 DEF Past, CachePast
  <1> QED BY <1>4, <1>8, <1>9 DEF Past

LEMMA OkPast ==
    ASSUME RouterInv, NEW H, Past(H), NEW k \in Keys, NEW out \in Amounts, OnLegOk(k, out)
    PROVE  \E G : Past(G)'
  <1> DEFINE f == inflight[k]
             S == Served(f)
             q == [sent |-> f.sent, mids |-> f.mids, out |-> out]
  <1>a. PICK G : G = With(H, f.sent, <<k, out>>)
    OBVIOUS
  <1>1. TypeOK /\ Typed /\ NoJobTwice /\ LegsFit /\ k \in DOMAIN inflight
    BY DEF RouterInv, Typed, OnLegOk
  <1>2. /\ cache' = With(cache, k, q) /\ UNCHANGED <<clock, lastLegs>>
        /\ jobs' = [r \in Routes |-> IF r \in S THEN [jobs[r] EXCEPT !.legs = Append(@, q)] ELSE jobs[r]]
        /\ inflight' = Without(inflight, k) /\ blocked' = Without(blocked, k)
    BY DEF OnLegOk, route
  <1>3. f \in Requests /\ q \in Quotes /\ q.sent = f.sent /\ q.out = out
    <2>1. f \in Requests
      BY <1>1, RequestIs
    <2> QED BY <2>1 DEF Requests, Quotes
  <1>4. /\ f.sent \in 1..clock /\ f.sent \notin DOMAIN H /\ NewestOf(H, k, f.sent) /\ f.sent \in Nat
        /\ \A l \in DOMAIN inflight : /\ inflight[l].sent \in 1..clock /\ inflight[l].sent \notin DOMAIN H
                                      /\ NewestOf(H, l, inflight[l].sent)
        /\ \A l, m \in DOMAIN inflight : inflight[l].sent = inflight[m].sent => l = m
    BY <1>1, <1>3 DEF Past, RequestsPast, Requests
  <1>5. \A r \in S : r \in Routes /\ jobs[r] # None /\ jobs[r] \in Jobs /\ ~Complete(r) /\ NextKey(r) = k
    BY <1>1, AnsweredAre, RequestIs DEF LegsFit, TypeOK
  <1>6. /\ DOMAIN inflight' = DOMAIN inflight \ {k}
        /\ \A l \in DOMAIN inflight' : inflight'[l] = inflight[l]
    BY <1>1, <1>2, EndedTyped
  <1> HIDE DEF q, S
  <1>7. /\ DOMAIN G = DOMAIN H \cup {f.sent} /\ G[f.sent] = <<k, out>>
        /\ \A t \in DOMAIN H : G[t] = H[t]
    BY <1>a, <1>4 DEF With
  <1>8. /\ \A r \in Routes : \A last \in Seq(Nat) : LastPast(H, r, last) => LastPast(G, r, last)
        /\ \A r \in Routes : \A legs \in Seq(Quotes), last \in Seq(Nat) : LegsPast(H, r, legs, last) => LegsPast(G, r, legs, last)
    BY <1>a, <1>4, PastGrows
  <1> HIDE DEF f
  <1>9. NewestOf(G, k, f.sent) /\ \A l, t : l # k /\ NewestOf(H, l, t) => NewestOf(G, l, t)
    BY <1>4, <1>7 DEF NewestOf
  <1>10. DOMAIN G \subseteq 1..clock'
    BY <1>2, <1>4, <1>7 DEF Past
  <1>11. RequestsPast(G)'
    <2>1. \A l \in DOMAIN inflight' : l # k /\ l \in DOMAIN inflight /\ inflight'[l] = inflight[l]
      BY <1>6
    <2>2. \A l \in DOMAIN inflight' : inflight[l].sent # f.sent
      BY <1>1, <1>4, <2>1 DEF f
    <2>3. \A l \in DOMAIN inflight' : /\ inflight'[l].sent \in 1..clock' /\ inflight'[l].sent \notin DOMAIN G
                                      /\ NewestOf(G, l, inflight'[l].sent)
      BY <1>2, <1>4, <1>7, <1>9, <2>1, <2>2
    <2>4. \A l, m \in DOMAIN inflight' : inflight'[l].sent = inflight'[m].sent => l = m
      BY <1>4, <2>1
    <2> QED BY <2>3, <2>4 DEF RequestsPast
  <1>12. CachePast(G)'
    <2>1. /\ DOMAIN cache' = DOMAIN cache \cup {k} /\ cache'[k] = q
          /\ \A l \in DOMAIN cache : l # k => cache'[l] = cache[l]
      BY <1>2 DEF With
    <2>2. \A l \in DOMAIN cache : /\ cache[l].sent \in DOMAIN H /\ H[cache[l].sent] = <<l, cache[l].out>>
                                  /\ NewestOf(H, l, cache[l].sent)
      BY DEF Past, CachePast
    <2>3. SUFFICES ASSUME NEW l \in DOMAIN cache'
          PROVE  cache'[l].sent \in DOMAIN G /\ G[cache'[l].sent] = <<l, cache'[l].out>> /\ NewestOf(G, l, cache'[l].sent)
      BY DEF CachePast
    <2>4. CASE l = k
      BY <2>1, <2>4, <1>3, <1>7, <1>9
    <2>5. CASE l # k
      BY <2>1, <2>2, <2>5, <1>7, <1>9
    <2> QED BY <2>4, <2>5
  <1>13. ASSUME NEW r \in Routes
         PROVE  LastPast(G, r, lastLegs'[r]) /\ (jobs'[r] # None => LegsPast(G, r, jobs'[r].legs, lastLegs'[r]))
    <2>1. lastLegs[r] \in Seq(Nat) /\ LastPast(G, r, lastLegs[r])
      BY <1>1, <1>8 DEF Past, TypeOK
    <2>2. jobs[r] # None => jobs[r].legs \in Seq(Quotes) /\ LegsPast(G, r, jobs[r].legs, lastLegs[r])
      BY <1>1, <1>8, <2>1, JobIs DEF Past
    <2>3. CASE r \notin S
      BY <2>1, <2>2, <2>3, <1>2
    <2>4. CASE r \in S
      <3>1. jobs[r] # None /\ jobs[r] \in Jobs /\ ~Complete(r) /\ NextKey(r) = k
        BY <2>4, <1>5
      <3>2. Len(jobs[r].legs) < Len(LegsOf[r])
        <4>1. Len(jobs[r].legs) <= Len(LegsOf[r]) /\ Len(jobs[r].legs) \in Nat /\ Len(LegsOf[r]) \in Nat
          BY <1>1, <3>1, JobIs, LegsAre DEF LegsFit
        <4> QED BY <4>1, <3>1 DEF Complete
      <3>3. k = <<LegsOf[r][Len(jobs[r].legs) + 1], IF jobs[r].legs = <<>> THEN Base ELSE Last(jobs[r].legs).out>>
        BY <3>1 DEF NextKey
      <3>4. q.sent \in DOMAIN G /\ G[q.sent] = <<k, q.out>> /\ NewestOf(G, k, q.sent)
        BY <1>3, <1>7, <1>9
      <3>5. LegsPast(G, r, Append(jobs[r].legs, q), lastLegs[r])
        BY <1>3, <2>1, <2>2, <3>1, <3>2, <3>3, <3>4, LegAdded
      <3>6. jobs'[r] = [jobs[r] EXCEPT !.legs = Append(@, q)]
        BY <1>2, <2>4
      <3>7. jobs'[r].legs = Append(jobs[r].legs, q)
        BY <1>3, <3>1, <3>6, JobWith
      <3> QED BY <1>2, <2>1, <3>5, <3>7
    <2> QED BY <2>3, <2>4
  <1>14. Past(G)'
    <2>1. /\ DOMAIN G \subseteq 1..clock' /\ RequestsPast(G)' /\ CachePast(G)'
      BY <1>10, <1>11, <1>12
    <2> QED BY <2>1, <1>13 DEF Past
  <1> QED BY <1>14

PricedNewer == \A r \in Routes : pricing[r] = None /\ pricing'[r] # None => Newer(lastLegs'[r], lastLegs[r])

LEMMA PastStep ==
    ASSUME RouterInv, Typed', NEW H, Past(H), [Next]_vars
    PROVE  (\E G : Past(G)') /\ PricedNewer
  <1>1. TypeOK /\ clock \in Nat /\ clock' \in Nat /\ NoJobTwice /\ \A n \in Nat : n >= n /\ n + 1 >= n
    <2>1. TypeOK /\ TypeOK' /\ NoJobTwice
      BY DEF RouterInv, Typed
    <2>2. clock \in Nat /\ clock' \in Nat
      BY <2>1 DEF TypeOK
    <2> QED BY <2>1, <2>2
  <1>2. ASSUME clock' >= clock, UNCHANGED <<lastLegs, pricing>>,
               \A k \in DOMAIN cache' : k \in DOMAIN cache /\ cache'[k] = cache[k],
               \A k \in DOMAIN inflight' : k \in DOMAIN inflight /\ inflight'[k].sent = inflight[k].sent,
               \A r \in Routes : jobs'[r] # None => jobs'[r] = jobs[r] \/ jobs'[r].legs = <<>>
        PROVE  (\E G : Past(G)') /\ PricedNewer
    BY <1>1, <1>2, PastStays DEF PricedNewer
  <1>3. CASE UNCHANGED vars \/ Timer \/ SlotFrees \/ OtherUse \/ NothingToDo \/ DropRepeat
             \/ (\E i \in Inputs, m \in Prices : Receive(i, m))
             \/ (\E r \in Routes : Rested(r) \/ BecomesReady(r) \/ Blocks(r) \/ ContinuationWaits(r) \/ Abandon(r))
    <2>1. clock' = clock \/ clock' = clock + 1
      BY <1>3 DEF vars, Timer, SlotFrees, OtherUse, NothingToDo, DropRepeat, Receive, Rested, BecomesReady, Blocks,
                  ContinuationWaits, Abandon
    <2>2. UNCHANGED <<lastLegs, pricing, inflight, cache>>
      BY <1>3 DEF vars, Timer, SlotFrees, OtherUse, NothingToDo, DropRepeat, Receive, Rested, BecomesReady, Blocks,
                  ContinuationWaits, Abandon, route, requests
    <2>3. jobs' = jobs \/ \E r : jobs' = [jobs EXCEPT ![r] = None]
      BY <1>3 DEF vars, Timer, SlotFrees, OtherUse, NothingToDo, DropRepeat, Receive, Rested, BecomesReady, Blocks,
                  ContinuationWaits, Abandon
    <2>4. \A r \in Routes : jobs'[r] # None => jobs'[r] = jobs[r]
      BY <2>3, <1>1 DEF TypeOK
    <2> QED BY <1>1, <1>2, <2>1, <2>2, <2>4
  <1>4. CASE OnTick
    <2>1. /\ UNCHANGED <<clock, lastLegs, pricing, inflight, jobs>>
          /\ \A k \in DOMAIN cache' : k \in DOMAIN cache /\ cache'[k] = cache[k]
      BY <1>4 DEF OnTick
    <2> QED BY <1>1, <1>2, <2>1
  <1>5. ASSUME NEW r \in Routes, Expire(r) \/ Floor(r)
        PROVE  (\E G : Past(G)') /\ PricedNewer
    <2>1. /\ UNCHANGED <<clock, lastLegs, pricing, inflight, jobs>>
          /\ \A k \in DOMAIN cache' : k \in DOMAIN cache /\ cache'[k] = cache[k]
      BY <1>5 DEF Expire, Floor, Without, route
    <2> QED BY <1>1, <1>2, <2>1
  <1>6. ASSUME NEW r \in Routes, Coalesces(r)
        PROVE  (\E G : Past(G)') /\ PricedNewer
    <2> DEFINE k == NextKey(r)
               f == [inflight[k] EXCEPT !.jobs = Append(@, r)]
    <2>1. UNCHANGED <<clock, lastLegs, pricing, cache, jobs>> /\ inflight' = [inflight EXCEPT ![k] = f]
          /\ k \in DOMAIN inflight
      BY <1>6 DEF Coalesces, InFlight, route
    <2>2. f.sent = inflight[k].sent
      BY <1>1, <2>1 DEF TypeOK, Requests
    <2> HIDE DEF f, k
    <2>3. \A l \in DOMAIN inflight' : l \in DOMAIN inflight /\ inflight'[l].sent = inflight[l].sent
      BY <2>1, <2>2
    <2> QED BY <1>1, <1>2, <2>1, <2>3
  <1>7. ASSUME NEW r \in Routes, StartJob(r)
        PROVE  (\E G : Past(G)') /\ PricedNewer
    <2> DEFINE j == [legs |-> <<>>, picked |-> clock, trigger |-> trigger[r],
                     background |-> Urgent = {}, inputs |-> seen]
    <2>1. UNCHANGED <<clock, lastLegs, pricing, inflight, cache>> /\ jobs' = [jobs EXCEPT ![r] = j] /\ j.legs = <<>>
      BY <1>7 DEF StartJob, requests
    <2> HIDE DEF j
    <2>2. \A x \in Routes : jobs'[x] # None => jobs'[x] = jobs[x] \/ jobs'[x].legs = <<>>
      BY <1>1, <2>1 DEF TypeOK
    <2> QED BY <1>1, <1>2, <2>1, <2>2
  <1>8. CASE Finish
    BY <1>8, FinishPast DEF PricedNewer
  <1>9. ASSUME NEW r \in Routes, TakesCached(r)
        PROVE  (\E G : Past(G)') /\ PricedNewer
    <2>1. pricing' = pricing
      BY <1>9 DEF TakesCached
    <2> QED BY <1>9, <2>1, CachedPast DEF PricedNewer
  <1>10. ASSUME NEW r \in Routes, Dispatch(r)
         PROVE  (\E G : Past(G)') /\ PricedNewer
    <2>1. pricing' = pricing
      BY <1>10 DEF Dispatch
    <2> QED BY <1>10, <2>1, DispatchPast DEF PricedNewer
  <1>11. ASSUME NEW k \in Keys, NEW out \in Amounts, OnLegOk(k, out)
         PROVE  (\E G : Past(G)') /\ PricedNewer
    <2>1. pricing' = pricing
      BY <1>11 DEF OnLegOk
    <2> QED BY <1>11, <2>1, OkPast DEF PricedNewer
  <1>12. ASSUME NEW k \in Keys, NEW limited \in BOOLEAN, OnLegErr(k, limited)
         PROVE  (\E G : Past(G)') /\ PricedNewer
    <2>1. /\ UNCHANGED <<clock, lastLegs, pricing, cache>> /\ inflight' = Without(inflight, k)
          /\ \E rs : jobs' = [r \in Routes |-> IF r \in rs THEN None ELSE jobs[r]]
      BY <1>12 DEF OnLegErr
    <2>2. \A l \in DOMAIN inflight' : l \in DOMAIN inflight /\ inflight'[l] = inflight[l]
      BY <2>1 DEF Without
    <2>3. \A r \in Routes : jobs'[r] # None => jobs'[r] = jobs[r]
      BY <2>1
    <2> QED BY <1>1, <1>2, <2>1, <2>2, <2>3
  <1>13. ASSUME NEW r \in Routes, OnDecided(r)
         PROVE  (\E G : Past(G)') /\ PricedNewer
    <2>1. /\ UNCHANGED <<lastLegs, cache, inflight, jobs>> /\ pricing' = [pricing EXCEPT ![r] = None]
          /\ clock' \in {clock, clock + 1}
      BY <1>13 DEF OnDecided, requests
    <2>2. Past(H)'
      BY <1>1, <2>1, PastStays
    <2>3. \A x \in Routes : pricing[x] = None => pricing'[x] = None
      BY <1>1, <2>1 DEF TypeOK
    <2> QED BY <2>2, <2>3 DEF PricedNewer
  <1>14. CASE Core
    BY <1>3, <1>6, <1>7, <1>8, <1>9, <1>10, <1>14 DEF Core, Advance
  <1>15. CASE OnMessage
    BY <1>11, <1>12, <1>13, <1>15 DEF OnMessage, Answer
  <1> QED BY <1>3, <1>4, <1>5, <1>14, <1>15 DEF Next

LEMMA PastInit ==
    ASSUME Init
    PROVE  \E H : Past(H)
  <1>1. PICK undecided \in SUBSET Routes : Start(undecided)
    BY DEF Init
  <1>2. /\ inflight = <<>> /\ cache = <<>> /\ jobs = [r \in Routes |-> None]
        /\ lastLegs = [r \in Routes |-> IF r \in undecided THEN <<>> ELSE [i \in DOMAIN LegsOf[r] |-> 0]]
    BY <1>1 DEF Start
  <1> DEFINE H == <<>>
  <1>3. DOMAIN H = {} /\ DOMAIN inflight = {} /\ DOMAIN cache = {}
    BY <1>2
  <1> HIDE DEF H
  <1>4. ASSUME NEW r \in Routes PROVE LastPast(H, r, lastLegs[r]) /\ jobs[r] = None
    <2> DEFINE zeros == [i \in DOMAIN LegsOf[r] |-> 0]
    <2>1. Len(zeros) = Len(LegsOf[r]) /\ \A i \in DOMAIN zeros : zeros[i] = 0
      <3>1. DOMAIN LegsOf[r] = 1..Len(LegsOf[r]) /\ Len(LegsOf[r]) \in Nat
        BY LegsAre
      <3> QED BY <3>1
    <2>2. lastLegs[r] = <<>> \/ lastLegs[r] = zeros
      BY <1>2
    <2> HIDE DEF zeros
    <2> QED BY <1>2, <2>1, <2>2 DEF LastPast
  <1> QED BY <1>3, <1>4 DEF Past, RequestsPast, CachePast

\* "identical quotes are never priced twice", nor are older ones: for each
\* pricing, the first quote that is not the one of the route's last pricing was
\* sent later (pop_ready, advance and on_leg, with the requests routes share).
THEOREM QuotesAreNewer == Spec => DecisionsAreNewer
  <1> DEFINE Inv == RouterInv /\ \E H : Past(H)
  <1>1. Init => Inv
    BY RouterInit, PastInit
  <1>2. Inv /\ [Next]_vars => Inv' /\ PricedNewer
    <2>1. SUFFICES ASSUME RouterInv, NEW H, Past(H), [Next]_vars
          PROVE  RouterInv' /\ (\E G : Past(G)') /\ PricedNewer
      OBVIOUS
    <2>2. RouterInv' /\ Typed'
      BY <2>1, RouterStep, TypesKept
    <2> QED BY <2>1, <2>2, PastStep
  <1> HIDE DEF Inv
  <1>3. Init /\ [][Next]_vars => [][PricedNewer]_vars
    BY <1>1, <1>2, PTL
  <1> QED BY <1>3 DEF Spec, DecisionsAreNewer, PricedNewer


----------------------------------------------------------------------------
(* Quotes show the change.                                                  *)

\* Shows, of a job and a market given.
ShowsIn(q, o, j, s, a) ==
    j.trigger # None =>
       \/ q.sent >= j.trigger
       \/ /\ o # Unobservable
          /\ \A p \in Known(s, Observed(o)) : \/ a[p] > j.picked \/ s[p] # j.inputs[p]
                                              \/ p \in DOMAIN q.mids /\ q.mids[p] = s[p]

\* The tick in the channel is newer than the last one of each input, and brings
\* another price.
TickIsNew ==
    /\ \A i \in Inputs : at[i] <= clock
    /\ tick # None => /\ tick.received <= clock /\ tick.price # seen[tick.input]
                      /\ \A i \in Inputs : at[i] < tick.received

\* A tick that was received before a job was picked, and is still in the
\* channel, is the first of its input since.
NotTickedYet(j) == tick # None /\ tick.received <= j.picked =>
    at[tick.input] <= j.picked /\ seen[tick.input] = j.inputs[tick.input]

JobsAreDated == \A r \in Routes :
    /\ trigger[r] # None => trigger[r] <= clock
    /\ jobs[r] # None => /\ jobs[r].picked <= clock /\ NotTickedYet(jobs[r])
                         /\ jobs[r].trigger # None => jobs[r].trigger <= clock

LegsShow == \A r \in Routes : jobs[r] # None => \A i \in DOMAIN jobs[r].legs :
    ShowsIn(jobs[r].legs[i], Obs[LegsOf[r][i]], jobs[r], seen, at)

RequestsShow == \A k \in DOMAIN inflight : \A r \in ToSet(inflight[k].jobs) :
    jobs[r] # None => ShowsIn(inflight[k], Obs[k[1]], jobs[r], seen, at)

NewsInv == TickIsNew /\ JobsAreDated /\ LegsShow /\ RequestsShow

\* It is the send's time and prices, and the job's, that count.
LEMMA ShowsSame ==
    ASSUME NEW q1, NEW q2, NEW o, NEW j1, NEW j2, NEW s, NEW a, ShowsIn(q1, o, j1, s, a),
           q1.sent = q2.sent, q1.mids = q2.mids,
           j1.trigger = j2.trigger, j1.picked = j2.picked, j1.inputs = j2.inputs
    PROVE  ShowsIn(q2, o, j2, s, a)
  BY DEF ShowsIn

\* What advance reuses shows the change.
LEMMA ReflectsShows ==
    ASSUME NEW q, NEW o, NEW j, Reflects(q, o, j.trigger)
    PROVE  ShowsIn(q, o, j, seen, at)
  <1>1. SUFFICES ASSUME j.trigger # None, ~(q.sent >= j.trigger)
                 PROVE  o # Unobservable /\ \A p \in Known(seen, Observed(o)) : p \in DOMAIN q.mids /\ q.mids[p] = seen[p]
    BY DEF ShowsIn
  <1>2. /\ o # Unobservable /\ DOMAIN q.mids = IF o = AllPools THEN Known(seen, Pools) ELSE o
        /\ \A p \in DOMAIN q.mids : seen[p] = q.mids[p]
    BY <1>1 DEF Reflects
  <1>3. Known(seen, Observed(o)) \subseteq DOMAIN q.mids
    <2>1. CASE o = AllPools
      <3>1. Observed(o) = Pools
        BY <1>2, <2>1, Zenon DEF Observed
      <3> QED BY <1>2, <2>1, <3>1
    <2>2. CASE o # AllPools
      <3>1. Observed(o) = o
        BY <1>2, <2>2, Zenon DEF Observed
      <3> QED BY <1>2, <2>2, <3>1 DEF Known
    <2> QED BY <2>1, <2>2
  <1> QED BY <1>2, <1>3

\* A tick either moves a pool since the job was picked, or leaves it alone.
LEMMA TickShows ==
    ASSUME NEW q, NEW o, NEW j, NEW s, NEW a, NEW i, NEW m, NEW t \in Nat, ShowsIn(q, o, j, s, a),
           Observed(o) \subseteq DOMAIN s, DOMAIN a = DOMAIN s, i \in DOMAIN s, m # s[i], j.picked \in Nat,
           t <= j.picked => s[i] = j.inputs[i]
    PROVE  ShowsIn(q, o, j, [s EXCEPT ![i] = m], [a EXCEPT ![i] = t])
  <1> DEFINE s2 == [s EXCEPT ![i] = m]
             a2 == [a EXCEPT ![i] = t]
  <1>1. s2[i] = m /\ a2[i] = t /\ \A p : p # i => (p \in DOMAIN s => s2[p] = s[p]) /\ (p \in DOMAIN a => a2[p] = a[p])
    OBVIOUS
  <1>2. a2[i] > j.picked \/ s2[i] # j.inputs[i]
    BY <1>1
  <1> QED BY <1>1, <1>2 DEF ShowsIn, Known

\* A step that is not a tick, nor brings one: jobs start, go, or keep what they
\* were picked with; what they take and what they wait for shows the change.
LEMMA NewsKept ==
    ASSUME TypeOK, NewsInv, UNCHANGED <<seen, at, tick>>, clock' \in {clock, clock + 1},
           \A r \in Routes : trigger'[r] # None => trigger'[r] = trigger[r] \/ trigger'[r] = clock',
           \A r \in Routes : jobs'[r] # None =>
              \/ /\ jobs'[r].legs = <<>> /\ jobs'[r].picked = clock
                 /\ jobs'[r].trigger = trigger[r] /\ jobs'[r].inputs = seen
              \/ /\ jobs[r] # None /\ jobs'[r].picked = jobs[r].picked
                 /\ jobs'[r].trigger = jobs[r].trigger /\ jobs'[r].inputs = jobs[r].inputs
                 /\ \/ jobs'[r].legs = jobs[r].legs
                    \/ \E q : /\ jobs'[r].legs = Append(jobs[r].legs, q)
                              /\ ShowsIn(q, Obs[LegsOf[r][Len(jobs[r].legs) + 1]], jobs[r], seen, at),
           \A k \in DOMAIN inflight' : \A r \in ToSet(inflight'[k].jobs) :
              jobs'[r] # None => ShowsIn(inflight'[k], Obs[k[1]], jobs'[r], seen, at)
    PROVE  NewsInv'
  <1>1. /\ clock \in Nat /\ clock' \in Nat /\ clock' >= clock /\ at \in [Inputs -> Nat]
        /\ (tick # None => tick.input \in Inputs /\ tick.received \in Nat)
        /\ \A r \in Routes : trigger[r] # None => trigger[r] \in Nat
    <2>1. tick # None => tick \in Ticks
      BY DEF TypeOK
    <2> QED BY <2>1 DEF TypeOK, Ticks, Times
  <1>2. ASSUME NEW r \in Routes, jobs[r] # None
        PROVE  /\ jobs[r].legs \in Seq(Quotes) /\ jobs[r].picked \in Nat /\ (jobs[r].trigger # None => jobs[r].trigger \in Nat)
               /\ DOMAIN jobs[r].legs = 1..Len(jobs[r].legs) /\ Len(jobs[r].legs) \in Nat
    BY <1>2, JobIs DEF Jobs, Times
  <1>3. TickIsNew'
    BY <1>1 DEF NewsInv, TickIsNew
  <1>4. JobsAreDated'
    <2>1. ASSUME NEW r \in Routes, trigger'[r] # None PROVE trigger'[r] <= clock'
      BY <1>1, <2>1 DEF NewsInv, JobsAreDated
    <2>2. ASSUME NEW r \in Routes, jobs'[r] # None
          PROVE  /\ jobs'[r].picked <= clock' /\ (jobs'[r].trigger # None => jobs'[r].trigger <= clock')
                 /\ NotTickedYet(jobs'[r])
      <3>1. CASE jobs'[r].picked = clock /\ jobs'[r].trigger = trigger[r] /\ jobs'[r].inputs = seen
        <4>1. jobs'[r].picked <= clock' /\ (jobs'[r].trigger # None => jobs'[r].trigger <= clock')
          BY <1>1, <3>1 DEF NewsInv, JobsAreDated
        <4>2. NotTickedYet(jobs'[r])
          BY <1>1, <3>1 DEF NewsInv, TickIsNew, NotTickedYet
        <4> QED BY <4>1, <4>2
      <3>2. CASE /\ jobs[r] # None /\ jobs'[r].picked = jobs[r].picked
                 /\ jobs'[r].trigger = jobs[r].trigger /\ jobs'[r].inputs = jobs[r].inputs
        <4>1. /\ jobs[r].picked <= clock /\ (jobs[r].trigger # None => jobs[r].trigger <= clock)
              /\ NotTickedYet(jobs[r])
          BY <3>2 DEF NewsInv, JobsAreDated
        <4>2. NotTickedYet(jobs'[r])
          BY <3>2, <4>1 DEF NotTickedYet
        <4> QED BY <1>1, <1>2, <3>2, <4>1, <4>2
      <3> QED BY <2>2, <3>1, <3>2
    <2>3. ASSUME NEW r \in Routes, jobs'[r] # None PROVE NotTickedYet(jobs[r])'
      BY <2>2, <2>3 DEF NotTickedYet
    <2> QED BY <2>1, <2>2, <2>3 DEF JobsAreDated
  <1>5. LegsShow'
    <2>1. ASSUME NEW r \in Routes, jobs'[r] # None, NEW i \in DOMAIN jobs'[r].legs
          PROVE  ShowsIn(jobs'[r].legs[i], Obs[LegsOf[r][i]], jobs'[r], seen, at)
      <3>1. CASE jobs'[r].legs = <<>>
        BY <2>1, <3>1
      <3>2. CASE /\ jobs[r] # None /\ jobs'[r].picked = jobs[r].picked
                 /\ jobs'[r].trigger = jobs[r].trigger /\ jobs'[r].inputs = jobs[r].inputs
                 /\ jobs'[r].legs = jobs[r].legs
        <4>1. ShowsIn(jobs[r].legs[i], Obs[LegsOf[r][i]], jobs[r], seen, at)
          BY <2>1, <3>2 DEF NewsInv, LegsShow
        <4> QED BY <3>2, <4>1, ShowsSame
      <3>3. ASSUME jobs[r] # None, jobs'[r].picked = jobs[r].picked,
                   jobs'[r].trigger = jobs[r].trigger, jobs'[r].inputs = jobs[r].inputs,
                   NEW q, jobs'[r].legs = Append(jobs[r].legs, q),
                   ShowsIn(q, Obs[LegsOf[r][Len(jobs[r].legs) + 1]], jobs[r], seen, at)
            PROVE  ShowsIn(jobs'[r].legs[i], Obs[LegsOf[r][i]], jobs'[r], seen, at)
        <4> DEFINE old == jobs[r].legs
        <4>1. old \in Seq(Quotes) /\ Len(old) \in Nat /\ DOMAIN old = 1..Len(old) /\ jobs'[r].legs = Append(old, q)
          BY <1>2, <3>3
        <4> HIDE DEF old
        <4>2. \/ i \in DOMAIN old /\ jobs'[r].legs[i] = old[i]
              \/ i = Len(old) + 1 /\ jobs'[r].legs[i] = q
          BY <2>1, <4>1
        <4>3. ShowsIn(jobs'[r].legs[i], Obs[LegsOf[r][i]], jobs[r], seen, at)
          BY <3>3, <4>2 DEF old, NewsInv, LegsShow
        <4> QED BY <3>3, <4>3, ShowsSame
      <3> QED BY <2>1, <3>1, <3>2, <3>3
    <2> QED BY <2>1 DEF LegsShow
  <1>6. RequestsShow'
    BY DEF RequestsShow
  <1> QED BY <1>3, <1>4, <1>5, <1>6 DEF NewsInv

\* Requests that stay, with no more jobs than before.
LEMMA RequestsStay ==
    ASSUME TypeOK, NoJobTwice, NewsInv,
           \A r \in Routes : jobs'[r] # None /\ jobs[r] # None =>
              jobs'[r].picked = jobs[r].picked /\ jobs'[r].trigger = jobs[r].trigger /\ jobs'[r].inputs = jobs[r].inputs,
           NEW k \in DOMAIN inflight', k \in DOMAIN inflight, inflight'[k] = inflight[k]
    PROVE  \A r \in ToSet(inflight'[k].jobs) :
              jobs'[r] # None => ShowsIn(inflight'[k], Obs[k[1]], jobs'[r], seen, at)
  <1>1. ASSUME NEW r \in ToSet(inflight[k].jobs), jobs'[r] # None
        PROVE  ShowsIn(inflight[k], Obs[k[1]], jobs'[r], seen, at)
    <2>1. r \in Routes /\ jobs[r] # None
      BY RequestIs
    <2>2. ShowsIn(inflight[k], Obs[k[1]], jobs[r], seen, at)
      BY <2>1 DEF NewsInv, RequestsShow
    <2> QED BY <1>1, <2>1, <2>2, ShowsSame
  <1> QED BY <1>1

\* Steps that leave every job as it is or end it.
LEMMA QuietNews ==
    ASSUME RouterInv, NewsInv, UNCHANGED <<seen, at, tick>>, clock' \in {clock, clock + 1},
           \A r \in Routes : trigger'[r] # None => trigger'[r] = trigger[r] \/ trigger'[r] = clock',
           \A r \in Routes : jobs'[r] # None => jobs'[r] = jobs[r],
           \A k \in DOMAIN inflight' : k \in DOMAIN inflight /\ inflight'[k] = inflight[k]
    PROVE  NewsInv'
  <1>1. TypeOK /\ NoJobTwice
    BY DEF RouterInv
  <1>2. \A k \in DOMAIN inflight' : \A r \in ToSet(inflight'[k].jobs) :
           jobs'[r] # None => ShowsIn(inflight'[k], Obs[k[1]], jobs'[r], seen, at)
    BY <1>1, RequestsStay
  <1> QED BY <1>1, <1>2, NewsKept

\* A tick arrives: it is newer than any other, and than any job.
LEMMA ReceiveNews ==
    ASSUME RouterInv, NewsInv, NEW i \in Inputs, NEW m \in Prices, Receive(i, m)
    PROVE  NewsInv'
  <1>1. /\ tick' = [input |-> i, price |-> m, received |-> clock + 1] /\ clock' = clock + 1 /\ seen[i] # m
        /\ UNCHANGED <<seen, at, trigger, jobs, inflight>>
    BY DEF Receive, route, requests
  <1>2. /\ TypeOK /\ clock \in Nat /\ at \in [Inputs -> Nat]
        /\ \A r \in Routes : /\ trigger[r] # None => trigger[r] \in Nat
                             /\ jobs[r] # None => jobs[r].picked \in Nat /\ (jobs[r].trigger # None => jobs[r].trigger \in Nat)
    <2>1. TypeOK
      BY DEF RouterInv
    <2> QED BY <2>1, JobIs DEF TypeOK, Times, Jobs
  <1>3. tick'.received = clock + 1 /\ tick'.price = m /\ tick'.input = i
    BY <1>1
  <1>4. TickIsNew'
    BY <1>1, <1>2, <1>3 DEF NewsInv, TickIsNew
  <1>5. JobsAreDated'
    <2>1. \A r \in Routes : jobs[r] # None => jobs[r].picked < tick'.received
      BY <1>2, <1>3 DEF NewsInv, JobsAreDated
    <2>2. \A r \in Routes : jobs[r] # None => NotTickedYet(jobs[r])'
      BY <1>1, <1>2, <1>3, <2>1 DEF NotTickedYet
    <2> QED BY <1>1, <1>2, <2>2 DEF NewsInv, JobsAreDated
  <1>6. LegsShow' /\ RequestsShow'
    BY <1>1 DEF NewsInv, LegsShow, RequestsShow
  <1> QED BY <1>4, <1>5, <1>6 DEF NewsInv

\* A tick is processed: the market moves under jobs that stay.
LEMMA TickNews ==
    ASSUME RouterInv, NewsInv, OnTick
    PROVE  NewsInv'
  <1> DEFINE i == tick.input
             m == tick.price
             t == tick.received
  <1>1. /\ tick # None /\ tick' = None /\ UNCHANGED <<clock, jobs, inflight>>
        /\ seen' = [seen EXCEPT ![i] = m] /\ at' = [at EXCEPT ![i] = t]
        /\ \A r \in Routes : trigger'[r] = trigger[r] \/ trigger'[r] = t \/ trigger'[r] = None
    BY DEF OnTick
  <1>2. /\ TypeOK /\ NoJobTwice /\ clock \in Nat /\ at \in [Inputs -> Nat] /\ DOMAIN seen = Inputs
        /\ i \in Inputs /\ t \in Nat /\ t <= clock /\ m # seen[i] /\ Pools \subseteq Inputs
    <2>1. TypeOK /\ NoJobTwice
      BY DEF RouterInv
    <2>2. tick \in Ticks
      BY <1>1, <2>1 DEF TypeOK
    <2> QED BY <1>1, <2>1, <2>2 DEF TypeOK, Ticks, Snapshots, Inputs, NewsInv, TickIsNew
  <1> HIDE DEF i, m, t
  <1>3. TickIsNew'
    BY <1>1, <1>2 DEF NewsInv, TickIsNew
  <1>4. JobsAreDated'
    <2>1. \A r \in Routes : NotTickedYet(jobs[r])'
      BY <1>1 DEF NotTickedYet
    <2> QED BY <1>1, <1>2, <2>1 DEF NewsInv, JobsAreDated
  <1>5. ASSUME NEW r \in Routes, jobs[r] # None, NEW x \in Specs, NEW q, ShowsIn(q, Obs[x], jobs[r], seen, at)
        PROVE  ShowsIn(q, Obs[x], jobs[r], seen', at')
    <2>1. jobs[r].picked \in Nat
      BY <1>2, <1>5, JobIs DEF Jobs
    <2>2. t <= jobs[r].picked => seen[i] = jobs[r].inputs[i]
      BY <1>1, <1>5 DEF NewsInv, JobsAreDated, NotTickedYet, i, t
    <2>3. Observed(Obs[x]) \subseteq DOMAIN seen /\ DOMAIN at = DOMAIN seen
      BY <1>2, ObservedIs
    <2> QED BY <1>1, <1>2, <1>5, <2>1, <2>2, <2>3, TickShows
  <1>6. LegsShow'
    <2>1. ASSUME NEW r \in Routes, jobs[r] # None, NEW n \in DOMAIN jobs[r].legs
          PROVE  ShowsIn(jobs[r].legs[n], Obs[LegsOf[r][n]], jobs[r], seen', at')
      <3>1. ShowsIn(jobs[r].legs[n], Obs[LegsOf[r][n]], jobs[r], seen, at)
        BY <2>1 DEF NewsInv, LegsShow
      <3>2. LegsOf[r][n] \in Specs
        <4>1. Len(jobs[r].legs) \in Nat /\ n \in 1..Len(jobs[r].legs) /\ Len(jobs[r].legs) <= Len(LegsOf[r])
          BY <1>2, <2>1, JobIs DEF RouterInv, LegsFit
        <4> QED BY <4>1, LegsAre
      <3> QED BY <1>5, <2>1, <3>1, <3>2
    <2> QED BY <1>1, <2>1 DEF LegsShow
  <1>7. RequestsShow'
    <2>1. ASSUME NEW k \in DOMAIN inflight, NEW r \in ToSet(inflight[k].jobs), jobs[r] # None
          PROVE  ShowsIn(inflight[k], Obs[k[1]], jobs[r], seen', at')
      <3>1. r \in Routes /\ k[1] \in Specs
        BY <1>2, RequestIs DEF Keys
      <3>2. ShowsIn(inflight[k], Obs[k[1]], jobs[r], seen, at)
        BY <2>1 DEF NewsInv, RequestsShow
      <3> QED BY <1>5, <2>1, <3>1, <3>2
    <2> QED BY <1>1, <2>1 DEF RequestsShow
  <1> QED BY <1>3, <1>4, <1>6, <1>7 DEF NewsInv

LEMMA CachedNews ==
    ASSUME RouterInv, NewsInv, NEW r \in Routes, TakesCached(r)
    PROVE  NewsInv'
  <1> DEFINE k == NextKey(r)
             q == cache[k]
  <1>1. /\ Working(r) /\ ~Complete(r) /\ k \in DOMAIN cache /\ Reflects(q, Obs[k[1]], jobs[r].trigger)
        /\ UNCHANGED <<clock, seen, at, tick, trigger, inflight>>
        /\ jobs' = [jobs EXCEPT ![r] = [jobs[r] EXCEPT !.legs = Append(@, q)]]
    BY DEF TakesCached, Cached, Working, InNext, market, route, requests
  <1>2. TypeOK /\ NoJobTwice /\ jobs[r] # None /\ Len(jobs[r].legs) <= Len(LegsOf[r])
    BY <1>1, WorkingElsewhere DEF RouterInv
  <1>3. jobs[r] \in Jobs /\ q \in Quotes /\ DOMAIN jobs = Routes /\ k[1] = LegsOf[r][Len(jobs[r].legs) + 1]
    BY <1>1, <1>2, JobIs, KeyIs DEF TypeOK
  <1>4. ShowsIn(q, Obs[k[1]], jobs[r], seen, at)
    BY <1>1, ReflectsShows
  <1> HIDE DEF q, k
  <1>5. /\ jobs'[r].legs = Append(jobs[r].legs, q) /\ jobs'[r].trigger = jobs[r].trigger
        /\ jobs'[r].picked = jobs[r].picked /\ jobs'[r].inputs = jobs[r].inputs
        /\ \A x \in Routes : x # r => jobs'[x] = jobs[x]
    <2>1. jobs'[r] = [jobs[r] EXCEPT !.legs = Append(@, q)] /\ \A x \in Routes : x # r => jobs'[x] = jobs[x]
      BY <1>1, <1>3
    <2> QED BY <2>1, <1>3, JobWith
  <1>6. \A l \in DOMAIN inflight' : \A x \in ToSet(inflight'[l].jobs) :
           jobs'[x] # None => ShowsIn(inflight'[l], Obs[l[1]], jobs'[x], seen, at)
    <2>1. \A x \in Routes : jobs'[x].picked = jobs[x].picked /\ jobs'[x].trigger = jobs[x].trigger
                            /\ jobs'[x].inputs = jobs[x].inputs
      BY <1>5
    <2> QED BY <1>1, <1>2, <2>1, RequestsStay
  <1> QED BY <1>1, <1>2, <1>3, <1>4, <1>5, <1>6, NewsKept

\* A job joins a request that shows its change.
LEMMA SharedNews ==
    ASSUME RouterInv, NewsInv, NEW r \in Routes, Coalesces(r)
    PROVE  NewsInv'
  <1> DEFINE k == NextKey(r)
             f == [inflight[k] EXCEPT !.jobs = Append(@, r)]
  <1>1. /\ Working(r) /\ k \in DOMAIN inflight /\ Reflects(inflight[k], Obs[k[1]], jobs[r].trigger)
        /\ UNCHANGED <<clock, seen, at, tick, trigger, jobs>>
        /\ inflight' = [inflight EXCEPT ![k] = f]
    BY DEF Coalesces, InFlight, Shares, Working, InNext, market, route
  <1>2. TypeOK /\ NoJobTwice /\ inflight[k] \in Requests /\ inflight[k].jobs \in Lists
    BY <1>1, RequestIs DEF RouterInv
  <1>3. f.sent = inflight[k].sent /\ f.mids = inflight[k].mids /\ f.jobs = Append(inflight[k].jobs, r)
    BY <1>2 DEF Requests
  <1>4. ToSet(f.jobs) = ToSet(inflight[k].jobs) \cup {r}
    BY <1>2, <1>3, Appended
  <1>5. ShowsIn(inflight[k], Obs[k[1]], jobs[r], seen, at)
    BY <1>1, ReflectsShows
  <1> HIDE DEF f, k
  <1>6. ASSUME NEW l \in DOMAIN inflight', NEW x \in ToSet(inflight'[l].jobs), jobs'[x] # None
        PROVE  ShowsIn(inflight'[l], Obs[l[1]], jobs'[x], seen, at)
    <2>1. CASE l # k
      BY <1>1, <1>6, <2>1 DEF NewsInv, RequestsShow
    <2>2. CASE l = k
      <3>1. inflight'[l] = f /\ (x = r \/ x \in ToSet(inflight[k].jobs))
        BY <1>1, <1>4, <1>6, <2>2
      <3>2. ShowsIn(inflight[k], Obs[k[1]], jobs[x], seen, at)
        BY <1>1, <1>5, <1>6, <3>1 DEF NewsInv, RequestsShow
      <3> QED BY <1>1, <1>3, <2>2, <3>1, <3>2, ShowsSame
    <2> QED BY <2>1, <2>2
  <1> QED BY <1>1, <1>2, <1>6, NewsKept

\* What is sent now is newer than any trigger.
LEMMA DispatchNews ==
    ASSUME RouterInv, NewsInv, NEW r \in Routes, Dispatch(r)
    PROVE  NewsInv'
  <1> DEFINE k == NextKey(r)
             f == [jobs |-> <<r>>, index |-> Len(jobs[r].legs), sent |-> clock + 1,
                   mids |-> MidsFor(Obs[NextKey(r)[1]], seen)]
  <1>1. /\ clock \in Nat /\ clock' = clock + 1 /\ UNCHANGED <<seen, at, tick, trigger, jobs>>
        /\ inflight' = With(inflight, k, f) /\ f.sent = clock + 1 /\ f.jobs = <<r>>
    BY DEF RouterInv, TypeOK, Dispatch, Working, InNext, market, route
  <1>2. TypeOK /\ NoJobTwice
    BY DEF RouterInv
  <1> HIDE DEF f, k
  <1>3. /\ DOMAIN inflight' = DOMAIN inflight \cup {k} /\ inflight'[k] = f
        /\ \A l \in DOMAIN inflight : l # k => inflight'[l] = inflight[l]
    BY <1>1 DEF With
  <1>4. ASSUME NEW l \in DOMAIN inflight', NEW x \in ToSet(inflight'[l].jobs), jobs'[x] # None
        PROVE  ShowsIn(inflight'[l], Obs[l[1]], jobs'[x], seen, at)
    <2>1. CASE l # k
      BY <1>1, <1>3, <1>4, <2>1 DEF NewsInv, RequestsShow
    <2>2. CASE l = k
      <3>1. inflight'[l] = f /\ x = r /\ jobs[r] # None
        BY <1>1, <1>3, <1>4, <2>2, One
      <3>2. jobs[r].trigger # None => jobs[r].trigger \in Nat /\ jobs[r].trigger <= clock
        BY <1>2, <3>1, JobIs DEF Jobs, Times, NewsInv, JobsAreDated
      <3> QED BY <1>1, <3>1, <3>2 DEF ShowsIn
    <2> QED BY <2>1, <2>2
  <1> QED BY <1>1, <1>2, <1>4, NewsKept

LEMMA StartNews ==
    ASSUME RouterInv, NewsInv, NEW r \in Routes, StartJob(r)
    PROVE  NewsInv'
  <1> DEFINE j == [legs |-> <<>>, picked |-> clock, trigger |-> trigger[r],
                   background |-> Urgent = {}, inputs |-> seen]
  <1>1. /\ UNCHANGED <<clock, seen, at, tick, trigger, inflight>> /\ jobs' = [jobs EXCEPT ![r] = j] /\ busy' = busy \cup {r}
        /\ j.legs = <<>> /\ j.picked = clock /\ j.trigger = trigger[r] /\ j.inputs = seen /\ r \notin busy
    BY DEF StartJob, Idle, InNext, Candidates, Urgent, Calibrate, market, requests
  <1>2. TypeOK /\ NoJobTwice /\ DOMAIN jobs = Routes /\ jobs[r] = None
    BY <1>1 DEF RouterInv, TypeOK, NoJobTwice
  <1> HIDE DEF j
  <1>3. jobs'[r] = j /\ \A x \in Routes : x # r => jobs'[x] = jobs[x]
    BY <1>1, <1>2
  <1>4. \A l \in DOMAIN inflight' : \A x \in ToSet(inflight'[l].jobs) :
           jobs'[x] # None => ShowsIn(inflight'[l], Obs[l[1]], jobs'[x], seen, at)
    BY <1>1, <1>2, <1>3, RequestsStay
  <1> QED BY <1>1, <1>2, <1>3, <1>4, NewsKept

\* The answer goes to jobs the request showed the change to.
LEMMA OkNews ==
    ASSUME RouterInv, NewsInv, NEW k \in Keys, NEW out \in Amounts, OnLegOk(k, out)
    PROVE  NewsInv'
  <1> DEFINE f == inflight[k]
             S == Served(f)
             q == [sent |-> f.sent, mids |-> f.mids, out |-> out]
  <1>1. /\ k \in DOMAIN inflight /\ UNCHANGED <<clock, seen, at, tick, trigger>> /\ inflight' = Without(inflight, k)
        /\ jobs' = [r \in Routes |-> IF r \in S THEN [jobs[r] EXCEPT !.legs = Append(@, q)] ELSE jobs[r]]
    BY DEF OnLegOk, market, route
  <1>2. TypeOK /\ NoJobTwice /\ f \in Requests /\ q \in Quotes /\ q.sent = f.sent /\ q.mids = f.mids
    <2>1. TypeOK /\ NoJobTwice
      BY DEF RouterInv
    <2> QED BY <1>1, <2>1, RequestIs DEF Requests, Quotes
  <1>3. ASSUME NEW r \in S
        PROVE  /\ r \in Routes /\ jobs[r] \in Jobs /\ jobs[r] # None
               /\ ShowsIn(q, Obs[LegsOf[r][Len(jobs[r].legs) + 1]], jobs[r], seen, at)
    <2>1. r \in ToSet(f.jobs)
      BY DEF Served
    <2>2. r \in Routes /\ jobs[r] # None /\ ~Complete(r) /\ NextKey(r) = k /\ Len(jobs[r].legs) <= Len(LegsOf[r])
      BY <1>1, <1>2, <2>1, RequestIs DEF RouterInv, LegsFit
    <2>3. ShowsIn(f, Obs[k[1]], jobs[r], seen, at)
      BY <1>1, <2>1, <2>2 DEF NewsInv, RequestsShow
    <2>4. k[1] = LegsOf[r][Len(jobs[r].legs) + 1]
      BY <1>2, <2>2, KeyIs
    <2> QED BY <1>2, <2>2, <2>3, <2>4, JobIs, ShowsSame
  <1> HIDE DEF q, f, S
  <1>4. ASSUME NEW r \in S
        PROVE  /\ jobs'[r].legs = Append(jobs[r].legs, q) /\ jobs'[r].trigger = jobs[r].trigger
               /\ jobs'[r].picked = jobs[r].picked /\ jobs'[r].inputs = jobs[r].inputs
    <2>1. jobs'[r] = [jobs[r] EXCEPT !.legs = Append(@, q)]
      BY <1>1, <1>3
    <2> QED BY <1>2, <1>3, <2>1, JobWith
  <1>5. \A r \in Routes : r \notin S => jobs'[r] = jobs[r]
    BY <1>1
  <1>6. \A l \in DOMAIN inflight' : \A x \in ToSet(inflight'[l].jobs) :
           jobs'[x] # None => ShowsIn(inflight'[l], Obs[l[1]], jobs'[x], seen, at)
    <2>1. \A l \in DOMAIN inflight' : l \in DOMAIN inflight /\ inflight'[l] = inflight[l]
      BY <1>1 DEF Without
    <2>2. \A x \in Routes : jobs'[x].picked = jobs[x].picked /\ jobs'[x].trigger = jobs[x].trigger
                            /\ jobs'[x].inputs = jobs[x].inputs
      BY <1>4, <1>5
    <2> QED BY <1>2, <2>1, <2>2, RequestsStay
  <1>7. \A r \in Routes : jobs'[r] # None =>
           /\ jobs[r] # None /\ jobs'[r].picked = jobs[r].picked
           /\ jobs'[r].trigger = jobs[r].trigger /\ jobs'[r].inputs = jobs[r].inputs
           /\ \/ jobs'[r].legs = jobs[r].legs
              \/ /\ jobs'[r].legs = Append(jobs[r].legs, q)
                 /\ ShowsIn(q, Obs[LegsOf[r][Len(jobs[r].legs) + 1]], jobs[r], seen, at)
    BY <1>3, <1>4, <1>5
  <1> QED BY <1>1, <1>2, <1>6, <1>7, NewsKept

LEMMA NewsStep ==
    ASSUME RouterInv, NewsInv, [Next]_vars
    PROVE  NewsInv'
  <1>1. TypeOK /\ DOMAIN jobs = Routes
    BY DEF RouterInv, TypeOK
  <1>2. CASE UNCHANGED vars \/ Timer \/ SlotFrees \/ OtherUse \/ NothingToDo \/ DropRepeat \/ Finish
             \/ (\E r \in Routes : Rested(r) \/ Floor(r) \/ Expire(r) \/ BecomesReady(r) \/ Blocks(r)
                                   \/ ContinuationWaits(r) \/ Abandon(r))
    <2>1. UNCHANGED <<clock, seen, at, tick, inflight>>
      BY <1>2 DEF vars, Timer, SlotFrees, OtherUse, NothingToDo, DropRepeat, Finish, Rested, Floor, Expire, BecomesReady,
                  Blocks, ContinuationWaits, Abandon, Working, InNext, Idle, market, requests
    <2>2. jobs' = jobs \/ \E r : jobs' = [jobs EXCEPT ![r] = None]
      BY <1>2 DEF vars, Timer, SlotFrees, OtherUse, NothingToDo, DropRepeat, Finish, Rested, Floor, Expire, BecomesReady,
                  Blocks, ContinuationWaits, Abandon
    <2>3. trigger' = trigger \/ \E r : trigger' = [trigger EXCEPT ![r] = None]
      BY <1>2 DEF vars, Timer, SlotFrees, OtherUse, NothingToDo, DropRepeat, Finish, Rested, Floor, Expire, BecomesReady,
                  Blocks, ContinuationWaits, Abandon, route
    <2>4. \A r \in Routes : jobs'[r] # None => jobs'[r] = jobs[r]
      BY <1>1, <2>2
    <2>5. \A r \in Routes : trigger'[r] # None => trigger'[r] = trigger[r]
      BY <1>1, <2>3 DEF TypeOK
    <2> QED BY <2>1, <2>4, <2>5, QuietNews
  <1>3. ASSUME NEW k \in Keys, NEW limited \in BOOLEAN, OnLegErr(k, limited)
        PROVE  NewsInv'
    <2>1. /\ UNCHANGED <<clock, seen, at, tick>> /\ inflight' = Without(inflight, k)
          /\ \E rs : jobs' = [r \in Routes |-> IF r \in rs THEN None ELSE jobs[r]]
          /\ trigger' = trigger \/ \E rs : trigger' = [r \in Routes |-> IF r \in rs THEN None ELSE trigger[r]]
      BY <1>3 DEF OnLegErr, market
    <2>2. \A l \in DOMAIN inflight' : l \in DOMAIN inflight /\ inflight'[l] = inflight[l]
      BY <2>1 DEF Without
    <2>3. \A r \in Routes : jobs'[r] # None => jobs'[r] = jobs[r]
      BY <2>1
    <2>4. \A r \in Routes : trigger'[r] # None => trigger'[r] = trigger[r]
      BY <2>1
    <2> QED BY <2>1, <2>2, <2>3, <2>4, QuietNews
  <1>4. ASSUME NEW r \in Routes, OnDecided(r)
        PROVE  NewsInv'
    <2> DEFINE later == trigger[r] # None /\ trigger[r] > pricing[r].started
               again == ~later /\ Changed(r, seen, pricing[r].inputs)
    <2>1. /\ UNCHANGED <<seen, at, tick, inflight, jobs>>
          /\ trigger' = [trigger EXCEPT ![r] = IF later THEN @ ELSE IF again THEN clock + 1 ELSE None]
          /\ clock' = IF again THEN clock + 1 ELSE clock
      BY <1>4 DEF OnDecided, market, requests
    <2>2. DOMAIN trigger = Routes
      BY <1>1 DEF TypeOK
    <2> HIDE DEF later, again
    <2>3. clock' \in {clock, clock + 1} /\ \A x \in Routes : trigger'[x] # None => trigger'[x] = trigger[x] \/ trigger'[x] = clock'
      BY <2>1, <2>2
    <2> QED BY <2>1, <2>3, QuietNews
  <1>5. CASE Core
    BY <1>2, <1>5, CachedNews, SharedNews, DispatchNews, StartNews DEF Core, Advance
  <1>6. CASE OnMessage
    BY <1>3, <1>4, <1>6, OkNews DEF OnMessage, Answer
  <1> QED BY <1>2, <1>5, <1>6, ReceiveNews, TickNews DEF Next

\* "a triggered route reuses a quote only if it is newer than the change or its
\* pools did not move at all": so it is of the change the job was started for,
\* cached, shared or blocked, whatever fails or comes late (advance, reflects,
\* on_leg and on_tick).
THEOREM TriggeredQuotesAreNews == Spec => []QuotesShowTheChange
  <1>1. Init => RouterInv /\ NewsInv
    <2>1. SUFFICES ASSUME Init PROVE NewsInv
      BY RouterInit
    <2>2. PICK undecided \in SUBSET Routes : Start(undecided)
      BY <2>1 DEF Init
    <2>3. /\ clock = 0 /\ tick = None /\ at = [i \in Inputs |-> 0] /\ inflight = <<>>
          /\ trigger = [r \in Routes |-> None] /\ jobs = [r \in Routes |-> None]
      BY <2>2 DEF Start
    <2> QED BY <2>3 DEF NewsInv, TickIsNew, JobsAreDated, LegsShow, RequestsShow
  <1>2. RouterInv /\ NewsInv /\ [Next]_vars => RouterInv' /\ NewsInv'
    BY RouterStep, NewsStep
  <1>3. NewsInv => QuotesShowTheChange
    BY DEF NewsInv, LegsShow, QuotesShowTheChange, Shows, ShowsIn, MovedSince
  <1> HIDE DEF NewsInv
  <1> QED BY <1>1, <1>2, <1>3, PTL DEF Spec

=============================================================================
