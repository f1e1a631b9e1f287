--------------------------- MODULE NaturalRecursion ---------------------------
(***************************************************************************)
(* Induction over the natural numbers with a set in the place of the       *)
(* property, and from it that what is defined by recursion exists: a       *)
(* sequence of values each of which a function gives from the one before.  *)
(* The loops of RangeAdaptors and Crc32c are such sequences.  The same for *)
(* functions of what has a depth, in terms of what is less deep: the sizes *)
(* and the serialization of Serializer.                                    *)
(***************************************************************************)
EXTENDS Integers, WellFoundedInduction, TLAPS

(***************************************************************************)
(* Numbers.                                                                *)
(***************************************************************************)
Lt == {ss \in Nat \X Nat : ss[1] < ss[2]}

LEMMA LtWellFounded == IsWellFoundedOn(Lt, Nat)
  BY NatLessThanWellFounded, Zenon DEF Lt, OpToRel

\* A set of natural numbers has a least element.
LEMMA Least ==
    ASSUME NEW S \in SUBSET Nat, S # {}
    PROVE  \E x \in S : \A y \in S : x <= y
<1>1. PICK x \in S : \A y \in S : ~(<<y, x>> \in Lt)
  BY LtWellFounded, WFMin
<1>2. ASSUME NEW y \in S PROVE x <= y
  <2>1. <<y, x>> \in Nat \X Nat /\ <<y, x>>[1] = y /\ <<y, x>>[2] = x
    OBVIOUS
  <2>2. y < x => <<y, x>> \in Lt
    BY <2>1 DEF Lt
  <2> QED
    BY <1>1, <2>2
<1> QED
  BY <1>2

\* Induction: a set of numbers with 0 and every successor is all of them.
LEMMA AllOf ==
    ASSUME NEW S \in SUBSET Nat, 0 \in S, \A n \in S : n + 1 \in S
    PROVE  S = Nat
<1>1. SUFFICES ASSUME Nat \ S # {} PROVE FALSE
  OBVIOUS
<1>2. PICK m \in Nat \ S : \A y \in Nat \ S : m <= y
  <2>1. Nat \ S \in SUBSET Nat
    OBVIOUS
  <2> QED
    BY <1>1, <2>1, Least
<1>3. m \in Nat /\ m # 0 /\ m - 1 \in Nat
  BY <1>2
<1>4. m - 1 \in S
  BY <1>2, <1>3
<1>5. (m - 1) + 1 \in S
  BY <1>4
<1> QED
  BY <1>2, <1>3, <1>5

(***************************************************************************)
(* A function of the naturals can be defined by what comes first and what  *)
(* comes next.                                                             *)
(***************************************************************************)
Maps(f, S) == f \in [S -> S]
Iterates(r, S, f, a) ==
    r \in [Nat -> S] /\ r[0] = a /\ \A n \in Nat : r[n + 1] = f[r[n]]

IsStart(g, n, S, f, a) ==
    /\ g \in [0 .. n -> S] /\ g[0] = a
    /\ \A k \in 0 .. n - 1 : g[k + 1] = f[g[k]]

LEMMA PrefixExists ==
    ASSUME NEW S, NEW f \in [S -> S], NEW a \in S
    PROVE  \A n \in Nat : \E g : IsStart(g, n, S, f, a)
<1> DEFINE Good == {n \in Nat : \E g : IsStart(g, n, S, f, a)}
<1>1. 0 \in Good
  <2>1. IsStart([k \in 0 .. 0 |-> a], 0, S, f, a)
    BY DEF IsStart
  <2> QED
    BY <2>1
<1>2. ASSUME NEW n \in Good PROVE n + 1 \in Good
  <2>1. n \in Nat
    OBVIOUS
  <2>2. PICK g : IsStart(g, n, S, f, a)
    OBVIOUS
  <2> DEFINE h == [k \in 0 .. n + 1 |-> IF k = n + 1 THEN f[g[n]] ELSE g[k]]
  <2>3. g \in [0 .. n -> S] /\ g[0] = a /\ g[n] \in S
        /\ \A k \in 0 .. n - 1 : g[k + 1] = f[g[k]]
    BY <2>1, <2>2 DEF IsStart
  <2>4. h \in [0 .. n + 1 -> S]
    BY <2>1, <2>3
  <2>5. h[0] = a
    BY <2>1, <2>3
  <2>6. ASSUME NEW k \in 0 .. n + 1 - 1 PROVE h[k + 1] = f[h[k]]
    <3>1. CASE k = n
      BY <2>1, <3>1
    <3>2. CASE k # n
      <4>1. k \in 0 .. n - 1 /\ k + 1 \in 0 .. n + 1 /\ k + 1 # n + 1 /\ k # n + 1
            /\ k \in 0 .. n + 1
        BY <2>1, <3>2
      <4> QED
        BY <2>3, <4>1
    <3> QED
      BY <3>1, <3>2
  <2>7. IsStart(h, n + 1, S, f, a)
    <3> HIDE DEF h
    <3> QED
      BY <2>4, <2>5, <2>6 DEF IsStart
  <2> QED
    BY <2>1, <2>7
<1>3. Good = Nat
  <2> HIDE DEF Good
  <2>1. Good \in SUBSET Nat
    BY DEF Good
  <2> QED
    BY <1>1, <1>2, <2>1, AllOf
<1> QED
  BY <1>3

LEMMA PrefixesAgree ==
    ASSUME NEW S, NEW f, NEW a, NEW n \in Nat, NEW m \in Nat, n <= m,
           NEW g, NEW h, IsStart(g, n, S, f, a), IsStart(h, m, S, f, a)
    PROVE  g[n] = h[n]
<1> DEFINE Same == {k \in Nat : k <= n => g[k] = h[k]}
<1>1. 0 \in Same
  BY DEF IsStart
<1>2. ASSUME NEW k \in Same PROVE k + 1 \in Same
  <2>1. k \in Nat /\ (k <= n => g[k] = h[k])
    OBVIOUS
  <2>2. ASSUME k + 1 <= n PROVE g[k + 1] = h[k + 1]
    <3>1. k \in 0 .. n - 1 /\ k \in 0 .. m - 1
      BY <2>1, <2>2
    <3> QED
      BY <2>1, <3>1 DEF IsStart
  <2> QED
    BY <2>1, <2>2
<1>3. Same = Nat
  <2> HIDE DEF Same
  <2>1. Same \in SUBSET Nat
    BY DEF Same
  <2> QED
    BY <1>1, <1>2, <2>1, AllOf
<1> QED
  BY <1>3

LEMMA Iterated ==
    ASSUME NEW S, NEW f, NEW a \in S, Maps(f, S)
    PROVE  \E r : Iterates(r, S, f, a)
<1> DEFINE prefix(n) == CHOOSE g : IsStart(g, n, S, f, a)
           r == [n \in Nat |-> prefix(n)[n]]
<1>1. \A n \in Nat : IsStart(prefix(n), n, S, f, a)
  <2>1. \A n \in Nat : \E g : IsStart(g, n, S, f, a)
    BY PrefixExists DEF Maps
  <2> QED
    BY <2>1, Zenon
<1> HIDE DEF prefix
<1>2. r \in [Nat -> S]
  BY <1>1 DEF IsStart
<1>3. r[0] = a
  BY <1>1 DEF IsStart
<1>4. ASSUME NEW n \in Nat PROVE r[n + 1] = f[r[n]]
  <2>1. n + 1 \in Nat /\ n <= n + 1 /\ n \in 0 .. (n + 1) - 1
    OBVIOUS
  <2>2. IsStart(prefix(n), n, S, f, a) /\ IsStart(prefix(n + 1), n + 1, S, f, a)
    BY <1>1, <2>1
  <2>3. prefix(n)[n] = prefix(n + 1)[n]
    BY <2>1, <2>2, PrefixesAgree
  <2>4. prefix(n + 1)[n + 1] = f[prefix(n + 1)[n]]
    BY <2>1, <2>2 DEF IsStart
  <2> QED
    BY <2>1, <2>3, <2>4
<1> HIDE DEF r
<1>5. Iterates(r, S, f, a)
  BY <1>2, <1>3, <1>4 DEF Iterates
<1> QED
  BY <1>5

\* The same where what comes next depends on its number too.
MapsEach(f, S) == f \in [Nat \X S -> S]
IteratesEach(w, S, f, a) ==
    w \in [Nat -> S] /\ w[0] = a /\ \A n \in Nat : w[n + 1] = f[<<n, w[n]>>]

LEMMA IteratedEach ==
    ASSUME NEW S, NEW f, NEW a \in S, MapsEach(f, S)
    PROVE  \E w : IteratesEach(w, S, f, a)
<1> DEFINE T == Nat \X S
           g == [p \in T |-> <<p[1] + 1, f[p]>>]
           b == <<0, a>>
<1>1. \A p \in T : f[p] \in S /\ g[p] = <<p[1] + 1, f[p]>> /\ g[p] \in T
  BY DEF MapsEach
<1>2. Maps(g, T) /\ b \in T
  BY <1>1 DEF Maps
<1>3. PICK r : Iterates(r, T, g, b)
  <2> HIDE DEF T, g, b
  <2> QED
    BY <1>2, Iterated
<1>4. r \in [Nat -> T] /\ r[0] = b /\ \A n \in Nat : r[n + 1] = g[r[n]]
  <2> HIDE DEF T, g, b
  <2> QED
    BY <1>3 DEF Iterates
<1> HIDE DEF g
<1> DEFINE Numbered == {n \in Nat : r[n][1] = n}
<1>5. Numbered = Nat
  <2>1. 0 \in Numbered
    BY <1>4
  <2>2. ASSUME NEW n \in Numbered PROVE n + 1 \in Numbered
    BY <1>1, <1>4
  <2>3. Numbered \in SUBSET Nat
    OBVIOUS
  <2> HIDE DEF Numbered
  <2> QED
    BY <2>1, <2>2, <2>3, AllOf
<1> DEFINE w == [n \in Nat |-> r[n][2]]
<1>6. w \in [Nat -> S] /\ w[0] = a
  BY <1>4
<1>7. ASSUME NEW n \in Nat PROVE w[n + 1] = f[<<n, w[n]>>]
  <2>0. n \in Numbered
    BY <1>5
  <2>1. r[n] \in T /\ n + 1 \in Nat /\ r[n][1] = n
    BY <1>4, <2>0
  <2>2. r[n] = <<n, w[n]>>
    BY <2>1
  <2>3. r[n + 1] = <<n + 1, f[r[n]]>>
    BY <1>1, <1>4, <2>1
  <2> QED
    BY <2>1, <2>2, <2>3
<1> HIDE DEF w
<1>8. IteratesEach(w, S, f, a)
  BY <1>6, <1>7 DEF IteratesEach
<1> QED
  BY <1>8

\* The same where a value comes from that of some smaller number, e of its own.
Falls(e) == e \in [Nat -> Nat] /\ \A n \in Nat : e[n + 1] <= n
Descends(r, S, f, e, a) ==
    r \in [Nat -> S] /\ r[0] = a /\ \A n \in Nat : r[n + 1] = f[<<n + 1, r[e[n + 1]]>>]

LEMMA Descending ==
    ASSUME NEW S, NEW f, NEW e, NEW a \in S, MapsEach(f, S), Falls(e)
    PROVE  \E r : Descends(r, S, f, e, a)
<1> DEFINE T == [Nat -> S]
           new(n, h) == f[<<n + 1, h[e[n + 1]]>>]
           g == [p \in Nat \X T |-> [p[2] EXCEPT ![p[1] + 1] = new(p[1], p[2])]]
           b == [k \in Nat |-> a]
<1>1. ASSUME NEW n \in Nat, NEW h \in T PROVE new(n, h) \in S
  <2>1. n + 1 \in Nat /\ e[n + 1] \in Nat
    BY DEF Falls
  <2>2. <<n + 1, h[e[n + 1]]>> \in Nat \X S
    BY <2>1
  <2> QED
    BY <2>2 DEF MapsEach
<1> HIDE DEF new
<1>2. ASSUME NEW n \in Nat, NEW h \in T
      PROVE  g[<<n, h>>] = [h EXCEPT ![n + 1] = new(n, h)] /\ g[<<n, h>>] \in T
  <2>1. <<n, h>> \in Nat \X T /\ new(n, h) \in S
    BY <1>1
  <2> QED
    BY <2>1
<1>3. PICK w : IteratesEach(w, T, g, b)
  <2>1. ASSUME NEW p \in Nat \X T PROVE g[p] \in T
    <3>1. p[1] \in Nat /\ p[2] \in T /\ p = <<p[1], p[2]>>
      OBVIOUS
    <3> HIDE DEF g, T
    <3> QED
      BY <1>2, <3>1
  <2>2. MapsEach(g, T)
    <3>1. g = [p \in Nat \X T |-> g[p]]
      OBVIOUS
    <3> HIDE DEF g, T
    <3> QED
      BY <2>1, <3>1 DEF MapsEach
  <2>3. b \in T
    OBVIOUS
  <2> HIDE DEF g, T, b
  <2> QED
    BY <2>2, <2>3, IteratedEach
<1> HIDE DEF g
<1>4. /\ w \in [Nat -> T] /\ w[0] = b
      /\ \A n \in Nat : w[n] \in T /\ w[n + 1] = [w[n] EXCEPT ![n + 1] = new(n, w[n])]
  <2>1. w \in [Nat -> T] /\ w[0] = b /\ \A n \in Nat : w[n + 1] = g[<<n, w[n]>>]
    <3> HIDE DEF T, b
    <3> QED
      BY <1>3 DEF IteratesEach
  <2>2. ASSUME NEW n \in Nat PROVE w[n] \in T
    <3> HIDE DEF T
    <3> QED
      BY <2>1
  <2> QED
    BY <1>2, <2>1, <2>2
<1> DEFINE Settled == {n \in Nat : \A j \in 0 .. n : w[n][j] = w[j][j]}
<1>5. Settled = Nat
  <2>1. 0 \in Settled
    OBVIOUS
  <2>2. ASSUME NEW n \in Settled PROVE n + 1 \in Settled
    <3>1. ASSUME NEW j \in 0 .. n + 1 PROVE w[n + 1][j] = w[j][j]
      <4>1. CASE j = n + 1
        BY <4>1
      <4>2. CASE j \in 0 .. n
        <5>1. w[n][j] = w[j][j] /\ n \in Nat /\ j # n + 1 /\ j \in Nat
          BY <2>2, <4>2
        <5>2. w[n + 1][j] = w[n][j]
          BY <1>4, <5>1
        <5> QED
          BY <5>1, <5>2
      <4> QED
        BY <4>1, <4>2
    <3> QED
      BY <3>1
  <2>3. Settled \in SUBSET Nat
    OBVIOUS
  <2> HIDE DEF Settled
  <2> QED
    BY <2>1, <2>2, <2>3, AllOf
<1> DEFINE r == [n \in Nat |-> w[n][n]]
<1>6. r \in [Nat -> S] /\ r[0] = a
  BY <1>4
<1>7. ASSUME NEW n \in Nat PROVE r[n + 1] = f[<<n + 1, r[e[n + 1]]>>]
  <2>1. n + 1 \in Nat /\ e[n + 1] \in 0 .. n /\ e[n + 1] \in Nat
    BY DEF Falls
  <2>2. r[n + 1] = new(n, w[n])
    BY <1>4, <2>1
  <2>3. n \in Settled
    BY <1>5
  <2>4. w[n][e[n + 1]] = r[e[n + 1]]
    BY <2>1, <2>3
  <2> QED
    BY <2>2, <2>4 DEF new
<1> HIDE DEF r
<1>8. Descends(r, S, f, e, a)
  BY <1>6, <1>7 DEF Descends
<1> QED
  BY <1>8
\* Up to some number: what is defined by steps exists, and a set with 0 and every
\* successor is all of them.
Steps(g, n, S, f, a) ==
    g \in [0 .. n -> S] /\ g[0] = a /\ \A i \in 1 .. n : g[i] = f[<<i, g[i - 1]>>]

LEMMA StepsExist ==
    ASSUME NEW n \in Nat, NEW S, NEW a \in S, NEW f, f \in [(1 .. n) \X S -> S]
    PROVE  \E g : Steps(g, n, S, f, a)
<1> DEFINE h == [p \in Nat \X S |-> IF p[1] < n THEN f[<<p[1] + 1, p[2]>>] ELSE a]
<1>1. ASSUME NEW k \in Nat, NEW x \in S
      PROVE  h[<<k, x>>] \in S /\ (k < n => h[<<k, x>>] = f[<<k + 1, x>>])
  <2>1. <<k, x>> \in Nat \X S /\ (k < n => <<k + 1, x>> \in (1 .. n) \X S)
    OBVIOUS
  <2> QED
    BY <2>1
<1>2. MapsEach(h, S)
  <2>1. ASSUME NEW p \in Nat \X S PROVE h[p] \in S
    <3>1. p[1] \in Nat /\ p[2] \in S /\ p = <<p[1], p[2]>>
      OBVIOUS
    <3> HIDE DEF h
    <3> QED
      BY <1>1, <3>1
  <2>2. h = [p \in Nat \X S |-> h[p]]
    OBVIOUS
  <2> HIDE DEF h
  <2> QED
    BY <2>1, <2>2 DEF MapsEach
<1> HIDE DEF h
<1>3. PICK w : IteratesEach(w, S, h, a)
  BY <1>2, IteratedEach
<1>4. w \in [Nat -> S] /\ w[0] = a /\ \A k \in Nat : w[k + 1] = h[<<k, w[k]>>]
  BY <1>3 DEF IteratesEach
<1> DEFINE g == [i \in 0 .. n |-> w[i]]
<1>5. ASSUME NEW i \in 1 .. n PROVE g[i] = f[<<i, g[i - 1]>>]
  <2>1. i - 1 \in Nat /\ i - 1 < n /\ (i - 1) + 1 = i /\ i \in 0 .. n /\ i - 1 \in 0 .. n
    OBVIOUS
  <2>2. w[(i - 1) + 1] = h[<<i - 1, w[i - 1]>>] /\ w[i - 1] \in S
    BY <1>4, <2>1
  <2> QED
    BY <1>1, <2>1, <2>2
<1>6. g \in [0 .. n -> S] /\ g[0] = a
  BY <1>4
<1> HIDE DEF g
<1>7. Steps(g, n, S, f, a)
  BY <1>5, <1>6 DEF Steps
<1> QED
  BY <1>7

LEMMA AllUpTo ==
    ASSUME NEW n \in Nat, NEW S \in SUBSET (0 .. n), 0 \in S,
           \A i \in 1 .. n : i - 1 \in S => i \in S
    PROVE  S = 0 .. n
<1> DEFINE Good == {k \in Nat : k <= n => k \in S}
<1>1. 0 \in Good
  OBVIOUS
<1>2. ASSUME NEW k \in Good PROVE k + 1 \in Good
  <2>1. k \in Nat /\ (k <= n => k \in S)
    OBVIOUS
  <2>2. ASSUME k + 1 <= n PROVE k + 1 \in S
    <3>1. k + 1 \in 1 .. n /\ (k + 1) - 1 = k /\ k \in S
      BY <2>1, <2>2
    <3> QED
      BY <3>1
  <2> QED
    BY <2>1, <2>2
<1>3. Good = Nat
  <2>1. Good \in SUBSET Nat
    OBVIOUS
  <2> HIDE DEF Good
  <2> QED
    BY <1>1, <1>2, <2>1, AllOf
<1>4. ASSUME NEW k \in 0 .. n PROVE k \in S
  <2>1. k \in Nat /\ k <= n /\ k \in Good
    BY <1>3
  <2> QED
    BY <2>1
<1> HIDE DEF Good
<1> QED
  BY <1>4

(***************************************************************************)
(* A function of any set whose members have a depth can be defined by the  *)
(* values of the members that are less deep.                               *)
(***************************************************************************)
Bodies(e, D, S) == e \in [D \X [D -> S] -> S]
LooksDown(e, D, S, depth) ==
    \A x \in D : \A g, h \in [D -> S] :
       (\A y \in D : depth[y] < depth[x] => g[y] = h[y]) => e[<<x, g>>] = e[<<x, h>>]
ByDepth(f, D, S, e) == f \in [D -> S] /\ \A x \in D : f[x] = e[<<x, f>>]

LEMMA DepthRecursion ==
    ASSUME NEW D, NEW S, NEW depth \in [D -> Nat], NEW e, NEW a \in S,
           Bodies(e, D, S), LooksDown(e, D, S, depth)
    PROVE  \E f : ByDepth(f, D, S, e)
<1> DEFINE T == [D -> S]
           step(g) == [x \in D |-> e[<<x, g>>]]
           F == [g \in T |-> step(g)]
           first == [x \in D |-> a]
<1>1. ASSUME NEW g \in T PROVE step(g) \in T /\ \A x \in D : step(g)[x] = e[<<x, g>>]
  <2>1. \A x \in D : <<x, g>> \in D \X T
    OBVIOUS
  <2> HIDE DEF T
  <2>2. \A x \in D : e[<<x, g>>] \in S
    BY <2>1 DEF Bodies, T
  <2> QED
    BY <2>2 DEF T
<1> HIDE DEF step
<1>2. Maps(F, T) /\ first \in T
  BY <1>1 DEF Maps
<1>3. PICK w : Iterates(w, T, F, first)
  <2> HIDE DEF F, T, first
  <2> QED
    BY <1>2, Iterated
<1>4. /\ w \in [Nat -> T]
      /\ \A n \in Nat : w[n] \in T /\ n + 1 \in Nat /\ w[n + 1] = step(w[n])
  <2>1. w \in [Nat -> T] /\ \A n \in Nat : w[n + 1] = F[w[n]]
    <3> HIDE DEF F, T, first
    <3> QED
      BY <1>3 DEF Iterates
  <2>2. \A n \in Nat : w[n] \in T /\ n + 1 \in Nat /\ F[w[n]] = step(w[n])
    <3> HIDE DEF T
    <3> QED
      BY <2>1
  <2> HIDE DEF F, T, first
  <2> QED
    BY <2>1, <2>2
<1>5. ASSUME NEW n \in Nat, NEW x \in D PROVE w[n + 1][x] = e[<<x, w[n]>>]
  <2>1. w[n] \in T /\ w[n + 1] = step(w[n])
    BY <1>4
  <2> HIDE DEF T
  <2> QED
    BY <1>1, <2>1
<1> HIDE DEF F, first
<1> DEFINE Settled == {n \in Nat : \A x \in D : depth[x] < n => w[n][x] = w[n + 1][x]}
<1>6. Settled = Nat
  <2>1. 0 \in Settled
    OBVIOUS
  <2>2. ASSUME NEW n \in Settled PROVE n + 1 \in Settled
    <3>1. ASSUME NEW x \in D, depth[x] < n + 1 PROVE w[n + 1][x] = w[(n + 1) + 1][x]
      <4>1. \A y \in D : depth[y] < depth[x] => w[n][y] = w[n + 1][y]
        BY <3>1
      <4>2. n \in Nat /\ n + 1 \in Nat /\ w[n] \in T /\ w[n + 1] \in T
        BY <1>4
      <4>3. e[<<x, w[n]>>] = e[<<x, w[n + 1]>>]
        BY <4>1, <4>2 DEF LooksDown
      <4> QED
        BY <1>5, <4>2, <4>3
    <3> QED
      BY <3>1
  <2>3. Settled \in SUBSET Nat
    OBVIOUS
  <2> HIDE DEF Settled
  <2> QED
    BY <2>1, <2>2, <2>3, AllOf
<1>7. ASSUME NEW x \in D PROVE \A n \in Nat : w[(depth[x] + 1) + n][x] = w[depth[x] + 1][x]
  <2> DEFINE Stays == {n \in Nat : w[(depth[x] + 1) + n][x] = w[depth[x] + 1][x]}
  <2>0. depth[x] \in Nat
    OBVIOUS
  <2>1. 0 \in Stays
    BY <2>0
  <2>2. ASSUME NEW n \in Stays PROVE n + 1 \in Stays
    <3>1. n \in Nat /\ (depth[x] + 1) + n \in Nat /\ depth[x] < (depth[x] + 1) + n
          /\ ((depth[x] + 1) + n) + 1 = (depth[x] + 1) + (n + 1)
      BY <2>0
    <3>2. (depth[x] + 1) + n \in Settled
      BY <1>6, <3>1
    <3> QED
      BY <3>1, <3>2
  <2>3. Stays \in SUBSET Nat
    OBVIOUS
  <2>4. Stays = Nat
    <3> HIDE DEF Stays
    <3> QED
      BY <2>1, <2>2, <2>3, AllOf
  <2> QED
    BY <2>4
<1> DEFINE f == [x \in D |-> w[depth[x] + 1][x]]
<1>8. f \in T
  <2>1. \A x \in D : depth[x] + 1 \in Nat /\ w[depth[x] + 1] \in T
    BY <1>4
  <2> QED
    BY <2>1
<1>9. ASSUME NEW x \in D PROVE f[x] = e[<<x, f>>]
  <2>1. depth[x] \in Nat /\ w[depth[x]] \in T
    BY <1>4
  <2>2. f[x] = e[<<x, w[depth[x]]>>]
    BY <1>5, <2>1
  <2>3. ASSUME NEW y \in D, depth[y] < depth[x] PROVE f[y] = w[depth[x]][y]
    <3>1. depth[y] \in Nat /\ depth[x] - (depth[y] + 1) \in Nat
          /\ (depth[y] + 1) + (depth[x] - (depth[y] + 1)) = depth[x]
      BY <2>1, <2>3
    <3> QED
      BY <1>7, <3>1
  <2>4. e[<<x, f>>] = e[<<x, w[depth[x]]>>]
    <3> HIDE DEF f
    <3> QED
      BY <1>8, <2>1, <2>3 DEF LooksDown
  <2> QED
    BY <2>2, <2>4
<1> HIDE DEF f
<1>10. ByDepth(f, D, S, e)
  BY <1>8, <1>9 DEF ByDepth
<1> QED
  BY <1>10

\* A set with every member whose less deep members it has.
LEMMA DepthInduction ==
    ASSUME NEW D, NEW depth \in [D -> Nat], NEW S \in SUBSET D,
           \A x \in D : (\A y \in D : depth[y] < depth[x] => y \in S) => x \in S
    PROVE  S = D
<1> DEFINE Below == {n \in Nat : \A x \in D : depth[x] < n => x \in S}
<1>1. 0 \in Below
  OBVIOUS
<1>2. ASSUME NEW n \in Below PROVE n + 1 \in Below
  <2>1. ASSUME NEW x \in D, depth[x] < n + 1 PROVE x \in S
    <3>1. \A y \in D : depth[y] < depth[x] => y \in S
      BY <2>1
    <3> QED
      BY <3>1
  <2> QED
    BY <2>1
<1>3. Below = Nat
  <2>1. Below \in SUBSET Nat
    OBVIOUS
  <2> HIDE DEF Below
  <2> QED
    BY <1>1, <1>2, <2>1, AllOf
<1>4. ASSUME NEW x \in D PROVE x \in S
  <2>1. depth[x] + 1 \in Below
    BY <1>3
  <2> QED
    BY <2>1
<1> QED
  BY <1>4
===============================================================================
