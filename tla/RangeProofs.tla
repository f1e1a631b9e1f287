------------------------------ MODULE RangeProofs ------------------------------
(***************************************************************************)
(* What ZipRanges promises, for any number of ranges of any lengths, any   *)
(* iterators, integers of any width, and with or without NDEBUG; and what  *)
(* RangeAdaptors does, for containers of any length, any set of accepted   *)
(* elements and any iterators.                                             *)
(***************************************************************************)
EXTENDS ZipRanges, RangeAdaptors, NaturalRecursion, SequenceTheorems

(***************************************************************************)
(* Zips.  An iterator is where its index says, measured from the beginning *)
(* or, once it came back from there, from the ends (InStep); and so every  *)
(* position is within its range.                                           *)
(***************************************************************************)
StateType ==
    /\ ends \in Seq(Nat) \ {<<>>}
    /\ at \in [Iters -> [Ranges -> Nat]]
    /\ index \in [Iters -> 0 .. Count]
    /\ fromEnd \in [Iters -> BOOLEAN]
    /\ int \in [{1, 2} -> 0 .. Top]

ZipInv == StateType /\ InStep

-------------------------------------------------------------------------------
(***************************************************************************)
(* The number of tuples is the length of the shortest range.               *)
(***************************************************************************)
LEMMA MinOf ==
    ASSUME NEW S \in SUBSET Nat, S # {}
    PROVE  Min(S) \in S /\ \A x \in S : Min(S) <= x
BY Least DEF Min

LEMMA CountIs ==
    ASSUME ends \in Seq(Nat) \ {<<>>}
    PROVE  /\ Count \in Nat /\ 1 \in Ranges
           /\ \A k \in Ranges : k \in Nat /\ k >= 1 /\ ends[k] \in Nat /\ Count <= ends[k]
           /\ \E k \in Ranges : ends[k] = Count
<1> DEFINE S == {ends[k] : k \in Ranges}
<1>1. Ranges = 1..Len(ends) /\ Len(ends) \in Nat /\ Len(ends) # 0
  BY DEF Ranges
<1>2. /\ 1 \in Ranges
      /\ \A k \in Ranges : k \in Nat /\ k >= 1 /\ ends[k] \in Nat
  BY <1>1
<1>3. S \in SUBSET Nat /\ S # {}
  BY <1>2
<1>4. Min(S) \in S /\ \A x \in S : Min(S) <= x
  BY <1>3, MinOf
<1> QED
  BY <1>2, <1>3, <1>4 DEF Count

-------------------------------------------------------------------------------
(***************************************************************************)
(* The iterators.                                                          *)
(***************************************************************************)
\* A place is in the ranges, and the end is the place of the number of tuples.
LEMMA PlaceIs ==
    ASSUME ends \in Seq(Nat) \ {<<>>}, NEW x \in 0 .. Count, NEW back \in BOOLEAN
    PROVE  /\ Place(x, back) \in [Ranges -> Nat]
           /\ Place(Count, back) = ends
           /\ \A k \in Ranges :
                /\ Place(x, back)[k] = IF back \/ x = Count THEN ends[k] - (Count - x) ELSE x
                /\ Place(x, back)[k] \in 0 .. ends[k]
                /\ x < Count => Place(x, back)[k] < ends[k]
<1>1. /\ Count \in Nat /\ x \in Nat /\ x <= Count /\ ends \in [Ranges -> Nat]
      /\ \A k \in Ranges : ends[k] \in Nat /\ Count <= ends[k]
  BY CountIs DEF Ranges
<1>2. ASSUME NEW k \in Ranges
      PROVE  /\ ends[k] - (Count - x) \in 0 .. ends[k] /\ x \in 0 .. ends[k]
             /\ x < Count => ends[k] - (Count - x) < ends[k] /\ x < ends[k]
             /\ x = Count => ends[k] - (Count - x) = ends[k]
  BY <1>1
<1>3. CASE x = Count
  BY <1>1, <1>2, <1>3 DEF Place
<1>4. CASE x # Count
  <2>1. Place(x, back) = [k \in Ranges |-> IF back THEN ends[k] - (Count - x) ELSE x]
    BY <1>4 DEF Place
  <2>2. x < Count
    BY <1>1, <1>4
  <2>3. ASSUME NEW k \in Ranges
        PROVE  /\ Place(x, back)[k] = IF back THEN ends[k] - (Count - x) ELSE x
               /\ Place(x, back)[k] \in 0 .. ends[k] /\ Place(x, back)[k] < ends[k]
    BY <1>2, <2>1, <2>2
  <2>4. Place(x, back) \in [Ranges -> Nat]
    BY <1>1, <2>1, <2>3
  <2> QED
    BY <1>4, <2>3, <2>4 DEF Place
<1> QED
  BY <1>3, <1>4

\* Forward, at most to the end, which is reached wherever the place is measured from.
LEMMA PlusIs ==
    ASSUME ends \in Seq(Nat) \ {<<>>}, NEW x \in 0 .. Count, NEW back \in BOOLEAN,
           NEW n \in Nat \ {0}, x + n <= Count
    PROVE  plus(Place(x, back), n) = Place(x + n, back /\ x + n < Count)
<1> DEFINE p == Place(x, back)
           q == [k \in Ranges |-> p[k] + n]
<1>1. /\ Count \in Nat /\ x \in Nat /\ x < Count /\ x # Count /\ x + n \in 0 .. Count
      /\ \A k \in Ranges : ends[k] \in Nat /\ Count <= ends[k]
      /\ \E k \in Ranges : ends[k] = Count
      /\ 1 \in Ranges
  BY CountIs
<1>2. \A k \in Ranges : p[k] = IF back THEN ends[k] - (Count - x) ELSE x
  BY <1>1, PlaceIs, Zenon
<1>3. plus(p, n) = IF \E k \in Ranges : q[k] = ends[k] THEN ends ELSE q
  BY DEF plus, check_end, tuple_any_equal
<1>4. \A k \in Ranges : q[k] = IF back THEN ends[k] - (Count - (x + n)) ELSE x + n
  <2>1. \A k \in Ranges : /\ q[k] = p[k] + n
                          /\ ends[k] - (Count - x) + n = ends[k] - (Count - (x + n))
    BY <1>1
  <2> HIDE DEF p, q
  <2> QED
    BY <1>2, <2>1, Zenon
<1> HIDE DEF p, q
<1>5. CASE x + n = Count
  <2>1. \E k \in Ranges : q[k] = ends[k]
    BY <1>1, <1>4, <1>5
  <2> QED
    BY <1>3, <1>5, <2>1 DEF Place, p
<1>6. CASE x + n < Count
  <2>1. ~ \E k \in Ranges : q[k] = ends[k]
    BY <1>1, <1>4, <1>6
  <2>2. Place(x + n, back)
          = [k \in Ranges |-> IF back THEN ends[k] - (Count - (x + n)) ELSE x + n]
    BY <1>1, <1>6 DEF Place
  <2>3. q = Place(x + n, back)
    BY <1>4, <2>2 DEF q
  <2> QED
    BY <1>3, <1>6, <2>1, <2>3 DEF p
<1> QED
  BY <1>1, <1>5, <1>6

\* Back, from the end too.
LEMMA MinusIs ==
    ASSUME ends \in Seq(Nat) \ {<<>>}, NEW x \in 0 .. Count, NEW back \in BOOLEAN,
           NEW n \in Nat \ {0}, n <= x
    PROVE  minus(Place(x, back), n) = Place(x - n, back \/ x = Count)
<1> DEFINE p == Place(x, back)
<1>1. /\ Count \in Nat /\ x \in Nat /\ x <= Count
      /\ x - n \in 0 .. Count /\ x - n # Count
      /\ \A k \in Ranges : ends[k] \in Nat
  BY CountIs
<1>2. \A k \in Ranges : p[k] = IF back \/ x = Count THEN ends[k] - (Count - x) ELSE x
  BY PlaceIs
<1> HIDE DEF p
<1>3. \A k \in Ranges :
        p[k] - n = IF back \/ x = Count THEN ends[k] - (Count - (x - n)) ELSE x - n
  BY <1>1, <1>2
<1>4. minus(p, n) = [k \in Ranges |->
                        IF back \/ x = Count THEN ends[k] - (Count - (x - n)) ELSE x - n]
  BY <1>3 DEF minus
<1> QED
  BY <1>1, <1>4 DEF Place, p

\* The types the steps rest on.
LEMMA Parts ==
    ASSUME ZipInv
    PROVE  /\ ends \in Seq(Nat) \ {<<>>} /\ at \in [Iters -> [Ranges -> Nat]]
           /\ index \in [Iters -> 0 .. Count] /\ fromEnd \in [Iters -> BOOLEAN] /\ Count \in Nat
<1>1. ends \in Seq(Nat) \ {<<>>}
  BY DEF ZipInv, StateType
<1>2. Count \in Nat
  BY <1>1, CountIs
<1> QED
  BY <1>1, <1>2 DEF ZipInv, StateType

\* A step that moves one iterator to its place keeps the others where they are.
LEMMA OneMoved ==
    ASSUME ZipInv, NEW i \in Iters, NEW x \in 0 .. Count, NEW back \in BOOLEAN,
           at' = [at EXCEPT ![i] = Place(x, back)],
           index' = [index EXCEPT ![i] = x],
           fromEnd' = [fromEnd EXCEPT ![i] = back],
           ends' = ends, int' = int
    PROVE  ZipInv'
<1>1. Ranges' = Ranges /\ Count' = Count /\ \A n, b : Place(n, b)' = Place(n, b)
  BY DEF Ranges, Count, Place
<1>2. Place(x, back) \in [Ranges -> Nat]
  BY Parts, PlaceIs
<1>3. StateType'
  BY <1>1, <1>2 DEF ZipInv, StateType, Top
<1>4. ASSUME NEW j \in Iters PROVE at'[j] = Place(index'[j], fromEnd'[j])
  <2>1. CASE j = i
    BY <2>1, Parts
  <2>2. CASE j # i
    BY <2>2, Parts DEF ZipInv, InStep
  <2> QED
    BY <2>1, <2>2
<1>5. InStep'
  BY <1>1, <1>4 DEF InStep
<1> QED
  BY <1>3, <1>5 DEF ZipInv

LEMMA ForwardStep ==
    ASSUME ZipInv, NEW i \in Iters, NEW n \in {1, 2}, Forward(i, n) PROVE ZipInv'
<1> DEFINE x == index[i] + n
           back == fromEnd[i] /\ x < Count
<1>1. /\ index[i] \in 0 .. Count /\ fromEnd[i] \in BOOLEAN /\ Count \in Nat
      /\ n \in Nat \ {0} /\ x <= Count /\ x \in 0 .. Count /\ back \in BOOLEAN
  BY Parts DEF Forward
<1>2. plus(at[i], n) = Place(x, back)
  <2>1. at[i] = Place(index[i], fromEnd[i])
    BY DEF ZipInv, InStep
  <2> QED
    BY <1>1, <2>1, Parts, PlusIs
<1>3. /\ at' = [at EXCEPT ![i] = Place(x, back)] /\ index' = [index EXCEPT ![i] = x]
      /\ ends' = ends /\ int' = int
  BY <1>2 DEF Forward
<1>4. fromEnd' = [fromEnd EXCEPT ![i] = back]
  BY Zenon DEF Forward
<1> QED
  BY <1>1, <1>3, <1>4, OneMoved

LEMMA BackStep ==
    ASSUME ZipInv, NEW i \in Iters, NEW n \in {1, 2}, Back(i, n) PROVE ZipInv'
<1> DEFINE x == index[i] - n
           back == fromEnd[i] \/ index[i] = Count
<1>1. /\ index[i] \in 0 .. Count /\ fromEnd[i] \in BOOLEAN /\ Count \in Nat
      /\ n \in Nat \ {0} /\ n <= index[i] /\ x \in 0 .. Count /\ back \in BOOLEAN
  BY Parts DEF Back
<1>2. minus(at[i], n) = Place(x, back)
  <2>1. at[i] = Place(index[i], fromEnd[i])
    BY DEF ZipInv, InStep
  <2> QED
    <3>1. ends \in Seq(Nat) \ {<<>>}
      BY Parts
    <3>2. minus(Place(index[i], fromEnd[i]), n) = Place(index[i] - n, fromEnd[i] \/ index[i] = Count)
      BY <1>1, <3>1, MinusIs, Zenon
    <3> QED
      BY <2>1, <3>2, Zenon
<1>3. /\ at' = [at EXCEPT ![i] = Place(x, back)] /\ index' = [index EXCEPT ![i] = x]
      /\ ends' = ends /\ int' = int
  BY <1>2 DEF Back
<1>4. fromEnd' = [fromEnd EXCEPT ![i] = back]
  BY Zenon DEF Back
<1> QED
  BY <1>1, <1>3, <1>4, OneMoved

LEMMA AssignStep ==
    ASSUME ZipInv, NEW i \in Iters, NEW j \in Iters, Assign(i, j) PROVE ZipInv'
<1>1. index[j] \in 0 .. Count /\ fromEnd[j] \in BOOLEAN /\ at[j] = Place(index[j], fromEnd[j])
  BY Parts DEF ZipInv, InStep
<1>2. /\ at' = [at EXCEPT ![i] = Place(index[j], fromEnd[j])]
      /\ index' = [index EXCEPT ![i] = index[j]]
      /\ fromEnd' = [fromEnd EXCEPT ![i] = fromEnd[j]]
      /\ ends' = ends /\ int' = int
  BY <1>1 DEF Assign
<1> QED
  BY <1>1, <1>2, OneMoved

LEMMA IntegralStep ==
    ASSUME ZipInv, NEW a \in {1, 2}, NEW n \in {-1, 1, 3}, Integral(a, n)
    PROVE  ZipInv'
<1>1. /\ int' = [int EXCEPT ![a] = integral_plus(int[a], n)]
      /\ ends' = ends /\ at' = at /\ index' = index /\ fromEnd' = fromEnd
  BY DEF Integral
<1>2. Ranges' = Ranges /\ Count' = Count /\ \A x, b : Place(x, b)' = Place(x, b)
  BY <1>1 DEF Ranges, Count, Place
<1>3. integral_plus(int[a], n) \in 0 .. Top
  <2>1. int[a] \in 0 .. Top /\ Modulus \in Nat /\ Modulus > 0
    BY ZipAssumption DEF ZipInv, StateType, Modulus
  <2>2. int[a] + n \in Int
    BY <2>1 DEF Top
  <2> HIDE DEF Modulus
  <2> QED
    BY <2>1, <2>2 DEF integral_plus, Unsigned, Top
<1>4. StateType'
  BY <1>1, <1>2, <1>3 DEF ZipInv, StateType
<1>5. InStep'
  BY <1>1, <1>2 DEF ZipInv, InStep
<1> QED
  BY <1>4, <1>5 DEF ZipInv

\* The beginning of a zip, which is its end if a range is empty, is the place 0.
LEMMA BeginIs ==
    ASSUME ends \in Seq(Nat) \ {<<>>}
    PROVE  zip_begin = Place(0, FALSE) /\ zip_end = Place(Count, FALSE)
<1> DEFINE zero == [k \in Ranges |-> 0]
<1>1. /\ Count \in Nat
      /\ \A k \in Ranges : ends[k] \in Nat /\ Count <= ends[k]
      /\ \E k \in Ranges : ends[k] = Count
  BY CountIs
<1>2. zip_begin = IF \E k \in Ranges : zero[k] = ends[k] THEN ends ELSE zero
  BY DEF zip_begin, check_end, tuple_any_equal
<1>3. (\E k \in Ranges : zero[k] = ends[k]) <=> Count = 0
  BY <1>1
<1> QED
  BY <1>2, <1>3 DEF Place, zip_end, check_end

LEMMA InitZipInv ==
    ASSUME Init PROVE ZipInv
<1>1. /\ ends \in Seq(Nat) \ {<<>>} /\ fromEnd = [i \in Iters |-> FALSE]
      /\ int = [a \in {1, 2} |-> 0] /\ Half \in Nat /\ Half # 0
  BY ZipAssumption DEF Init
<1>2. PICK b \in [Iters -> BOOLEAN] :
        /\ at = [i \in Iters |-> IF b[i] THEN zip_begin ELSE zip_end]
        /\ index = [i \in Iters |-> IF b[i] THEN 0 ELSE Count]
  BY DEF Init
<1>3. Count \in Nat
  BY <1>1, CountIs
<1>4. ASSUME NEW i \in Iters
      PROVE  index[i] \in 0 .. Count /\ at[i] = Place(index[i], FALSE)
  <2>1. CASE b[i]
    BY <1>1, <1>2, <1>3, <2>1, BeginIs
  <2>2. CASE ~b[i]
    BY <1>1, <1>2, <1>3, <2>2, BeginIs
  <2> QED
    BY <2>1, <2>2
<1>5. ASSUME NEW i \in Iters PROVE at[i] \in [Ranges -> Nat]
  <2>1. \A x \in 0 .. Count : Place(x, FALSE) \in [Ranges -> Nat]
    BY <1>1, PlaceIs
  <2> QED
    BY <1>4, <2>1
<1>6. at \in [Iters -> [Ranges -> Nat]] /\ index \in [Iters -> 0 .. Count]
  BY <1>2, <1>4, <1>5
<1>7. int \in [{1, 2} -> 0 .. Top]
  BY <1>1 DEF Top, Modulus
<1>8. StateType
  BY <1>1, <1>6, <1>7 DEF StateType
<1>9. InStep
  BY <1>1, <1>4 DEF InStep
<1> QED
  BY <1>8, <1>9 DEF ZipInv

LEMMA StutterStep ==
    ASSUME ZipInv, UNCHANGED vars PROVE ZipInv'
<1>1. ends' = ends /\ at' = at /\ index' = index /\ fromEnd' = fromEnd /\ int' = int
  BY DEF vars
<1>2. Ranges' = Ranges /\ Count' = Count /\ \A x, b : Place(x, b)' = Place(x, b)
  BY <1>1 DEF Ranges, Count, Place
<1> QED
  BY <1>1, <1>2 DEF ZipInv, StateType, InStep

-------------------------------------------------------------------------------
(***************************************************************************)
(* Comparisons, distances and the integers.                                *)
(***************************************************************************)
LEMMA AtIs ==
    ASSUME ZipInv, NEW i \in Iters, NEW k \in Ranges
    PROVE  at[i][k] = IF AtEnds(i) THEN ends[k] - (Count - index[i]) ELSE index[i]
<1>1. /\ ends \in Seq(Nat) \ {<<>>} /\ index[i] \in 0 .. Count /\ fromEnd[i] \in BOOLEAN
      /\ at[i] = Place(index[i], fromEnd[i])
  BY Parts DEF ZipInv, InStep
<1>2. Place(index[i], fromEnd[i])[k]
        = IF fromEnd[i] \/ index[i] = Count THEN ends[k] - (Count - index[i]) ELSE index[i]
  <2> DEFINE x == index[i]
             back == fromEnd[i]
  <2>1. x \in 0 .. Count /\ back \in BOOLEAN
    BY <1>1
  <2> HIDE DEF x, back
  <2>2. Place(x, back)[k] = IF back \/ x = Count THEN ends[k] - (Count - x) ELSE x
    BY <1>1, <2>1, PlaceIs, Zenon
  <2> QED
    BY <2>2 DEF x, back
<1> QED
  BY <1>1, <1>2, Zenon DEF AtEnds

LEMMA ComparesPair ==
    ASSUME ZipInv, NEW i \in Iters, NEW j \in Iters
    PROVE  LET alike == AtEnds(i) = AtEnds(j) IN
           /\ alike \/ SameLengths \/ Count \in {index[i], index[j]} =>
                /\ less(at[i], at[j]) <=> index[i] < index[j]
                /\ equal(at[i], at[j]) <=> index[i] = index[j]
           /\ alike \/ ends[1] = Count => distance(at[j], at[i]) = index[j] - index[i]
<1> DEFINE m == index[i]
           n == index[j]
           alike == AtEnds(i) = AtEnds(j)
           hard == alike \/ SameLengths \/ Count \in {index[i], index[j]}
<1>1. /\ ends \in Seq(Nat) \ {<<>>} /\ m \in 0 .. Count /\ n \in 0 .. Count
      /\ Count \in Nat /\ 1 \in Ranges /\ fromEnd[i] \in BOOLEAN /\ fromEnd[j] \in BOOLEAN
      /\ \A k \in Ranges : k \in Nat /\ k >= 1 /\ ends[k] \in Nat /\ Count <= ends[k]
  BY CountIs DEF ZipInv, StateType
<1>2. /\ \A k \in Ranges : at[i][k] = IF AtEnds(i) THEN ends[k] - (Count - m) ELSE m
      /\ \A k \in Ranges : at[j][k] = IF AtEnds(j) THEN ends[k] - (Count - n) ELSE n
  BY AtIs
<1>3. /\ m = Count => AtEnds(i)
      /\ n = Count => AtEnds(j)
  BY DEF AtEnds
<1>4. ASSUME hard, NEW k \in Ranges
      PROVE  (at[i][k] < at[j][k] <=> m < n) /\ (at[i][k] = at[j][k] <=> m = n)
  <2>1. /\ at[i][k] = IF AtEnds(i) THEN ends[k] - (Count - m) ELSE m
        /\ at[j][k] = IF AtEnds(j) THEN ends[k] - (Count - n) ELSE n
        /\ ends[k] \in Nat /\ Count <= ends[k]
    BY <1>1, <1>2
  <2>2. (AtEnds(i) <=> AtEnds(j)) \/ ends[k] = Count \/ m = Count \/ n = Count
    BY <1>4 DEF SameLengths
  <2> DEFINE p == at[i][k]
             q == at[j][k]
             e == ends[k]
             A == AtEnds(i)
             B == AtEnds(j)
  <2>3. /\ m \in 0 .. Count /\ n \in 0 .. Count /\ Count \in Nat /\ e \in Nat /\ Count <= e
        /\ p = IF A THEN e - (Count - m) ELSE m
        /\ q = IF B THEN e - (Count - n) ELSE n
        /\ m = Count => A
        /\ n = Count => B
        /\ (A <=> B) \/ e = Count \/ m = Count \/ n = Count
    BY <1>1, <1>3, <2>1, <2>2
  <2> HIDE DEF m, n, hard, p, q, e, A, B
  <2>4. (p < q <=> m < n) /\ (p = q <=> m = n)
    BY <2>3
  <2> QED
    BY <2>4 DEF p, q
<1>5. ASSUME alike \/ ends[1] = Count PROVE distance(at[j], at[i]) = n - m
  <2>1. /\ at[i][1] = IF AtEnds(i) THEN ends[1] - (Count - m) ELSE m
        /\ at[j][1] = IF AtEnds(j) THEN ends[1] - (Count - n) ELSE n
        /\ ends[1] \in Nat
    BY <1>1, <1>2
  <2>2. (AtEnds(i) <=> AtEnds(j)) \/ ends[1] = Count
    BY <1>5
  <2> DEFINE A == AtEnds(i)
             B == AtEnds(j)
  <2>3. /\ (A <=> B) \/ ends[1] = Count
        /\ at[i][1] = IF A THEN ends[1] - (Count - m) ELSE m
        /\ at[j][1] = IF B THEN ends[1] - (Count - n) ELSE n
    BY <2>1, <2>2
  <2> HIDE DEF m, n, A, B
  <2> QED
    BY <1>1, <2>1, <2>3 DEF distance
<1>6. ASSUME hard PROVE less(at[i], at[j]) <=> m < n
  <2>1. ASSUME m < n PROVE less(at[i], at[j])
    <3>1. at[i][1] < at[j][1]
      BY <1>1, <1>4, <1>6, <2>1
    <3>2. \A l \in 1 .. 1 - 1 : at[i][l] = at[j][l]
      OBVIOUS
    <3> QED
      BY <1>1, <3>1, <3>2 DEF less
  <2>2. ASSUME less(at[i], at[j]) PROVE m < n
    <3>1. PICK k \in Ranges : at[i][k] < at[j][k]
      BY <2>2 DEF less
    <3> QED
      BY <1>4, <1>6, <3>1
  <2> QED
    BY <2>1, <2>2
<1>7. ASSUME hard PROVE equal(at[i], at[j]) <=> m = n
  <2>1. ASSUME m = n PROVE equal(at[i], at[j])
    BY <1>4, <1>7, <2>1 DEF equal
  <2>2. ASSUME equal(at[i], at[j]) PROVE m = n
    BY <1>1, <1>4, <1>7, <2>2 DEF equal
  <2> QED
    BY <2>1, <2>2
<1> QED
  BY <1>5, <1>6, <1>7

LEMMA SizeIs ==
    ASSUME ZipInv, ends[1] = Count, Count < Half
    PROVE  zip_size = Count
<1>1. /\ ends \in Seq(Nat) \ {<<>>} /\ Count \in Nat /\ 1 \in Ranges
      /\ Half \in Nat /\ Half > 0
  BY Parts, CountIs, ZipAssumption
<1>2. /\ Count \in 0 .. Count /\ 0 \in 0 .. Count /\ FALSE \in BOOLEAN
  BY <1>1
<1>3. zip_begin[1] = 0 /\ zip_end[1] = Count
  <2>1. zip_begin = Place(0, FALSE) /\ zip_end = ends
    BY <1>1, <1>2, BeginIs, PlaceIs, Zenon
  <2>2. Place(0, FALSE)[1] = 0
    <3>1. CASE Count = 0
      BY <1>1, <3>1 DEF Place
    <3>2. CASE Count # 0
      BY <1>1, <3>2 DEF Place
    <3> QED
      BY <3>1, <3>2
  <2> QED
    BY <2>1, <2>2
<1>4. distance(zip_end, zip_begin) = Count /\ ~(Count < 0)
  BY <1>1, <1>3 DEF distance
<1>5. Count % Modulus = Count
  BY <1>1 DEF Modulus
<1> QED
  BY <1>4, <1>5 DEF zip_size, to_unsigned, Unsigned

LEMMA ComparesIs == ZipInv => ComparesAsIndex
  BY ComparesPair, SizeIs DEF ComparesAsIndex

LEMMA WrapsIs ==
    ASSUME NEW a \in 0 .. Top, NEW b \in 0 .. Top
    PROVE  LET d == integral_minus(b, a) IN
           /\ d \in -Half .. Half - 1
           /\ integral_plus(a, d) = b
           /\ a <= b => IF Debug /\ b - a >= Half
                        THEN int_range_size(a, b) = Thrown /\ int_range_at(a, b - a) = Thrown
                        ELSE int_range_size(a, b) = b - a /\ int_range_at(a, b - a) = b
           /\ b - a \in -Half .. Half - 1 => (a < b <=> d > 0)
<1> DEFINE d == integral_minus(b, a)
           M == Modulus
<1>1. /\ Half \in Nat /\ Half > 0 /\ M = 2 * Half /\ M \in Nat /\ M > 0
      /\ a \in Nat /\ b \in Nat /\ a < M /\ b < M /\ Debug \in BOOLEAN
  BY ZipAssumption DEF Modulus, Top
<1> HIDE DEF M
<1>2. (b - a) % M = IF a <= b THEN b - a ELSE b - a + M
  BY <1>1
<1>3. d = LET u == (b - a) % M IN IF u < Half THEN u ELSE u - M
  BY DEF integral_minus, Signed, Unsigned, M
<1>4. /\ d \in Int /\ -Half <= d /\ d <= Half - 1
      /\ d = b - a \/ d = b - a - M \/ d = b - a + M
      /\ a <= b => IF b - a < Half THEN d = b - a ELSE d = b - a - M /\ d < 0
      /\ (b - a \in -Half .. Half - 1) => d = b - a
  BY <1>1, <1>2, <1>3
<1> HIDE DEF d
<1>5. integral_plus(a, d) = b
  <2>1. a + d = b \/ a + d = b - M \/ a + d = b + M
    BY <1>1, <1>4
  <2>2. b % M = b /\ (b - M) % M = b /\ (b + M) % M = b
    BY <1>1
  <2> QED
    BY <2>1, <2>2 DEF integral_plus, Unsigned, M
<1>6. ASSUME a <= b
      PROVE  IF Debug /\ b - a >= Half
             THEN int_range_size(a, b) = Thrown /\ int_range_at(a, b - a) = Thrown
             ELSE int_range_size(a, b) = b - a /\ int_range_at(a, b - a) = b
  <2>1. int_range_size(a, b) = IF Debug /\ d < 0 THEN Thrown ELSE d % M
    BY DEF int_range_size, to_unsigned, Unsigned, M, d
  <2>2. d % M = b - a
    <3>1. (b - a) % M = b - a /\ ((b - a) - M) % M = b - a
      BY <1>1, <1>6
    <3> QED
      BY <1>1, <1>4, <1>6, <3>1
  <2>3. to_signed(b - a) = IF Debug /\ b - a >= Half THEN Thrown
                           ELSE IF b - a < Half THEN b - a ELSE b - a - M
    BY DEF to_signed, Signed, M
  <2>4. (b - a) \in Nat /\ (a + (b - a)) % M = b /\ (a + (b - a - M)) % M = b
    BY <1>1, <1>6
  <2>5. Thrown = -1
    BY DEF Thrown
  <2>6. CASE Debug /\ b - a >= Half
    <3>1. d < 0
      BY <1>1, <1>4, <1>6, <2>6
    <3> QED
      BY <2>1, <2>3, <2>6, <3>1 DEF int_range_at
  <2>7. CASE Debug /\ b - a < Half
    <3>1. ~(d < 0)
      BY <1>1, <1>4, <1>6, <2>4, <2>7
    <3>2. to_signed(b - a) = b - a /\ to_signed(b - a) # Thrown
      BY <1>1, <2>3, <2>4, <2>5, <2>7
    <3> QED
      BY <1>1, <2>1, <2>2, <2>4, <2>7, <3>1, <3>2 DEF int_range_at, integral_plus, Unsigned, M
  <2>8. CASE ~Debug
    <3>1. to_signed(b - a) = b - a \/ to_signed(b - a) = b - a - M
      BY <2>3, <2>8
    <3>2. integral_plus(a, to_signed(b - a)) = b
      BY <2>4, <3>1 DEF integral_plus, Unsigned, M
    <3> QED
      BY <2>1, <2>2, <2>8, <3>2 DEF int_range_at
  <2> QED
    BY <1>1, <2>4, <2>6, <2>7, <2>8
<1>7. b - a \in -Half .. Half - 1 => (a < b <=> d > 0)
  BY <1>1, <1>4
<1>8. d \in -Half .. Half - 1
  BY <1>1, <1>4
<1> QED
  BY <1>5, <1>6, <1>7, <1>8 DEF d

-------------------------------------------------------------------------------
(***************************************************************************)
(* The theorems.                                                           *)
(***************************************************************************)
\* ZipInv is an invariant: every move of a zip_iterator (utils/range-util.hh) leads to
\* the place of its index, and measures it from the ends once it comes from there.
THEOREM ZipInvariance == Spec => []ZipInv
<1>1. Init => ZipInv
  BY InitZipInv
<1>2. ZipInv /\ [Next]_vars => ZipInv'
  BY ForwardStep, BackStep, AssignStep, IntegralStep, StutterStep DEF Next
<1> QED
  BY <1>1, <1>2, PTL DEF Spec

\* No position is ever outside its range, even after the moves back from the end of
\* ranges of different lengths that take an iterator out of step with the others.
THEOREM ZipTyped == Spec => []TypeOK
<1>1. ASSUME ZipInv PROVE TypeOK
  <2>1. ASSUME NEW i \in Iters, NEW k \in Ranges PROVE at[i][k] \in 0 .. ends[k]
    BY <1>1, Parts, PlaceIs DEF ZipInv, InStep
  <2> QED
    BY <1>1, <2>1 DEF ZipInv, StateType, TypeOK
<1> QED
  BY ZipInvariance, <1>1, PTL

\* zip and map_indexed read their ranges in step, and end with the shortest; an
\* iterator that came back from the end keeps the same distance from all the ends.
THEOREM ZipsInStep == Spec => []InStep
<1>1. ZipInv => InStep
  BY DEF ZipInv
<1> QED
  BY ZipInvariance, <1>1, PTL

\* Iterators of a zip compare as the tuples they stand on where they are measured from
\* the same side, and subtract so there and wherever the first range is the shortest.
THEOREM ZipsCompare == Spec => []ComparesAsIndex
  BY ZipInvariance, ComparesIs, PTL

\* Sums and differences of integral_iterators wrap and come back, and a range of
\* integers has the right size and elements, or throws, whatever the width.
THEOREM IntegersWrapBack == Spec => []WrapsBack
<1>1. ASSUME ZipInv PROVE WrapsBack
  <2>1. int[1] \in 0 .. Top /\ int[2] \in 0 .. Top
    BY <1>1 DEF ZipInv, StateType
  <2> QED
    BY <2>1, WrapsIs DEF WrapsBack
<1> QED
  BY ZipInvariance, <1>1, PTL

-------------------------------------------------------------------------------
(***************************************************************************)
(* Adaptors.  An iterator that has not failed is Sound, whatever was done  *)
(* to it and to its copies, one that has is a filter Stopped by a throw    *)
(* before an element it has not been told about; and a loop of std::copy   *)
(* that starts from a sound iterator has, after any number of rounds,      *)
(* listed what lies between it and where it is now.                        *)
(***************************************************************************)
Iterator == [kind : Kinds \cup {"unset"}, pos : 0 .. N,
             value : Positions \cup {NoValue}, fn : Seq(Positions),
             seen : SUBSET Positions, failed : BOOLEAN]

Through(x) == IF x.value = NoValue THEN x.pos ELSE x.pos + 1

SoundMap(x) == x.fn = Run(0, Through(x))
SoundSkip(x) ==
    /\ Increasing(x.fn)
    /\ x.fn # <<>> => x.fn[Len(x.fn)] < Through(x)
    /\ x.value # NoValue => x.fn # <<>> /\ x.fn[Len(x.fn)] = x.pos
SoundFilter(x) ==
    /\ x.value = NoValue
    /\ x.pos \in Accept \cup {N}
    /\ x.seen = {p \in Accept : p <= x.pos}
    /\ x.fn = Run(0, IF x.pos = N THEN N ELSE x.pos + 1)

Sound(x) ==
    /\ x.value \in {NoValue, x.pos}
    /\ x.kind = "map" => SoundMap(x)
    /\ x.kind = "skip" => SoundSkip(x)
    /\ x.kind = "filter" => SoundFilter(x)
    /\ x.kind \in {"ephemeral", "plain"} => x.value = NoValue /\ x.fn = <<>>

Stopped(x) ==
    /\ x.kind = "filter" /\ x.pos < N
    /\ x.seen = {p \in Accept : p < x.pos}
    /\ x.fn = Run(0, x.pos)

AsLeft(x) == (~x.failed => Sound(x)) /\ (x.failed => Stopped(x))

AdaptorsInv == IteratorsTyped /\ \A i \in Iterators : AsLeft(it[i])

\* What the loops start from and go through.
Usable(x) == x \in Iterator /\ x.kind # "unset" /\ ~x.failed /\ Sound(x)

-------------------------------------------------------------------------------
(***************************************************************************)
(* Stretches of positions.                                                 *)
(***************************************************************************)
LEMMA RunIs ==
    ASSUME NEW a \in Nat, NEW b \in Nat, a <= b, NEW S, a .. b - 1 \subseteq S
    PROVE  /\ Run(a, b) \in Seq(S)
           /\ Len(Run(a, b)) = b - a
           /\ DOMAIN Run(a, b) = 1 .. b - a
           /\ \A k \in 1 .. b - a : Run(a, b)[k] = a + k - 1
<1>1. b - a \in Nat
  OBVIOUS
<1>2. Run(a, b) \in [1 .. b - a -> S]
  BY DEF Run
<1>3. Run(a, b) \in Seq(S)
  BY <1>1, <1>2
<1> QED
  BY <1>1, <1>2, <1>3 DEF Run

\* The same, as a sequence of natural numbers.
LEMMA RunOfNat ==
    ASSUME NEW a \in Nat, NEW b \in Nat, a <= b
    PROVE  /\ Run(a, b) \in Seq(Nat) /\ Len(Run(a, b)) = b - a
           /\ \A k \in 1 .. b - a : Run(a, b)[k] = a + k - 1
<1>1. a .. b - 1 \subseteq Nat
  OBVIOUS
<1> QED
  BY <1>1, RunIs

LEMMA RunAppend ==
    ASSUME NEW a \in Nat, NEW b \in Nat, a <= b
    PROVE  Append(Run(a, b), b) = Run(a, b + 1)
<1>1. /\ Run(a, b) \in Seq(Nat) /\ Len(Run(a, b)) = b - a
      /\ \A k \in 1 .. b - a : Run(a, b)[k] = a + k - 1
  BY RunOfNat
<1>2. /\ Run(a, b + 1) \in Seq(Nat) /\ Len(Run(a, b + 1)) = b + 1 - a
      /\ \A k \in 1 .. b + 1 - a : Run(a, b + 1)[k] = a + k - 1
  <2>1. b + 1 \in Nat /\ a <= b + 1
    OBVIOUS
  <2> QED
    BY <2>1, RunOfNat
<1> HIDE DEF Run
<1> DEFINE t == Append(Run(a, b), b)
<1>3. t \in Seq(Nat) /\ Len(t) = Len(Run(a, b + 1))
  BY <1>1, <1>2
<1>4. ASSUME NEW k \in 1 .. Len(t) PROVE t[k] = Run(a, b + 1)[k]
  <2>0. k \in 1 .. b + 1 - a
    BY <1>2, <1>3
  <2>1. CASE k = b + 1 - a
    <3>1. t[Len(Run(a, b)) + 1] = b
      BY <1>1
    <3>2. Len(Run(a, b)) + 1 = k
      BY <1>1, <2>1
    <3>3. Run(a, b + 1)[k] = a + k - 1
      BY <1>2, <2>0
    <3> HIDE DEF t
    <3> QED
      BY <2>1, <3>1, <3>2, <3>3
  <2>2. CASE k \in 1 .. b - a
    <3>1. t[k] = Run(a, b)[k]
      BY <1>1, <2>2
    <3> QED
      BY <1>1, <1>2, <2>2, <3>1
  <2> QED
    BY <2>0, <2>1, <2>2
<1> HIDE DEF t
<1>5. t = Run(a, b + 1)
  BY <1>2, <1>3, <1>4, SeqEqual
<1> QED
  BY <1>5 DEF t

LEMMA RunConcat ==
    ASSUME NEW a \in Nat, NEW b \in Nat, NEW c \in Nat, a <= b, b <= c
    PROVE  Run(a, b) \o Run(b, c) = Run(a, c)
<1>1. /\ Run(a, b) \in Seq(Nat) /\ Len(Run(a, b)) = b - a
      /\ \A k \in 1 .. b - a : Run(a, b)[k] = a + k - 1
  BY RunOfNat
<1>2. /\ Run(b, c) \in Seq(Nat) /\ Len(Run(b, c)) = c - b
      /\ \A k \in 1 .. c - b : Run(b, c)[k] = b + k - 1
  BY RunOfNat
<1>3. /\ Run(a, c) \in Seq(Nat) /\ Len(Run(a, c)) = c - a
      /\ \A k \in 1 .. c - a : Run(a, c)[k] = a + k - 1
  <2>1. a <= c
    OBVIOUS
  <2> QED
    BY <2>1, RunOfNat
<1> DEFINE t == Run(a, b) \o Run(b, c)
<1>4. t \in Seq(Nat) /\ Len(t) = c - a
      /\ \A k \in 1 .. c - a : t[k] = IF k <= b - a THEN Run(a, b)[k]
                                     ELSE Run(b, c)[k - (b - a)]
  <2> HIDE DEF Run
  <2>1. Len(Run(a, b)) + Len(Run(b, c)) = c - a
    BY <1>1, <1>2
  <2>2. /\ t \in Seq(Nat) /\ Len(t) = Len(Run(a, b)) + Len(Run(b, c))
        /\ \A k \in 1 .. Len(Run(a, b)) + Len(Run(b, c)) :
              t[k] = IF k <= Len(Run(a, b)) THEN Run(a, b)[k]
                     ELSE Run(b, c)[k - Len(Run(a, b))]
    BY <1>1, <1>2, ConcatProperties
  <2> QED
    BY <1>1, <1>2, <2>1, <2>2
<1> HIDE DEF t
<1>5. ASSUME NEW k \in 1 .. c - a PROVE t[k] = Run(a, c)[k]
  <2>1. CASE k <= b - a
    BY <1>1, <1>3, <1>4, <2>1
  <2>2. CASE k > b - a
    <3>1. k - (b - a) \in 1 .. c - b
      BY <2>2
    <3>2. t[k] = Run(b, c)[k - (b - a)]
      BY <1>4, <2>2
    <3>3. t[k] = b + (k - (b - a)) - 1
      BY <1>2, <3>1, <3>2
    <3> QED
      BY <1>3, <3>3
  <2> QED
    BY <2>1, <2>2
<1>6. t = Run(a, c)
  BY <1>3, <1>4, <1>5, SeqEqual
<1> QED
  BY <1>6 DEF t

LEMMA IncreasingAppend ==
    ASSUME NEW S \in SUBSET Nat, NEW s \in Seq(S), NEW p \in S,
           Increasing(s), \A k \in DOMAIN s : s[k] < p
    PROVE  /\ Append(s, p) \in Seq(S) /\ Increasing(Append(s, p))
           /\ Range(Append(s, p)) = Range(s) \cup {p}
<1> DEFINE t == Append(s, p)
           n == Len(s)
<1>1. n \in Nat /\ DOMAIN s = 1 .. n /\ \A k \in 1 .. n : s[k] \in S /\ s[k] \in Nat
  <2>1. s \in [1 .. n -> S] /\ n \in Nat
    BY LenProperties
  <2> HIDE DEF n
  <2> QED
    BY <2>1
<1>2. t \in Seq(S) /\ DOMAIN t = 1 .. n + 1 /\ t[n + 1] = p
      /\ \A k \in 1 .. n : t[k] = s[k]
  BY <1>1
<1> HIDE DEF t, n
<1>3. Increasing(t)
  <2>1. SUFFICES ASSUME NEW k \in 1 .. n + 1, NEW m \in 1 .. n + 1, k < m
                 PROVE  t[k] < t[m]
    BY <1>2 DEF Increasing
  <2>2. k \in 1 .. n /\ t[k] = s[k]
    BY <1>1, <1>2, <2>1
  <2>3. CASE m = n + 1
    BY <1>1, <1>2, <2>2, <2>3
  <2>4. CASE m # n + 1
    <3>1. m \in 1 .. n /\ t[m] = s[m]
      BY <1>1, <1>2, <2>4
    <3> QED
      BY <1>1, <2>1, <2>2, <3>1 DEF Increasing
  <2> QED
    BY <2>3, <2>4
<1>4. {t[k] : k \in DOMAIN t} = {s[k] : k \in DOMAIN s} \cup {p}
  <2>1. 1 .. n + 1 = (1 .. n) \cup {n + 1}
    BY <1>1
  <2> QED
    BY <1>1, <1>2, <2>1
<1> QED
  BY <1>2, <1>3, <1>4 DEF t, Range

LEMMA IncreasingPrepend ==
    ASSUME NEW S \in SUBSET Nat, NEW s \in Seq(S), NEW p \in S,
           Increasing(s), \A k \in DOMAIN s : p < s[k]
    PROVE  Increasing(<<p>> \o s) /\ Range(<<p>> \o s) = {p} \cup Range(s)
<1> DEFINE t == <<p>> \o s
           n == Len(s)
<1>1. n \in Nat /\ DOMAIN s = 1 .. n /\ \A k \in 1 .. n : s[k] \in S /\ s[k] \in Nat
  <2>1. s \in [1 .. n -> S] /\ n \in Nat
    BY LenProperties
  <2> HIDE DEF n
  <2> QED
    BY <2>1
<1>2. <<p>> \in Seq(S) /\ Len(<<p>>) = 1 /\ <<p>>[1] = p
  OBVIOUS
<1>3. t \in Seq(S) /\ DOMAIN t = 1 .. n + 1 /\ t[1] = p
      /\ \A k \in 1 .. n : t[k + 1] = s[k]
  <2>1. t \in Seq(S) /\ Len(t) = 1 + n
        /\ \A k \in 1 .. 1 + n : t[k] = IF k <= 1 THEN <<p>>[k] ELSE s[k - 1]
    <3> HIDE DEF n
    <3>1. Len(s) = n
      BY DEF n
    <3> QED
      BY <1>2, <3>1, ConcatProperties
  <2> HIDE DEF t, n
  <2>2. DOMAIN t = 1 .. n + 1
    BY <1>1, <2>1
  <2>3. \A k \in 1 .. n : k + 1 \in 1 .. 1 + n /\ ~(k + 1 <= 1) /\ (k + 1) - 1 = k
    BY <1>1
  <2> QED
    BY <1>1, <1>2, <2>1, <2>2, <2>3
<1> HIDE DEF t, n
<1>4. \A k \in 1 .. n + 1 : k = 1 \/ (k - 1 \in 1 .. n /\ t[k] = s[k - 1])
  <2> TAKE k \in 1 .. n + 1
  <2>1. CASE k # 1
    <3>1. k - 1 \in 1 .. n /\ (k - 1) + 1 = k
      BY <1>1, <2>1
    <3> QED
      BY <1>3, <3>1
  <2> QED
    BY <2>1
<1>5. Increasing(t)
  <2>1. SUFFICES ASSUME NEW k \in 1 .. n + 1, NEW m \in 1 .. n + 1, k < m
                 PROVE  t[k] < t[m]
    BY <1>3 DEF Increasing
  <2>2. m - 1 \in 1 .. n /\ t[m] = s[m - 1]
    BY <1>1, <1>4, <2>1
  <2>3. CASE k = 1
    BY <1>1, <1>3, <2>2, <2>3
  <2>4. CASE k # 1
    <3>1. k - 1 \in 1 .. n /\ t[k] = s[k - 1] /\ k - 1 < m - 1
      BY <1>4, <2>1, <2>4
    <3> QED
      BY <1>1, <2>2, <3>1 DEF Increasing
  <2> QED
    BY <2>3, <2>4
<1>6. Range(t) = {p} \cup Range(s)
  <2>1. ASSUME NEW v \in Range(t) PROVE v \in {p} \cup Range(s)
    <3>1. PICK k \in 1 .. n + 1 : v = t[k]
      BY <1>3, <2>1 DEF Range
    <3>2. CASE k = 1
      BY <1>3, <3>1, <3>2
    <3>3. CASE k # 1
      <4>1. k - 1 \in DOMAIN s /\ v = s[k - 1]
        BY <1>1, <1>4, <3>1, <3>3
      <4> QED
        BY <4>1 DEF Range
    <3> QED
      BY <3>2, <3>3
  <2>2. ASSUME NEW v \in Range(s) PROVE v \in Range(t)
    <3>1. PICK k \in 1 .. n : v = s[k]
      BY <1>1, <2>2 DEF Range
    <3>2. k + 1 \in DOMAIN t /\ v = t[k + 1]
      BY <1>1, <1>3, <3>1
    <3> QED
      BY <3>2 DEF Range
  <2>3. p \in Range(t)
    <3>1. 1 \in DOMAIN t
      BY <1>1, <1>3
    <3> QED
      BY <1>3, <3>1 DEF Range
  <2> QED
    BY <2>1, <2>2, <2>3
<1> QED
  BY <1>5, <1>6 DEF t

-------------------------------------------------------------------------------
(***************************************************************************)
(* The operations of one iterator.                                         *)
(***************************************************************************)
LEMMA Bounds ==
    /\ N \in Nat /\ Positions = 0 .. N - 1 /\ Accept \subseteq Positions
    /\ NoValue \in Int /\ NoValue \notin Nat
  BY AdaptorsAssumption DEF Positions, NoValue

LEMMA UnsetTyped == Unset \in Iterator
<1>1. N \in Nat
  BY Bounds
<1> QED
  BY <1>1 DEF Unset, Iterator

LEMMA FieldsTyped ==
    ASSUME NEW x \in Iterator
    PROVE  /\ x.kind \in Kinds \cup {"unset"} /\ x.pos \in 0 .. N /\ x.pos \in Nat
           /\ x.value \in Positions \cup {NoValue} /\ x.fn \in Seq(Positions)
           /\ x.seen \in SUBSET Positions /\ x.failed \in BOOLEAN
  BY DEF Iterator

\* Skipping ends at the next accepted element, or at the end.
LEMMA SkipIs ==
    ASSUME NEW x \in Iterator
    PROVE  \E q \in x.pos .. N :
              /\ q \in Accept \cup {N} /\ (x.pos .. q - 1) \cap Accept = {}
              /\ forward_skip(x) =
                    [x EXCEPT !.pos = q,
                              !.fn = @ \o Run(x.pos, IF q = N THEN N ELSE q + 1),
                              !.seen = @ \cup ({q} \ {N})]
<1> DEFINE Stops(q) == q \in Accept \cup {N} /\ (x.pos .. q - 1) \cap Accept = {}
           stop == CHOOSE q \in x.pos .. N : Stops(q)
           Ends == {q \in x.pos .. N : q \in Accept \cup {N}}
<1>1. N \in Nat /\ x.pos \in 0 .. N /\ x.pos \in Nat
  BY Bounds, FieldsTyped
<1>2. PICK q \in Ends : \A r \in Ends : q <= r
  <2>1. Ends \in SUBSET Nat /\ N \in Ends
    BY <1>1
  <2> HIDE DEF Ends
  <2> QED
    BY <2>1, Least
<1>3. q \in x.pos .. N /\ Stops(q)
  <2>1. ASSUME NEW p \in x.pos .. q - 1, p \in Accept PROVE FALSE
    <3>1. p \in x.pos .. N /\ p < q
      BY <1>1, <1>2
    <3>2. p \in Ends
      BY <2>1, <3>1
    <3> QED
      BY <1>1, <1>2, <3>1, <3>2
  <2> QED
    BY <1>2, <2>1
<1>4. stop \in x.pos .. N /\ Stops(stop)
  <2> HIDE DEF Stops
  <2> QED
    BY <1>3
<1>5. forward_skip(x) =
        [x EXCEPT !.pos = stop,
                  !.fn = @ \o Run(x.pos, IF stop = N THEN N ELSE stop + 1),
                  !.seen = @ \cup ({stop} \ {N})]
  BY Zenon DEF forward_skip
<1> HIDE DEF stop
<1> QED
  BY <1>4, <1>5

LEMMA SkipSound ==
    ASSUME NEW x \in Iterator, x.value = NoValue, x.fn = Run(0, x.pos),
           x.seen = {p \in Accept : p < x.pos}
    PROVE  LET y == forward_skip(x)
           IN  /\ y \in Iterator /\ y.kind = x.kind /\ y.failed = x.failed
               /\ y.pos >= x.pos /\ (x.pos .. y.pos - 1) \cap Accept = {}
               /\ SoundFilter(y)
<1> DEFINE y == forward_skip(x)
<1>1. PICK q \in x.pos .. N :
              /\ q \in Accept \cup {N} /\ (x.pos .. q - 1) \cap Accept = {}
              /\ y = [x EXCEPT !.pos = q,
                               !.fn = @ \o Run(x.pos, IF q = N THEN N ELSE q + 1),
                               !.seen = @ \cup ({q} \ {N})]
  BY SkipIs
<1>2. /\ N \in Nat /\ Positions = 0 .. N - 1 /\ Accept \subseteq Positions
      /\ x.pos \in 0 .. N /\ x.pos \in Nat /\ x.seen \in SUBSET Positions
  BY Bounds, FieldsTyped
<1> DEFINE e == IF q = N THEN N ELSE q + 1
<1>3. e \in 0 .. N /\ e \in Nat /\ x.pos <= e /\ q \in Nat /\ q <= N /\ x.pos <= q
      /\ (q # N => e = q + 1) /\ (q = N => e = N)
  BY <1>1, <1>2
<1>4. Run(0, x.pos) \o Run(x.pos, e) = Run(0, e)
  <2> HIDE DEF e
  <2>1. 0 \in Nat /\ 0 <= x.pos
    BY <1>2
  <2> QED
    BY <1>2, <1>3, <2>1, RunConcat
<1>5. /\ y.kind = x.kind /\ y.failed = x.failed /\ y.value = x.value /\ y.pos = q
      /\ y.fn = Run(0, e) /\ y.seen = x.seen \cup ({q} \ {N})
  BY <1>1, <1>4 DEF Iterator
<1>6. Run(0, e) \in Seq(Positions)
  <2> HIDE DEF e
  <2>1. 0 .. e - 1 \subseteq Positions
    BY <1>2, <1>3
  <2> QED
    BY <1>3, <2>1, RunIs
<1>7. {q} \ {N} \subseteq Positions
  BY <1>1, <1>2
<1>8. y \in Iterator
  <2> HIDE DEF e
  <2>1. y = [kind |-> x.kind, pos |-> q, value |-> x.value, fn |-> Run(0, e),
             seen |-> x.seen \cup ({q} \ {N}), failed |-> x.failed]
    BY <1>1, <1>4 DEF Iterator, e
  <2> QED
    BY <1>2, <1>3, <1>6, <1>7, <2>1, FieldsTyped DEF Iterator
<1> HIDE DEF y
<1>9. y.seen = {p \in Accept : p <= q}
  <2>1. ASSUME NEW p \in Accept, p <= q PROVE p < x.pos \/ p = q
    BY <1>1, <1>2, <1>3, <2>1
  <2>2. ASSUME NEW p \in Accept, p < x.pos PROVE p <= q
    BY <1>2, <1>3, <2>2
  <2>3. {p \in Accept : p <= q} = {p \in Accept : p < x.pos} \cup ({q} \ {N})
    <3>1. q \in Accept => q # N
      BY <1>2
    <3> QED
      BY <1>1, <1>3, <2>1, <2>2, <3>1
  <2> QED
    BY <1>5, <2>3
<1>10. SoundFilter(y)
  BY <1>1, <1>5, <1>9 DEF SoundFilter
<1> QED
  BY <1>1, <1>3, <1>5, <1>8, <1>10 DEF y

\* Reading: the value is that of the element the iterator stands on.
LEMMA ReadUsable ==
    ASSUME NEW x, Usable(x), x.pos < N
    PROVE  /\ Usable(Read(x)) /\ Read(x).kind = x.kind /\ Read(x).pos = x.pos
           /\ x.kind \in {"map", "skip"} => Read(x).value = x.pos
           /\ x.kind \notin {"map", "skip"} => Read(x) = x
           /\ Given(x) = x.pos
<1>1. /\ x \in Iterator /\ x.kind # "unset" /\ ~x.failed /\ Sound(x)
      /\ N \in Nat /\ Positions = 0 .. N - 1 /\ x.pos \in Nat /\ x.pos \in Positions
      /\ x.value \in {NoValue, x.pos} /\ x.fn \in Seq(Positions) /\ NoValue # x.pos
  <2>1. x \in Iterator /\ x.kind # "unset" /\ ~x.failed /\ Sound(x)
    BY DEF Usable
  <2> QED
    BY <2>1, Bounds, FieldsTyped DEF Sound
<1>2. CASE x.kind \notin {"map", "skip"}
  BY <1>1, <1>2 DEF Read, Given, Usable
<1>3. CASE x.kind \in {"map", "skip"} /\ x.value # NoValue
  BY <1>1, <1>3 DEF Read, Given, Usable, deref
<1>4. CASE x.kind \in {"map", "skip"} /\ x.value = NoValue
  <2> DEFINE y == [x EXCEPT !.value = x.pos, !.fn = Append(@, x.pos)]
  <2>1. Read(x) = y
    BY <1>4 DEF Read, deref
  <2>2. /\ y.kind = x.kind /\ y.pos = x.pos /\ y.value = x.pos /\ y.failed = x.failed
        /\ y.fn = Append(x.fn, x.pos)
    BY <1>1 DEF Iterator
  <2>3. Append(x.fn, x.pos) \in Seq(Positions)
    BY <1>1
  <2>4. y \in Iterator
    BY <1>1, <2>3 DEF Iterator
  <2> HIDE DEF y
  <2>5. x.kind = "map" => SoundMap(y)
    <3>1. SUFFICES ASSUME x.kind = "map" PROVE SoundMap(y)
      OBVIOUS
    <3>2. x.fn = Run(0, x.pos)
      BY <1>1, <1>4, <3>1 DEF Sound, SoundMap, Through
    <3>3. Append(Run(0, x.pos), x.pos) = Run(0, x.pos + 1)
      <4>1. 0 \in Nat /\ 0 <= x.pos
        BY <1>1
      <4> QED
        BY <1>1, <4>1, RunAppend
    <3> QED
      BY <1>1, <2>2, <3>2, <3>3 DEF SoundMap, Through
  <2>6. x.kind = "skip" => SoundSkip(y)
    <3>1. SUFFICES ASSUME x.kind = "skip" PROVE SoundSkip(y)
      OBVIOUS
    <3>2. SoundSkip(x) /\ Through(x) = x.pos
      BY <1>1, <1>4, <3>1 DEF Sound, Through
    <3> DEFINE n == Len(x.fn)
    <3>3. /\ n \in Nat /\ DOMAIN x.fn = 1 .. n /\ \A k \in 1 .. n : x.fn[k] \in Nat
          /\ Positions \in SUBSET Nat
      <4>1. x.fn \in [1 .. n -> Positions] /\ n \in Nat
        BY <1>1, LenProperties
      <4> QED
        BY <1>1, <4>1
    <3>4. \A k \in 1 .. n : x.fn[k] < x.pos
      <4> TAKE k \in 1 .. n
      <4>1. n \in 1 .. n /\ x.fn # <<>>
        BY <3>3
      <4>2. x.fn[n] < x.pos
        BY <3>2, <4>1 DEF SoundSkip
      <4>3. k = n \/ x.fn[k] < x.fn[n]
        BY <3>2, <3>3, <4>1 DEF SoundSkip, Increasing
      <4> QED
        BY <1>1, <3>3, <4>1, <4>2, <4>3
    <3>5. Increasing(Append(x.fn, x.pos))
      <4>1. Increasing(x.fn) /\ \A k \in DOMAIN x.fn : x.fn[k] < x.pos
        BY <3>2, <3>3, <3>4 DEF SoundSkip
      <4> QED
        BY <1>1, <3>3, <4>1, IncreasingAppend
    <3>6. y.fn # <<>> /\ y.fn[Len(y.fn)] = x.pos
      BY <1>1, <2>2
    <3> QED
      BY <1>1, <2>2, <3>5, <3>6 DEF SoundSkip, Through
  <2>7. Sound(y)
    BY <1>4, <2>2, <2>5, <2>6 DEF Sound
  <2> QED
    BY <1>1, <1>4, <2>1, <2>2, <2>4, <2>7 DEF Usable, Given
<1> QED
  BY <1>1, <1>2, <1>3, <1>4

\* Advancing: to the next element that is to be given, with nothing left out.
Advanced(x, y) ==
    /\ Usable(y) /\ y.kind = x.kind /\ x.pos < y.pos
    /\ x.pos \in Left(x) /\ Left(y) = Left(x) \ {x.pos}
    /\ \A p \in Left(y) : x.pos < p

LEMMA NextLeft ==
    ASSUME NEW x \in Iterator, NEW y \in Iterator, x.pos < N, y.kind = x.kind,
           x.kind = "filter" => x.pos \in Accept /\ x.pos < y.pos
                                 /\ (x.pos + 1 .. y.pos - 1) \cap Accept = {},
           x.kind # "filter" => y.pos = x.pos + 1
    PROVE  /\ x.pos \in Left(x) /\ Left(y) = Left(x) \ {x.pos}
           /\ \A p \in Left(y) : x.pos < p
<1>1. N \in Nat /\ x.pos \in Nat /\ y.pos \in Nat /\ x.pos < y.pos
  BY Bounds, FieldsTyped
<1>2. x.pos \in Left(x) /\ \A p \in Left(y) : x.pos < p
  BY <1>1 DEF Left
<1>3. ASSUME NEW p \in Left(y) PROVE p \in Left(x) \ {x.pos}
  BY <1>1, <1>3 DEF Left
<1>4. ASSUME NEW p \in Left(x), p # x.pos PROVE p \in Left(y)
  <2>1. p \in x.pos + 1 .. N - 1 /\ p \in Int /\ (x.kind = "filter" => p \in Accept)
    BY <1>1, <1>4 DEF Left
  <2>2. p >= y.pos
    <3>1. CASE x.kind = "filter"
      <4>1. p \notin x.pos + 1 .. y.pos - 1
        BY <2>1, <3>1
      <4> QED
        BY <1>1, <2>1, <4>1
    <3>2. CASE x.kind # "filter"
      BY <1>1, <2>1, <3>2
    <3> QED
      BY <3>1, <3>2
  <2> QED
    BY <1>1, <2>1, <2>2 DEF Left
<1> QED
  BY <1>2, <1>3, <1>4

LEMMA AdvanceFilter ==
    ASSUME NEW x, Usable(x), x.pos < N, x.kind = "filter"
    PROVE  Advanced(x, Advance(x))
<1> DEFINE x1 == [x EXCEPT !.pos = @ + 1]
           y == forward_skip(x1)
<1>1. /\ x \in Iterator /\ ~x.failed /\ SoundFilter(x)
      /\ N \in Nat /\ Positions = 0 .. N - 1 /\ Accept \subseteq Positions /\ x.pos \in Nat
  <2>1. x \in Iterator /\ ~x.failed /\ SoundFilter(x)
    BY DEF Usable, Sound
  <2> QED
    BY <2>1, Bounds, FieldsTyped
<1>2. x.value = NoValue /\ x.pos \in Accept /\ x.fn = Run(0, x.pos + 1)
      /\ x.seen = {p \in Accept : p <= x.pos}
  BY <1>1 DEF SoundFilter
<1>3. /\ x1 \in Iterator /\ x1.kind = x.kind /\ x1.failed = x.failed /\ x1.pos = x.pos + 1
      /\ x1.value = x.value /\ x1.fn = x.fn /\ x1.seen = x.seen
  <2>1. x.pos + 1 \in 0 .. N
    BY <1>1
  <2>2. x1 = [kind |-> x.kind, pos |-> x.pos + 1, value |-> x.value, fn |-> x.fn,
              seen |-> x.seen, failed |-> x.failed]
    BY <1>1 DEF Iterator
  <2> HIDE DEF x1
  <2> QED
    BY <1>1, <2>1, <2>2, FieldsTyped DEF Iterator
<1>4. Advance(x) = y
  BY DEF Advance, filter_increment
<1> HIDE DEF x1
<1>5. x1.seen = {p \in Accept : p < x1.pos}
  <2>1. \A p \in Accept : p <= x.pos <=> p < x.pos + 1
    BY <1>1
  <2>2. x1.seen = {p \in Accept : p < x.pos + 1}
    BY <1>2, <1>3, <2>1
  <2> QED
    BY <1>3, <2>2
<1>6. /\ y \in Iterator /\ y.kind = x1.kind /\ y.failed = x1.failed
      /\ y.pos >= x1.pos /\ (x1.pos .. y.pos - 1) \cap Accept = {}
      /\ SoundFilter(y)
  BY <1>2, <1>3, <1>5, SkipSound
<1> HIDE DEF y
<1>7. Usable(y)
  BY <1>1, <1>3, <1>6 DEF Usable, Sound, SoundFilter
<1>8. y.pos \in Nat /\ x.pos < y.pos
  BY <1>1, <1>3, <1>6, FieldsTyped
<1>9. /\ x.pos \in Left(x) /\ Left(y) = Left(x) \ {x.pos}
      /\ \A p \in Left(y) : x.pos < p
  <2>1. (x.pos + 1 .. y.pos - 1) \cap Accept = {} /\ y.kind = x.kind
    BY <1>3, <1>6
  <2> QED
    BY <1>1, <1>2, <1>6, <1>8, <2>1, NextLeft
<1> QED
  BY <1>3, <1>4, <1>6, <1>7, <1>8, <1>9 DEF Advanced

LEMMA AdvanceOthers ==
    ASSUME NEW x, Usable(x), x.pos < N, x.kind # "filter"
    PROVE  Advanced(x, Advance(x))
<1>1. /\ x \in Iterator /\ x.kind # "unset" /\ ~x.failed /\ Sound(x)
      /\ N \in Nat /\ Positions = 0 .. N - 1 /\ x.pos \in Nat /\ NoValue \in Int
      /\ x.value \in {NoValue, x.pos}
      /\ x.kind \in {"map", "skip", "ephemeral", "plain"}
  <2>1. x \in Iterator /\ x.kind # "unset" /\ ~x.failed /\ Sound(x)
    BY DEF Usable
  <2> QED
    BY <2>1, Bounds, FieldsTyped, AdaptorsAssumption DEF Sound
<1> DEFINE z == IF x.kind = "map" THEN Read(x) ELSE x
           y == [z EXCEPT !.value = NoValue, !.pos = @ + 1]
<1>2. /\ z \in Iterator /\ z.kind = x.kind /\ z.pos = x.pos /\ ~z.failed /\ Sound(z)
      /\ (x.kind = "map" => z.value = x.pos)
  BY <1>1, ReadUsable DEF Usable
<1>3. Advance(x) = y
  <2>1. CASE x.kind = "map"
    BY <2>1 DEF Advance, increment, Read
  <2>2. CASE x.kind = "skip"
    BY <2>2 DEF Advance, increment
  <2>3. CASE x.kind \in {"ephemeral", "plain"}
    <3>1. y = [x EXCEPT !.pos = @ + 1]
      <4>1. x.value = NoValue
        BY <1>1, <2>3 DEF Sound
      <4> QED
        BY <1>1, <2>3, <4>1 DEF Iterator
    <3> QED
      BY <2>3, <3>1 DEF Advance, ephemeral_advance
  <2> QED
    BY <1>1, <2>1, <2>2, <2>3
<1> HIDE DEF z
<1>4. /\ y \in Iterator /\ y.kind = x.kind /\ y.pos = x.pos + 1 /\ y.value = NoValue
      /\ ~y.failed /\ y.fn = z.fn
  <2>1. x.pos + 1 \in 0 .. N
    BY <1>1
  <2>2. z \in Iterator /\ z.pos = x.pos
    BY <1>2
  <2>3. /\ y.kind = z.kind /\ y.pos = z.pos + 1 /\ y.value = NoValue /\ y.failed = z.failed
        /\ y.fn = z.fn
    BY <2>2 DEF Iterator
  <2>4. y \in Iterator
    BY <2>1, <2>2 DEF Iterator
  <2> HIDE DEF y
  <2> QED
    BY <1>2, <2>2, <2>3, <2>4
<1> HIDE DEF y
<1>5. y.kind = "map" => SoundMap(y)
  <2>1. SUFFICES ASSUME x.kind = "map" PROVE SoundMap(y)
    BY <1>4
  <2>2. z.fn = Run(0, x.pos + 1)
    <3>1. SoundMap(z) /\ z.value # NoValue
      BY <1>1, <1>2, <2>1, Bounds DEF Sound
    <3> QED
      BY <1>2, <3>1 DEF SoundMap, Through
  <2> QED
    BY <1>4, <2>2 DEF SoundMap, Through
<1>6. y.kind = "skip" => SoundSkip(y)
  <2>1. SUFFICES ASSUME x.kind = "skip" PROVE SoundSkip(y)
    BY <1>4
  <2>2. z = x /\ SoundSkip(x)
    BY <1>1, <2>1 DEF z, Sound
  <2>3. x.fn # <<>> => x.fn[Len(x.fn)] < x.pos + 1
    <3>1. SUFFICES ASSUME x.fn # <<>> PROVE x.fn[Len(x.fn)] < x.pos + 1
      OBVIOUS
    <3>2. x.fn[Len(x.fn)] \in Nat
      <4>1. x.fn \in Seq(Positions)
        BY <1>1, FieldsTyped
      <4> QED
        BY <1>1, <3>1, <4>1
    <3>3. x.fn[Len(x.fn)] < Through(x) /\ Through(x) \in {x.pos, x.pos + 1}
      BY <2>2, <3>1 DEF SoundSkip, Through
    <3> QED
      BY <1>1, <3>2, <3>3
  <2> QED
    BY <1>4, <2>2, <2>3 DEF SoundSkip, Through
<1>7. y.kind \in {"ephemeral", "plain"} => y.value = NoValue /\ y.fn = <<>>
  BY <1>1, <1>4 DEF Sound, z
<1>8. Usable(y)
  BY <1>1, <1>4, <1>5, <1>6, <1>7 DEF Usable, Sound
<1>9. /\ x.pos \in Left(x) /\ Left(y) = Left(x) \ {x.pos}
      /\ \A p \in Left(y) : x.pos < p
  BY <1>1, <1>4, NextLeft
<1> QED
  BY <1>1, <1>3, <1>4, <1>8, <1>9 DEF Advanced

LEMMA AdvanceUsable ==
    ASSUME NEW x, Usable(x), x.pos < N
    PROVE  Advanced(x, Advance(x))
  BY AdvanceFilter, AdvanceOthers

-------------------------------------------------------------------------------
(***************************************************************************)
(* The loops.  After n rounds from x, the loop has listed what x had to    *)
(* give before the place where it is now, and has come n elements far, or  *)
(* to the end.                                                             *)
(***************************************************************************)
LoopStates == {s \in [got : Seq(Positions), last : Iterator] : Usable(s.last)}

Done(x, s, n) ==
    /\ s \in LoopStates /\ s.last.kind = x.kind
    /\ s.last.pos = N \/ n <= s.last.pos
    /\ Left(s.last) \subseteq Left(x)
    /\ Lists(s.got, Left(x) \ Left(s.last))
    /\ \A k \in DOMAIN s.got : s.got[k] < s.last.pos

\* One round gives the element the iterator stands on, and advances it.
LEMMA RoundIs ==
    ASSUME NEW s \in LoopStates, s.last.pos < N
    PROVE  /\ Round(s).got = Append(s.got, s.last.pos)
           /\ Advanced(s.last, Round(s).last)
           /\ Round(s) \in LoopStates
<1> DEFINE x == s.last
           z == Read(x)
<1>1. Usable(x) /\ s.got \in Seq(Positions) /\ x \in Iterator
  BY DEF LoopStates, Usable
<1>2. /\ Usable(z) /\ z.kind = x.kind /\ z.pos = x.pos /\ Given(x) = x.pos
  BY <1>1, ReadUsable
<1>3. Advanced(z, Advance(z))
  BY <1>2, AdvanceUsable
<1>4. Advanced(x, Advance(z))
  <2>1. Left(z) = Left(x)
    BY <1>2 DEF Left
  <2> HIDE DEF z, x
  <2> QED
    BY <1>2, <1>3, <2>1 DEF Advanced
<1>5. N \in Nat /\ x.pos \in 0 .. N /\ x.pos # N
  BY <1>1, Bounds, FieldsTyped
<1>6. Round(s) = [got |-> Append(s.got, x.pos), last |-> Advance(z)]
  BY <1>2, <1>5 DEF Round
<1>7. Append(s.got, x.pos) \in Seq(Positions)
  BY <1>1, <1>5 DEF Positions
<1>8. Advance(z) \in Iterator /\ Usable(Advance(z))
  BY <1>4 DEF Advanced, Usable
<1> HIDE DEF z, x
<1>9. Round(s) \in LoopStates
  BY <1>6, <1>7, <1>8 DEF LoopStates
<1> QED
  BY <1>4, <1>6, <1>9 DEF x

LEMMA RoundDone ==
    ASSUME NEW x, Usable(x), NEW n \in Nat, NEW s, Done(x, s, n)
    PROVE  Done(x, Round(s), n + 1)
<1>1. /\ s \in LoopStates /\ Usable(s.last) /\ s.last \in Iterator
      /\ s.got \in Seq(Positions) /\ s.last.kind = x.kind
  BY DEF Done, LoopStates, Usable
<1>2. N \in Nat /\ s.last.pos \in 0 .. N /\ s.last.pos \in Nat /\ Positions \in SUBSET Nat
  BY <1>1, Bounds, FieldsTyped
<1>3. CASE s.last.pos = N
  BY <1>3 DEF Done, Round
<1>4. CASE s.last.pos # N
  <2> DEFINE y == Round(s).last
             p == s.last.pos
             t == Round(s).got
  <2>1. s.last.pos < N
    BY <1>2, <1>4
  <2>2. t = Append(s.got, p) /\ Advanced(s.last, y) /\ Round(s) \in LoopStates
    BY <1>1, <2>1, RoundIs
  <2>3. /\ Usable(y) /\ y.kind = x.kind /\ p < y.pos /\ p \in Left(s.last)
        /\ Left(y) = Left(s.last) \ {p} /\ y \in Iterator
    BY <1>1, <2>2 DEF Advanced, Usable
  <2>4. y.pos \in Nat /\ p \in Positions
    BY <1>2, <2>1, <2>3, FieldsTyped DEF Positions
  <2>5. /\ Left(s.last) \subseteq Left(x) /\ Increasing(s.got)
        /\ Range(s.got) = Left(x) \ Left(s.last)
        /\ \A k \in DOMAIN s.got : s.got[k] < p
        /\ n <= p
    BY <1>4 DEF Done, Lists
  <2> HIDE DEF y, p, t
  <2>6. /\ t \in Seq(Positions) /\ Increasing(t)
        /\ Range(t) = Range(s.got) \cup {p}
    <3>1. Append(s.got, p) = t
      BY <2>2
    <3>2. /\ Append(s.got, p) \in Seq(Positions) /\ Increasing(Append(s.got, p))
          /\ Range(Append(s.got, p)) = Range(s.got) \cup {p}
      BY <1>1, <1>2, <2>4, <2>5, IncreasingAppend
    <3> QED
      BY <3>1, <3>2
  <2>7. Lists(t, Left(x) \ Left(y))
    <3>1. Range(t) = Left(x) \ Left(y)
      BY <2>3, <2>5, <2>6
    <3> QED
      BY <2>6, <3>1 DEF Lists
  <2>8. ASSUME NEW k \in DOMAIN t PROVE t[k] < y.pos
    <3>1. t[k] \in Range(s.got) \cup {p}
      <4>1. t[k] \in Range(t)
        BY DEF Range
      <4> QED
        BY <2>6, <4>1
    <3>2. CASE t[k] = p
      BY <2>3, <3>2
    <3>3. CASE t[k] # p
      <4>1. PICK m \in DOMAIN s.got : t[k] = s.got[m]
        BY <3>1, <3>3 DEF Range
      <4>2. s.got[m] < p /\ s.got[m] \in Nat
        <5>1. s.got \in [1 .. Len(s.got) -> Positions] /\ DOMAIN s.got = 1 .. Len(s.got)
          BY <1>1, LenProperties
        <5> QED
          BY <1>2, <2>5, <5>1
      <4> QED
        <5>1. p \in Nat /\ p < y.pos /\ y.pos \in Nat
          BY <1>2, <2>3, <2>4
        <5> QED
          BY <4>1, <4>2, <5>1
    <3> QED
      BY <3>2, <3>3
  <2>9. n + 1 <= y.pos /\ Left(y) \subseteq Left(x)
    BY <2>3, <2>4, <2>5, <1>2 DEF p
  <2> QED
    BY <2>2, <2>3, <2>7, <2>8, <2>9 DEF Done, y, t
<1> QED
  BY <1>3, <1>4

\* The recursive function that Loop is defined by exists.
LEMMA LoopUnfolds ==
    ASSUME NEW x, Usable(x)
    PROVE  \E r : /\ r[0] = [got |-> <<>>, last |-> x]
                 /\ \A n \in Nat : r[n + 1] = Round(r[n])
                 /\ Loop(x) = r[N]
<1> DEFINE a == [got |-> <<>>, last |-> x]
           f == [s \in LoopStates |-> Round(s)]
           Body(g) == [n \in Nat |-> IF n = 0 THEN a ELSE Round(g[n - 1])]
           after == CHOOSE g : g = Body(g)
<1>1. a \in LoopStates
  BY DEF LoopStates, Usable
<1>2. f \in [LoopStates -> LoopStates]
  <2>1. ASSUME NEW s \in LoopStates PROVE Round(s) \in LoopStates
    <3>1. N \in Nat /\ s.last.pos \in 0 .. N
      BY Bounds, FieldsTyped DEF LoopStates
    <3>2. CASE s.last.pos = N
      BY <3>2 DEF Round
    <3>3. CASE s.last.pos < N
      BY <3>3, RoundIs
    <3> QED
      BY <3>1, <3>2, <3>3
  <2> QED
    BY <2>1
<1>3. PICK r \in [Nat -> LoopStates] : r[0] = a /\ \A n \in Nat : r[n + 1] = f[r[n]]
  <2> HIDE DEF a, f
  <2>1. Maps(f, LoopStates)
    BY <1>2 DEF Maps
  <2>2. \E r : Iterates(r, LoopStates, f, a)
    BY <1>1, <2>1, Iterated
  <2> QED
    BY <2>2 DEF Iterates
<1>4. r = Body(r)
  <2>1. ASSUME NEW n \in Nat PROVE r[n] = IF n = 0 THEN a ELSE Round(r[n - 1])
    <3>1. CASE n = 0
      BY <1>3, <3>1
    <3>2. CASE n # 0
      <4>1. n - 1 \in Nat /\ (n - 1) + 1 = n
        BY <3>2
      <4>2. r[(n - 1) + 1] = f[r[n - 1]] /\ r[n - 1] \in LoopStates
        BY <1>3, <4>1
      <4> HIDE DEF a
      <4> QED
        BY <3>2, <4>1, <4>2
    <3> QED
      BY <3>1, <3>2
  <2> HIDE DEF a
  <2> QED
    BY <1>3, <2>1
<1>5. after = Body(after)
  <2> HIDE DEF Body
  <2> QED
    BY <1>4
<1>6. Loop(x) = after[N]
  BY Zenon DEF Loop
<1> HIDE DEF after
<1>7. after[0] = a
  BY <1>5
<1>8. ASSUME NEW n \in Nat PROVE after[n + 1] = Round(after[n])
  <2>1. n + 1 \in Nat /\ n + 1 # 0 /\ (n + 1) - 1 = n
    OBVIOUS
  <2> HIDE DEF a
  <2> QED
    BY <1>5, <2>1
<1> QED
  BY <1>6, <1>7, <1>8

\* A loop over what is left lists it, and ends with a sound iterator.
LEMMA LoopLists ==
    ASSUME NEW x, Usable(x)
    PROVE  /\ Loop(x).got \in Seq(Positions) /\ Lists(Loop(x).got, Left(x))
           /\ Usable(Loop(x).last) /\ Loop(x).last.kind = x.kind /\ Loop(x).last.pos = N
<1>1. PICK r : /\ r[0] = [got |-> <<>>, last |-> x]
               /\ \A n \in Nat : r[n + 1] = Round(r[n])
               /\ Loop(x) = r[N]
  BY LoopUnfolds
<1>2. x \in Iterator /\ N \in Nat /\ x.pos \in Nat
  BY Bounds, FieldsTyped DEF Usable
<1> DEFINE Holds == {n \in Nat : Done(x, r[n], n)}
<1>3. 0 \in Holds
  <2> DEFINE a == [got |-> <<>>, last |-> x]
  <2>1. a \in LoopStates /\ a.last = x /\ a.got = <<>>
    BY <1>2 DEF LoopStates
  <2>2. Increasing(<<>>) /\ Range(<<>>) = {} /\ DOMAIN <<>> = {}
    BY DEF Increasing, Range
  <2> HIDE DEF a
  <2>3. Done(x, a, 0)
    BY <1>2, <2>1, <2>2 DEF Done, Lists
  <2> QED
    BY <1>1, <2>3 DEF a
<1>4. ASSUME NEW n \in Holds PROVE n + 1 \in Holds
  <2>1. n \in Nat /\ Done(x, r[n], n) /\ n + 1 \in Nat
    OBVIOUS
  <2>2. Done(x, Round(r[n]), n + 1)
    BY <2>1, RoundDone
  <2> QED
    BY <1>1, <2>1, <2>2
<1>5. N \in Holds
  <2>1. Holds \in SUBSET Nat
    OBVIOUS
  <2> HIDE DEF Holds
  <2>2. Holds = Nat
    BY <1>3, <1>4, <2>1, AllOf
  <2> QED
    BY <1>2, <2>2
<1> DEFINE s == Loop(x)
<1>6. Done(x, s, N)
  BY <1>1, <1>5
<1> HIDE DEF s
<1>7. /\ Usable(s.last) /\ s.last \in Iterator /\ s.got \in Seq(Positions)
      /\ s.last.kind = x.kind
  BY <1>6 DEF Done, LoopStates, Usable
<1>8. s.last.pos = N
  <2>1. s.last.pos \in 0 .. N
    BY <1>7, FieldsTyped
  <2> QED
    BY <1>2, <1>6, <2>1 DEF Done
<1>9. Left(s.last) = {}
  BY <1>2, <1>8 DEF Left
<1>10. Lists(s.got, Left(x))
  <2>1. Left(x) \ Left(s.last) = Left(x)
    BY <1>9
  <2>2. Lists(s.got, Left(x) \ Left(s.last))
    BY <1>6 DEF Done
  <2> QED
    BY <2>1, <2>2
<1> QED
  BY <1>7, <1>8, <1>10 DEF s

-------------------------------------------------------------------------------
(***************************************************************************)
(* The program's steps.                                                    *)
(***************************************************************************)
LEMMA BeginUsable ==
    ASSUME NEW k \in Kinds
    PROVE  Usable(Begin(k)) /\ Begin(k).kind = k
<1>1. /\ k \in {"map", "skip", "ephemeral", "filter", "plain"} /\ N \in Nat
      /\ Accept \subseteq 0 .. N - 1
  BY AdaptorsAssumption
<1> DEFINE x == [Unset EXCEPT !.kind = k]
<1>2. /\ x \in Iterator /\ x.kind = k /\ x.pos = 0 /\ x.value = NoValue /\ x.fn = <<>>
      /\ x.seen = {} /\ x.failed = FALSE
  BY <1>1, UnsetTyped DEF Unset, Iterator
<1> HIDE DEF x
<1>3. Run(0, 0) = <<>>
  BY DEF Run
<1>4. CASE k = "filter"
  <2>1. Begin(k) = forward_skip(x)
    BY <1>4 DEF Begin, make_filtering_iterator, x
  <2>2. x.seen = {p \in Accept : p < x.pos}
    <3>1. \A p \in Accept : ~(p < 0)
      BY <1>1
    <3> QED
      BY <1>2, <3>1
  <2> DEFINE y == forward_skip(x)
  <2>3. y \in Iterator /\ y.kind = x.kind /\ y.failed = x.failed /\ SoundFilter(y)
    BY <1>2, <1>3, <2>2, SkipSound
  <2> HIDE DEF y
  <2>4. Usable(y) /\ y.kind = k
    BY <1>2, <1>4, <2>3 DEF Usable, Sound, SoundFilter
  <2> QED
    BY <2>1, <2>4 DEF y
<1>5. CASE k # "filter"
  <2>1. Begin(k) = x
    BY <1>1, <1>5 DEF Begin, make_mapping_iterator, make_ephemeral_mapping_iterator, x
  <2>2. Sound(x)
    <3>1. Increasing(<<>>)
      BY DEF Increasing
    <3> QED
      BY <1>2, <1>3, <1>5, <3>1 DEF Sound, SoundMap, SoundSkip, Through
  <2> QED
    BY <1>1, <1>2, <2>1, <2>2 DEF Usable
<1> QED
  BY <1>4, <1>5

LEMMA ValidUsable ==
    ASSUME AdaptorsInv, NEW i \in Iterators, Valid(i)
    PROVE  Usable(it[i])
  BY DEF AdaptorsInv, IteratorsTyped, Iterator, Valid, Usable, AsLeft

\* A step that gives one variable another iterator.
LEMMA OneChanged ==
    ASSUME AdaptorsInv, NEW i \in Iterators, NEW x \in Iterator, AsLeft(x),
           it' = [it EXCEPT ![i] = x], UNCHANGED moved
    PROVE  AdaptorsInv'
<1>1. it \in [Iterators -> Iterator] /\ moved \subseteq Positions
      /\ \A j \in Iterators : AsLeft(it[j])
  BY DEF AdaptorsInv, IteratorsTyped, Iterator
<1>2. it' \in [Iterators -> Iterator] /\ moved' \subseteq Positions
  BY <1>1
<1>3. ASSUME NEW j \in Iterators PROVE AsLeft(it'[j])
  <2>1. it'[j] = IF j = i THEN x ELSE it[j]
    BY <1>1
  <2> QED
    BY <1>1, <2>1
<1>4. \A j \in Iterators : AsLeft(it[j])'
  BY <1>3 DEF AsLeft, Sound, SoundMap, SoundSkip, SoundFilter, Stopped, Through
<1> QED
  BY <1>2, <1>4 DEF AdaptorsInv, IteratorsTyped, Iterator

LEMMA OneUsable ==
    ASSUME AdaptorsInv, NEW i \in Iterators, NEW x, Usable(x),
           it' = [it EXCEPT ![i] = x], UNCHANGED moved
    PROVE  AdaptorsInv'
  BY OneChanged DEF Usable, AsLeft

\* A predicate that throws leaves the iterator where it was called, which is not
\* beyond the next accepted element.
LEMMA ThrowKeeps ==
    ASSUME AdaptorsInv, NEW i \in Iterators, IncrementThrows(i)
    PROVE  AdaptorsInv'
<1> DEFINE x == [it[i] EXCEPT !.pos = @ + 1]
<1>1. /\ it[i] \in Iterator /\ it[i].pos + 1 < N /\ N \in Nat /\ it[i].pos \in Nat
      /\ Positions = 0 .. N - 1 /\ Accept \subseteq Positions /\ UNCHANGED moved
      /\ it[i].kind = "filter" /\ SoundFilter(it[i])
  <2>1. Usable(it[i]) /\ it[i].kind = "filter" /\ it[i].pos + 1 < N /\ UNCHANGED moved
    BY ValidUsable DEF IncrementThrows
  <2> QED
    BY <2>1, Bounds, FieldsTyped DEF Usable, Sound
<1>2. /\ x \in Iterator /\ x.pos = it[i].pos + 1 /\ x.kind = "filter"
      /\ x.fn = it[i].fn /\ x.seen = it[i].seen
  <2>1. it[i].pos + 1 \in 0 .. N
    BY <1>1
  <2> QED
    BY <1>1, <2>1 DEF Iterator
<1>3. PICK y \in forward_skip_throws(x) : it' = [it EXCEPT ![i] = y]
  BY DEF IncrementThrows
<1>a. x.fn = Run(0, x.pos) /\ x.seen = {p \in Accept : p < x.pos}
  <2>1. \A p \in Accept : p <= it[i].pos <=> p < it[i].pos + 1
    BY <1>1
  <2>2. it[i].pos # N
    BY <1>1
  <2> QED
    BY <1>1, <1>2, <2>1, <2>2 DEF SoundFilter
<1> HIDE DEF x
<1>4. PICK q \in x.pos .. N : forward_skip(x).pos = q /\ (x.pos .. q - 1) \cap Accept = {}
  <2>1. PICK q \in x.pos .. N :
          /\ (x.pos .. q - 1) \cap Accept = {}
          /\ forward_skip(x) = [x EXCEPT !.pos = q,
                                      !.fn = @ \o Run(x.pos, IF q = N THEN N ELSE q + 1),
                                      !.seen = @ \cup ({q} \ {N})]
    BY <1>2, SkipIs
  <2>2. forward_skip(x).pos = q
    BY <1>2, <2>1 DEF Iterator
  <2> QED
    BY <2>1, <2>2
<1>5. PICK t \in x.pos .. q \ {N} :
          y = [x EXCEPT !.pos = t, !.fn = @ \o Run(x.pos, t), !.failed = TRUE]
  BY <1>3, <1>4 DEF forward_skip_throws
<1>6. t \in 0 .. N /\ t \in Nat /\ x.pos \in Nat /\ x.pos <= t /\ t < N /\ t <= q /\ q \in Nat
  <2>1. x.pos \in Nat /\ q \in x.pos .. N /\ t \in x.pos .. q \ {N} /\ N \in Nat
    BY <1>1, <1>2, <1>4, <1>5
  <2> QED
    BY <2>1
<1>7. x.fn \o Run(x.pos, t) = Run(0, t) /\ Run(0, t) \in Seq(Positions)
  <2>1. 0 .. t - 1 \subseteq Positions /\ 0 \in Nat /\ 0 <= t /\ 0 <= x.pos
    BY <1>1, <1>6
  <2>2. Run(0, x.pos) \o Run(x.pos, t) = Run(0, t)
    BY <1>6, <2>1, RunConcat
  <2>3. Run(0, t) \in Seq(Positions)
    BY <1>6, <2>1, RunIs
  <2> QED
    BY <1>a, <2>2, <2>3
<1>8. /\ y \in Iterator /\ y.failed /\ y.kind = "filter" /\ y.pos = t
      /\ y.fn = Run(0, t) /\ y.seen = x.seen
  BY <1>2, <1>5, <1>6, <1>7 DEF Iterator
<1>9. x.seen = {p \in Accept : p < t}
  <2>1. ASSUME NEW p \in Accept PROVE p < x.pos <=> p < t
    BY <1>1, <1>4, <1>6
  <2> QED
    BY <1>a, <2>1
<1>10. AsLeft(y)
  BY <1>6, <1>8, <1>9 DEF AsLeft, Stopped
<1> QED
  BY <1>1, <1>3, <1>8, <1>10, OneChanged

LEMMA JumpKeeps ==
    ASSUME AdaptorsInv, NEW i \in Iterators, NEW n \in {-1, 2}, Jump(i, n)
    PROVE  AdaptorsInv'
<1> DEFINE x == it[i]
           y == [x EXCEPT !.pos = @ + n]
<1>1. Usable(x) /\ x \in Iterator /\ x.kind = "ephemeral" /\ x.pos + n \in 0 .. N
  BY ValidUsable DEF Jump, Usable
<1>2. x.value = NoValue /\ x.fn = <<>> /\ ~x.failed
  BY <1>1 DEF Usable, Sound
<1>3. /\ y \in Iterator /\ y.kind = x.kind /\ y.value = x.value /\ y.fn = x.fn
      /\ y.failed = x.failed
  <2> HIDE DEF x
  <2> QED
    BY <1>1 DEF Iterator
<1>4. it' = [it EXCEPT ![i] = y] /\ UNCHANGED moved
  BY DEF Jump, ephemeral_advance
<1> HIDE DEF x, y
<1>5. Usable(y)
  BY <1>1, <1>2, <1>3 DEF Usable, Sound
<1> QED
  BY <1>4, <1>5, OneUsable

LEMMA PostKeeps ==
    ASSUME AdaptorsInv, NEW i \in Iterators, NEW j \in Iterators \ {i}, PostIncrement(i, j)
    PROVE  AdaptorsInv'
<1>1. Usable(it[i]) /\ it[i].pos < N /\ UNCHANGED moved
      /\ it' = [it EXCEPT ![i] = Advance(it[i]), ![j] = it[i]]
  BY ValidUsable DEF PostIncrement
<1>2. Usable(Advance(it[i]))
  BY <1>1, AdvanceUsable DEF Advanced
<1>3. it \in [Iterators -> Iterator] /\ moved \subseteq Positions
      /\ \A k \in Iterators : AsLeft(it[k])
  BY DEF AdaptorsInv, IteratorsTyped, Iterator
<1>4. \A k \in Iterators : it'[k] = IF k = j THEN it[i] ELSE IF k = i THEN Advance(it[i]) ELSE it[k]
  BY <1>1, <1>3
<1>5. it' \in [Iterators -> Iterator] /\ moved' \subseteq Positions
  BY <1>1, <1>2, <1>3 DEF Usable
<1>6. \A k \in Iterators : AsLeft(it'[k])
  <2>1. AsLeft(it[i]) /\ AsLeft(Advance(it[i]))
    BY <1>1, <1>2 DEF Usable, AsLeft
  <2> QED
    BY <1>3, <1>4, <2>1
<1>7. \A k \in Iterators : AsLeft(it[k])'
  BY <1>6 DEF AsLeft, Sound, SoundMap, SoundSkip, SoundFilter, Stopped, Through
<1> QED
  BY <1>5, <1>7 DEF AdaptorsInv, IteratorsTyped, Iterator

LEMMA ReduceKeeps ==
    ASSUME AdaptorsInv, NEW k \in Kinds, Reduce(k)
    PROVE  AdaptorsInv'
<1> DEFINE x == Begin(k)
<1>1. Usable(x) /\ moved \subseteq Positions /\ UNCHANGED it
  BY BeginUsable DEF Reduce, AdaptorsInv, IteratorsTyped
<1>2. PICK r \in reduce_first(x) : moved' = r.moved
  BY DEF Reduce
<1> HIDE DEF x
<1>3. N \in Nat /\ x.pos \in 0 .. N
  BY <1>1, Bounds, FieldsTyped DEF Usable
<1>4. r.moved \subseteq Positions
  <2>1. CASE x.pos = N
    BY <1>1, <1>2, <2>1 DEF reduce_first
  <2>2. CASE x.pos # N
    <3>1. Given(x) = x.pos /\ x.pos \in Positions
      BY <1>1, <1>3, <2>2, ReadUsable DEF Positions
    <3>2. x.kind \in {"map", "skip", "ephemeral", "filter", "plain"}
      BY <1>1, FieldsTyped, AdaptorsAssumption DEF Usable
    <3>3. r.moved \in {moved, moved \cup {x.pos}}
      BY <1>2, <2>2, <3>1, <3>2 DEF reduce_first
    <3> QED
      BY <1>1, <3>1, <3>3
  <2> QED
    BY <2>1, <2>2
<1> QED
  BY <1>1, <1>2, <1>4 DEF AdaptorsInv, IteratorsTyped

LEMMA InitSound == AdaptorsInit => AdaptorsInv
<1> SUFFICES ASSUME AdaptorsInit PROVE AdaptorsInv
  OBVIOUS
<1>1. it \in [Iterators -> Iterator] /\ moved \subseteq Positions
  BY UnsetTyped DEF AdaptorsInit
<1>2. AsLeft(Unset)
  BY DEF AsLeft, Sound, Unset
<1> QED
  BY <1>1, <1>2 DEF AdaptorsInit, AdaptorsInv, IteratorsTyped, Iterator

LEMMA NextSound == AdaptorsInv /\ [AdaptorsNext]_adaptors => AdaptorsInv'
<1> SUFFICES ASSUME AdaptorsInv, [AdaptorsNext]_adaptors PROVE AdaptorsInv'
  OBVIOUS
<1>1. ASSUME NEW i \in Iterators, NEW k \in Kinds, Make(i, k) PROVE AdaptorsInv'
  BY <1>1, BeginUsable, OneUsable DEF Make
<1>2. ASSUME NEW i \in Iterators, NEW j \in Iterators \ {i}, Copy(i, j) PROVE AdaptorsInv'
  BY <1>2, ValidUsable, OneUsable DEF Copy
<1>3. ASSUME NEW i \in Iterators, NEW j \in Iterators \ {i}, PostIncrement(i, j) PROVE AdaptorsInv'
  BY <1>3, PostKeeps
<1>4. ASSUME NEW i \in Iterators, NEW n \in {-1, 2}, Jump(i, n) PROVE AdaptorsInv'
  BY <1>4, JumpKeeps
<1>5. ASSUME NEW i \in Iterators, Deref(i) PROVE AdaptorsInv'
  <2>1. Usable(Read(it[i]))
    BY <1>5, ValidUsable, ReadUsable DEF Deref
  <2> QED
    BY <1>5, <2>1, OneUsable DEF Deref
<1>6. ASSUME NEW i \in Iterators, PreIncrement(i) PROVE AdaptorsInv'
  <2>1. Usable(Advance(it[i]))
    BY <1>6, ValidUsable, AdvanceUsable DEF PreIncrement, Advanced
  <2> QED
    BY <1>6, <2>1, OneUsable DEF PreIncrement
<1>7. ASSUME NEW i \in Iterators, IncrementThrows(i) PROVE AdaptorsInv'
  BY <1>7, ThrowKeeps
<1>8. ASSUME NEW k \in Kinds, Reduce(k) PROVE AdaptorsInv'
  BY <1>8, ReduceKeeps
<1>9. CASE UNCHANGED adaptors
  BY <1>9 DEF adaptors, AdaptorsInv, IteratorsTyped
<1> QED
  BY <1>1, <1>2, <1>3, <1>4, <1>5, <1>6, <1>7, <1>8, <1>9 DEF AdaptorsNext

-------------------------------------------------------------------------------
(***************************************************************************)
(* The properties.                                                         *)
(***************************************************************************)
\* Of two increasing functions with the same values, the first cannot differ from
\* the second, nor go on after it.
LEMMA NoOtherList ==
    ASSUME NEW n \in Nat, NEW l \in Nat, NEW s \in [1 .. n -> Nat], NEW t \in [1 .. l -> Nat],
           \A k, m \in 1 .. n : k < m => s[k] < s[m],
           \A k, m \in 1 .. l : k < m => t[k] < t[m],
           \A k \in 1 .. n : \E m \in 1 .. l : s[k] = t[m],
           \A k \in 1 .. l : \E m \in 1 .. n : t[k] = s[m]
    PROVE  n <= l /\ \A k \in 1 .. n : s[k] = t[k]
<1> DEFINE Differ == {k \in 1 .. n : k > l \/ s[k] # t[k]}
<1>1. ASSUME Differ # {} PROVE FALSE
  <2>1. PICK k \in Differ : \A m \in Differ : k <= m
    <3>1. Differ \in SUBSET Nat
      OBVIOUS
    <3> HIDE DEF Differ
    <3> QED
      BY <1>1, <3>1, Least
  <2>2. k \in 1 .. n
    OBVIOUS
  <2>3. ASSUME NEW m \in 1 .. k - 1 PROVE m \in 1 .. n /\ m \in 1 .. l /\ s[m] = t[m]
    <3>1. m \in 1 .. n /\ m \notin Differ
      BY <2>1, <2>2
    <3> QED
      BY <3>1
  <2>4. PICK m \in 1 .. l : s[k] = t[m]
    BY <2>2
  <2>5. m > k
    <3>1. CASE m < k
      <4>1. m \in 1 .. k - 1
        BY <2>2, <3>1
      <4>2. s[m] = s[k] /\ m \in 1 .. n
        BY <2>3, <2>4, <4>1
      <4> QED
        BY <2>2, <3>1, <4>2
    <3>2. CASE m = k
      BY <2>1, <2>4, <3>2
    <3> QED
      BY <2>2, <3>1, <3>2
  <2>6. k \in 1 .. l /\ t[k] < s[k]
    BY <2>2, <2>4, <2>5
  <2>7. PICK j \in 1 .. n : t[k] = s[j]
    BY <2>6
  <2>8. j < k
    <3>1. CASE j > k
      <4>1. s[k] < s[j]
        BY <2>2, <3>1
      <4>2. t[k] \in Nat /\ s[k] \in Nat
        BY <2>2, <2>6
      <4> QED
        BY <2>6, <2>7, <4>1, <4>2
    <3>2. CASE j = k
      BY <2>2, <2>6, <2>7, <3>2
    <3> QED
      BY <2>2, <3>1, <3>2
  <2>9. t[j] = t[k] /\ j \in 1 .. l
    <3>1. j \in 1 .. k - 1
      BY <2>2, <2>8
    <3> QED
      BY <2>3, <2>7, <3>1
  <2> QED
    BY <2>6, <2>8, <2>9
<1>2. ASSUME NEW k \in 1 .. n PROVE k <= l /\ s[k] = t[k]
  <2>1. ~(k > l \/ s[k] # t[k])
    BY <1>1, Zenon
  <2> QED
    BY <2>1
<1> HIDE DEF Differ
<1>3. n <= l
  BY <1>2
<1> QED
  BY <1>2, <1>3

\* A set is listed in one way.
LEMMA ListedOnce ==
    ASSUME NEW s \in Seq(Nat), NEW t \in Seq(Nat), Increasing(s), Increasing(t),
           Range(s) = Range(t)
    PROVE  s = t
<1> DEFINE n == Len(s)
           l == Len(t)
<1>1. /\ n \in Nat /\ DOMAIN s = 1 .. n /\ s \in [1 .. n -> Nat]
      /\ l \in Nat /\ DOMAIN t = 1 .. l /\ t \in [1 .. l -> Nat]
  BY LenProperties
<1> HIDE DEF n, l
<1>2. /\ \A k \in 1 .. n : \E m \in 1 .. l : s[k] = t[m]
      /\ \A k \in 1 .. l : \E m \in 1 .. n : t[k] = s[m]
  BY <1>1 DEF Range
<1>3. /\ \A k, m \in 1 .. n : k < m => s[k] < s[m]
      /\ \A k, m \in 1 .. l : k < m => t[k] < t[m]
  BY <1>1 DEF Increasing
<1>4. n <= l /\ \A k \in 1 .. n : s[k] = t[k]
  BY <1>1, <1>2, <1>3, NoOtherList
<1>5. l <= n
  BY <1>1, <1>2, <1>3, NoOtherList
<1>6. n = l
  BY <1>1, <1>4, <1>5
<1> QED
  BY <1>4, <1>6, SeqEqual DEF n, l

\* What a loop reads is what the iterator stands on and what the next one reads.
LEMMA CopyUnfolds ==
    ASSUME NEW x, Usable(x), x.pos < N
    PROVE  LET rest == copy(Advance(Read(x)))
           IN  rest \in Seq(Positions) /\ copy(x) = <<x.pos>> \o rest /\ Given(x) = x.pos
<1> DEFINE z == Read(x)
           y == Advance(z)
           rest == copy(y)
<1>1. /\ x \in Iterator /\ N \in Nat /\ Positions = 0 .. N - 1 /\ Positions \in SUBSET Nat
  <2>1. Positions = 0 .. N - 1 /\ N \in Nat /\ x \in Iterator
    BY Bounds DEF Usable
  <2> QED
    BY <2>1
<1>2. Usable(z) /\ z.pos = x.pos /\ z.kind = x.kind /\ Given(x) = x.pos
  BY ReadUsable
<1> HIDE DEF z
<1>3. Advanced(z, y)
  BY <1>2, AdvanceUsable
<1> HIDE DEF y
<1>4. rest \in Seq(Positions) /\ Increasing(rest) /\ Range(rest) = Left(y)
  BY <1>3, LoopLists DEF Advanced, copy, Lists
<1>5. copy(x) \in Seq(Positions) /\ Increasing(copy(x)) /\ Range(copy(x)) = Left(x)
  BY LoopLists DEF copy, Lists
<1> HIDE DEF rest
<1>6. Left(x) = Left(z)
  BY <1>2 DEF Left
<1>7. /\ Left(x) = {x.pos} \cup Left(y) /\ \A p \in Left(y) : x.pos < p
      /\ x.pos \in Positions
  <2>1. x.pos \in Positions
    BY <1>1, FieldsTyped
  <2> QED
    BY <1>2, <1>3, <1>6, <2>1 DEF Advanced
<1>8. \A k \in DOMAIN rest : x.pos < rest[k]
  BY <1>4, <1>7 DEF Range
<1>9. Increasing(<<x.pos>> \o rest) /\ Range(<<x.pos>> \o rest) = Left(x)
  BY <1>1, <1>4, <1>7, <1>8, IncreasingPrepend
<1>10. <<x.pos>> \o rest \in Seq(Nat) /\ copy(x) \in Seq(Nat)
  BY <1>1, <1>4, <1>5, <1>7
<1>11. copy(x) = <<x.pos>> \o rest
  BY <1>5, <1>9, <1>10, ListedOnce
<1> QED
  BY <1>2, <1>4, <1>11 DEF rest, y, z

LEMMA ReduceGives ==
    ASSUME NEW x, Usable(x), x.pos < N, NEW r \in reduce_first(x)
    PROVE  FoldsRest(x, r.folded)
<1> DEFINE rest == copy(Advance(Read(x)))
           content(p) == IF p \in moved THEN MovedAway ELSE p
           tail == [k \in DOMAIN rest |-> content(rest[k])]
<1>1. x \in Iterator /\ N \in Nat /\ x.pos \in Nat /\ x.pos # N
      /\ x.kind \in {"map", "skip", "ephemeral", "filter", "plain"}
  <2>1. x \in Iterator /\ x.kind \in Kinds
    BY FieldsTyped DEF Usable
  <2>2. x.kind \in {"map", "skip", "ephemeral", "filter", "plain"}
    BY <2>1, AdaptorsAssumption
  <2> QED
    BY <2>1, <2>2, Bounds, FieldsTyped
<1>2. rest \in Seq(Positions) /\ copy(x) = <<x.pos>> \o rest /\ Given(x) = x.pos
  BY CopyUnfolds
<1>3. \E v : /\ r.folded = <<v>> \o tail
             /\ v = content(x.pos) \/ (x.kind \in {"map", "skip"} /\ v = Garbage)
  <2> HIDE DEF content, tail
  <2>1. CASE x.kind \in {"filter", "plain"}
    <3>1. reduce_first(x) = {[folded |-> <<content(Given(x))>> \o tail, moved |-> m] :
                                m \in {moved, moved \cup {Given(x)}}}
      BY <1>1, <2>1 DEF reduce_first, content, tail
    <3>2. r.folded = <<content(Given(x))>> \o tail
      BY <3>1
    <3> QED
      BY <1>2, <3>2
  <2>2. CASE x.kind = "ephemeral"
    <3>1. reduce_first(x) = {[folded |-> <<content(Given(x))>> \o tail, moved |-> moved]}
      BY <1>1, <2>2 DEF reduce_first, content, tail
    <3>2. r.folded = <<content(Given(x))>> \o tail
      BY <3>1
    <3> QED
      BY <1>2, <3>2
  <2>3. CASE x.kind \in {"map", "skip"}
    <3>1. reduce_first(x) = {[folded |-> <<v>> \o tail, moved |-> moved] :
                                v \in {content(Given(x)), Garbage}}
      BY <1>1, <2>3 DEF reduce_first, content, tail
    <3>2. PICK v \in {content(Given(x)), Garbage} : r.folded = <<v>> \o tail
      BY <3>1
    <3>3. v = content(x.pos) \/ v = Garbage
      BY <1>2, <3>2
    <3> QED
      BY <2>3, <3>2, <3>3
  <2> QED
    BY <1>1, <2>1, <2>2, <2>3
<1>4. PICK v : /\ r.folded = <<v>> \o tail
               /\ v = content(x.pos) \/ (x.kind \in {"map", "skip"} /\ v = Garbage)
  BY <1>3
<1> HIDE DEF rest
<1>5. /\ Len(rest) \in Nat /\ DOMAIN rest = 1 .. Len(rest)
      /\ Len(copy(x)) = Len(rest) + 1 /\ DOMAIN copy(x) = 1 .. Len(rest) + 1
      /\ copy(x)[1] = x.pos /\ \A k \in 2 .. Len(rest) + 1 : copy(x)[k] = rest[k - 1]
  BY <1>2
<1>6. /\ Len(r.folded) = Len(rest) + 1
      /\ r.folded[1] = v /\ \A k \in 2 .. Len(rest) + 1 : r.folded[k] = content(rest[k - 1])
  <2> HIDE DEF content
  <2>1. tail \in Seq({content(rest[k]) : k \in DOMAIN rest}) /\ Len(tail) = Len(rest)
    BY <1>5
  <2>2. \A k \in 1 .. Len(rest) : tail[k] = content(rest[k])
    BY <1>5
  <2> HIDE DEF tail
  <2>3. /\ Len(<<v>> \o tail) = Len(rest) + 1 /\ (<<v>> \o tail)[1] = v
        /\ \A k \in 2 .. Len(tail) + 1 : (<<v>> \o tail)[k] = tail[k - 1]
    BY <1>5, <2>1
  <2>4. \A k \in 2 .. Len(rest) + 1 : k - 1 \in 1 .. Len(rest)
    BY <1>5
  <2> QED
    BY <1>4, <2>1, <2>2, <2>3, <2>4
<1>7. \A k \in DOMAIN copy(x) : k = 1 \/ k \in 2 .. Len(rest) + 1
  BY <1>5
<1>8. ASSUME NEW k \in DOMAIN copy(x)
      PROVE  \/ r.folded[k] = content(copy(x)[k])
             \/ k = 1 /\ x.kind \in {"map", "skip"} /\ r.folded[k] = Garbage
  <2> HIDE DEF content
  <2> QED
    BY <1>4, <1>5, <1>6, <1>7
<1> QED
  BY <1>5, <1>6, <1>8 DEF FoldsRest

LEMMA RestFollows == AdaptorsInv => RestIsGiven
<1> SUFFICES ASSUME AdaptorsInv PROVE RestIsGiven
  OBVIOUS
<1>1. ASSUME NEW i \in Iterators, Valid(i)
      PROVE  LET x == it[i]
             IN  /\ x.value \in {NoValue, x.pos}
                 /\ x.kind = "filter" => /\ x.pos \in Accept \cup {N}
                                         /\ x.seen = {p \in Accept : p <= x.pos}
                 /\ Lists(copy(x), Left(x))
                 /\ reduce(x, N) = <<N>> \o copy(x)
                 /\ x.pos < N => \A r \in reduce_first(x) : FoldsRest(x, r.folded)
  <2> DEFINE x == it[i]
  <2>1. Usable(x)
    BY <1>1, ValidUsable
  <2> HIDE DEF x
  <2>2. /\ x.value \in {NoValue, x.pos}
        /\ x.kind = "filter" => /\ x.pos \in Accept \cup {N}
                                /\ x.seen = {p \in Accept : p <= x.pos}
    BY <2>1 DEF Usable, Sound, SoundFilter
  <2>3. Lists(copy(x), Left(x))
    BY <2>1, LoopLists DEF copy
  <2>4. reduce(x, N) = <<N>> \o copy(x)
    BY DEF reduce, copy
  <2>5. ASSUME x.pos < N, NEW r \in reduce_first(x) PROVE FoldsRest(x, r.folded)
    BY <2>1, <2>5, ReduceGives
  <2> QED
    BY <2>2, <2>3, <2>4, <2>5 DEF x
<1>2. ASSUME NEW i \in Iterators, it[i].failed
      PROVE  /\ it[i].kind = "filter" /\ it[i].pos < N
             /\ it[i].seen = {p \in Accept : p < it[i].pos}
  BY <1>2 DEF AdaptorsInv, AsLeft, Stopped
<1>3. IteratorsTyped
  BY DEF AdaptorsInv
<1> QED
  BY <1>1, <1>2, <1>3 DEF RestIsGiven

LEMMA OrderFollows == AdaptorsInv => InOrderOnce
<1> SUFFICES ASSUME AdaptorsInv PROVE InOrderOnce
  OBVIOUS
<1>1. ASSUME NEW i \in Iterators, it[i].failed PROVE it[i].fn = Run(0, it[i].pos)
  BY <1>1 DEF AdaptorsInv, AsLeft, Stopped
<1> SUFFICES ASSUME NEW i \in Iterators, Valid(i)
             PROVE  LET x == it[i]
                        through == IF x.value = NoValue THEN x.pos ELSE x.pos + 1
                    IN  CASE x.kind = "map" -> /\ x.fn = Run(0, through)
                                               /\ Loop(x).last.fn = Run(0, N)
                          [] x.kind = "skip" -> /\ Increasing(x.fn)
                                                /\ x.fn # <<>> => x.fn[Len(x.fn)] < through
                                                /\ x.value # NoValue =>
                                                        x.fn # <<>> /\ x.fn[Len(x.fn)] = x.pos
                          [] x.kind = "filter" ->
                                x.fn = Run(0, IF x.pos = N THEN N ELSE x.pos + 1)
                          [] OTHER -> x.fn = <<>>
  BY <1>1, Zenon DEF InOrderOnce
<1> DEFINE x == it[i]
<1>2. Usable(x) /\ Sound(x)
  BY ValidUsable DEF Usable
<1>3. x.kind \in {"map", "skip", "ephemeral", "filter", "plain"}
  BY <1>2, FieldsTyped, AdaptorsAssumption DEF Usable
<1> HIDE DEF x
<1>4. CASE x.kind = "map"
  <2> DEFINE z == Loop(x).last
  <2>1. Usable(z) /\ z.kind = "map" /\ z.pos = N
    BY <1>2, <1>4, LoopLists
  <2> HIDE DEF z
  <2>2. z.value = NoValue
    <3>1. z.value \in Positions \cup {NoValue} /\ z.value \in {NoValue, N} /\ N \notin Positions
      BY <2>1, Bounds, FieldsTyped DEF Usable, Sound
    <3> QED
      BY <3>1
  <2>3. z.fn = Run(0, N)
    BY <2>1, <2>2 DEF Usable, Sound, SoundMap, Through
  <2>4. x.fn = Run(0, Through(x))
    BY <1>2, <1>4 DEF Sound, SoundMap
  <2> QED
    BY <1>4, <2>3, <2>4 DEF x, z, Through
<1>5. CASE x.kind = "skip"
  BY <1>2, <1>5 DEF x, Sound, SoundSkip, Through
<1>6. CASE x.kind = "filter"
  BY <1>2, <1>6 DEF x, Sound, SoundFilter
<1>7. CASE x.kind \in {"ephemeral", "plain"}
  BY <1>2, <1>7 DEF x, Sound
<1> QED
  BY <1>3, <1>4, <1>5, <1>6, <1>7

\* Every iterator that has not failed is sound, and every other a filter stopped
\* before what it was not told about, after any operations on them and on the
\* iterators they were copied from (iter-util.hh and range-util.hh).
THEOREM AdaptorsInvariance == AdaptorsSpec => []AdaptorsInv
  BY InitSound, NextSound, PTL DEF AdaptorsSpec

\* map, map_skipping, map_ephemeral and filter give what is left of their range,
\* once and in order, in loops and in reduce; a filter rests on accepted elements,
\* and has missed none where its predicate threw.
THEOREM AdaptorsGiveRest == AdaptorsSpec => []RestIsGiven
  BY AdaptorsInvariance, RestFollows, PTL

\* map applies its function to every element once and in order, map_skipping to
\* those that are read, and filter its predicate to every element once, up to the
\* one it throws on.
THEOREM AppliedInOrder == AdaptorsSpec => []InOrderOnce
  BY AdaptorsInvariance, OrderFollows, PTL
================================================================================
