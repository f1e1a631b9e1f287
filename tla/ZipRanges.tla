------------------------------ MODULE ZipRanges ------------------------------
(***************************************************************************)
(* zip and map_indexed of utils/range-util.hh, the integral_iterator they  *)
(* use and the size of a range (utils/range.hh).  A zip iterator keeps a   *)
(* position in each of its ranges and is at its end when all of them are   *)
(* at theirs.  The integers that integral_iterator runs over are unsigned, *)
(* and their differences signed of the same width.                         *)
(***************************************************************************)
EXTENDS Integers, Sequences, FiniteSetsExt

CONSTANTS
    Shapes,         \* the lengths of the zipped ranges; the last is map_indexed's
                    \* range of integers if it is Top
    Iters,          \* the program's zip iterators
    Half,           \* half the number of their values: 2^(w-1) for w bits
    Debug           \* is the library built without NDEBUG?

ASSUME ZipAssumption ==
    /\ Shapes \subseteq Seq(Nat) \ {<<>>}
    /\ Half \in Nat \ {0}
    /\ Debug \in BOOLEAN

Modulus == 2 * Half
Top == Modulus - 1              \* std::numeric_limits<size_t>::max()

VARIABLES
    ends,       \* the ends of the zipped ranges
    at,         \* the positions of each zip iterator
    index,      \* how many tuples from the beginning its user has moved it
    fromEnd,    \* is it where it is by moving back from the end?
    int         \* two integral iterators
vars == <<ends, at, index, fromEnd, int>>

Ranges == DOMAIN ends
Count == Min({ends[k] : k \in Ranges})      \* of tuples

TypeOK ==
    /\ \A i \in Iters : \A k \in Ranges : at[i][k] \in 0 .. ends[k]
    /\ index \in [Iters -> 0 .. Count]
    /\ fromEnd \in [Iters -> BOOLEAN]
    /\ int \in [{1, 2} -> 0 .. Top]

-----------------------------------------------------------------------------
\* integral_iterator.

Unsigned(n) == n % Modulus
Signed(v) == IF v < Half THEN v ELSE v - Modulus

\* A wrong version: the sum is kept in a wider type.
integral_plus_wide(v, n) == v + n
integral_plus(v, n) == Unsigned(v + n)
\* A wrong version: the difference of the values, not reduced to the width.
integral_distance(v, u) == v - u
integral_minus(v, u) == Signed(Unsigned(v - u))

\* Conversions that throw, in a debug build, what they cannot convert.
Thrown == -1
to_unsigned(d) == IF Debug /\ d < 0 THEN Thrown ELSE Unsigned(d)
to_signed(v) == IF Debug /\ v >= Half THEN Thrown ELSE Signed(v)

\* size and operator[] of a range of integers, from its iterators.
int_range_size(first, last) == to_unsigned(integral_minus(last, first))
int_range_at(first, k) ==
    IF to_signed(k) = Thrown /\ Debug THEN Thrown ELSE integral_plus(first, to_signed(k))

-----------------------------------------------------------------------------
\* zip_iterator.

tuple_any_equal(p, q) == \E k \in DOMAIN p : p[k] = q[k]

\* A wrong version: only the first range is asked whether it is used up.
check_end_first(p) == IF p[1] = ends[1] THEN ends ELSE p

check_end(p) == IF tuple_any_equal(p, ends) THEN ends ELSE p

plus(p, n) == check_end([k \in Ranges |-> p[k] + n])        \* ++ and +=
minus(p, n) == [k \in Ranges |-> p[k] - n]                  \* -- and -=: no check

distance(q, p) == q[1] - p[1]

\* operators on tuples of iterators: element by element, and lexicographic.
equal(p, q) == \A k \in Ranges : p[k] = q[k]
less(p, q) == \E k \in Ranges : p[k] < q[k] /\ \A l \in 1 .. k - 1 : p[l] = q[l]

zip_begin == check_end([k \in Ranges |-> 0])
zip_end == check_end(ends)
zip_size == to_unsigned(distance(zip_end, zip_begin))       \* operator[] is *(begin + n)

-----------------------------------------------------------------------------
\* The program moves its iterators within the tuples there are.

Forward(i, n) ==
    /\ index[i] + n <= Count
    /\ at' = [at EXCEPT ![i] = plus(at[i], n)]
    /\ index' = [index EXCEPT ![i] = @ + n]
    /\ fromEnd' = [fromEnd EXCEPT ![i] = @ /\ index[i] + n < Count]
    /\ UNCHANGED <<ends, int>>

Back(i, n) ==
    /\ n <= index[i]
    /\ at' = [at EXCEPT ![i] = minus(at[i], n)]
    /\ index' = [index EXCEPT ![i] = @ - n]
    /\ fromEnd' = [fromEnd EXCEPT ![i] = @ \/ index[i] = Count]
    /\ UNCHANGED <<ends, int>>

Assign(i, j) ==
    /\ at' = [at EXCEPT ![i] = at[j]] /\ index' = [index EXCEPT ![i] = index[j]]
    /\ fromEnd' = [fromEnd EXCEPT ![i] = fromEnd[j]]
    /\ UNCHANGED <<ends, int>>

Integral(a, n) ==
    /\ int' = [int EXCEPT ![a] = integral_plus(int[a], n)]
    /\ UNCHANGED <<ends, at, index, fromEnd>>

Init ==
    /\ ends \in Shapes
    /\ \E b \in [Iters -> BOOLEAN] :
        /\ at = [i \in Iters |-> IF b[i] THEN zip_begin ELSE zip_end]
        /\ index = [i \in Iters |-> IF b[i] THEN 0 ELSE Count]
    /\ fromEnd = [i \in Iters |-> FALSE]
    /\ int = [a \in {1, 2} |-> 0]

Next ==
    \/ \E i \in Iters : \/ \E n \in {1, 2} : Forward(i, n) \/ Back(i, n)
                        \/ \E j \in Iters : Assign(i, j)
    \/ \E a \in {1, 2}, n \in {-1, 1, 3} : Integral(a, n)

Spec == Init /\ [][Next]_vars

-----------------------------------------------------------------------------
\* Where a zip iterator with this index ought to be: the end is the tuple of the
\* ends, and one that came back from there has kept its distance from them.
Place(n, back) ==
    IF n = Count THEN ends
    ELSE [k \in Ranges |-> IF back THEN ends[k] - (Count - n) ELSE n]

\* The ranges are read in step: a zip iterator stands on the same element of every
\* range (for map_indexed: the index given is that of the element), or, if it was
\* moved back from the end, on the elements at the same distance from the ends; and
\* it is at the end exactly when the shortest range is used up, whatever jumps led
\* there.
InStep == \A i \in Iters : at[i] = Place(index[i], fromEnd[i])

\* Is the position of i measured from the ends?
AtEnds(i) == fromEnd[i] \/ index[i] = Count
SameLengths == \A k \in Ranges : ends[k] = Count

\* Two zip iterators compare as the tuples they stand on, if both are measured from
\* the beginning, or the end, of ranges of different lengths, or one is the end
\* itself.  Their distance is the number of tuples between them, if they are measured
\* alike or the first range is the shortest; and so is the size of the whole.
ComparesAsIndex ==
    /\ \A i, j \in Iters :
        LET alike == AtEnds(i) = AtEnds(j) IN
        /\ alike \/ SameLengths \/ Count \in {index[i], index[j]} =>
            /\ less(at[i], at[j]) <=> index[i] < index[j]
            /\ equal(at[i], at[j]) <=> index[i] = index[j]
        /\ alike \/ ends[1] = Count => distance(at[j], at[i]) = index[j] - index[i]
    /\ ends[1] = Count /\ Count < Half => zip_size = Count

\* Differences of integers wrap and come back: adding the distance leads to the
\* other value; the size of a range and the elements found by their index are
\* right even where the distance does not fit the signed type, or a debug build
\* throws there and only there; and the distance has the sign of the order
\* wherever it fits.
WrapsBack ==
    LET a == int[1]  b == int[2]  d == integral_minus(b, a) IN
    /\ d \in -Half .. Half - 1
    /\ integral_plus(a, d) = b
    /\ a <= b => IF Debug /\ b - a >= Half
                 THEN int_range_size(a, b) = Thrown /\ int_range_at(a, b - a) = Thrown
                 ELSE int_range_size(a, b) = b - a /\ int_range_at(a, b - a) = b
    /\ b - a \in -Half .. Half - 1 => (a < b <=> d > 0)

=============================================================================
