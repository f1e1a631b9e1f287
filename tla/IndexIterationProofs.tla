------------------------- MODULE IndexIterationProofs -------------------------
(***************************************************************************)
(* What IndexIteration promises, for any keys, values, handles, iterators  *)
(* and number of blocks.  The argument: one handle at most has the stream, *)
(* and its index is what the program has inserted (OwnerInv); an iterator  *)
(* belongs to that handle, and what it has yet to pass is in that index    *)
(* and before it (StandInv); the pair it holds is the block the key had    *)
(* when it was dereferenced (PairInv).                                     *)
(***************************************************************************)
EXTENDS IndexIteration, SequenceTheorems, WellFoundedInduction, TLAPS

IndexType == UNION {[S -> Nat] : S \in SUBSET Keys}
HandleType == [alive : BOOLEAN, stream : BOOLEAN, need : BOOLEAN, index : IndexType]
LazyType == [read : BOOLEAN, value : Nat, taken : BOOLEAN]
IterType == [owner : Handles \cup {NoHandle}, rev : BOOLEAN, at : Keys \cup {0, End},
             key : Nat, pos : Nat, lazy : LazyType, due : SUBSET Keys, want : Nat,
             used : BOOLEAN]

StateType ==
    /\ handle \in [Handles -> HandleType]
    /\ blocks \in Seq(Nat)
    /\ stored \in IndexType
    /\ entries \in IndexType
    /\ it \in [Iters -> IterType]
    /\ crashed \in BOOLEAN

\* The handles: the one that has the stream has every insert, and knows whether
\* they are in the file; if there is none, they are.
OwnerInv ==
    /\ \A h \in Handles :
         IF handle[h].stream THEN /\ handle[h].alive
                                  /\ handle[h].index = entries
                                  /\ stored # entries => handle[h].need
         ELSE handle[h].index = NoEntries
    /\ \A h, g \in Handles : handle[h].stream /\ handle[g].stream => h = g
    /\ (\A h \in Handles : ~handle[h].stream) => stored = entries

\* The entries point at blocks.
EntriesInv == \A k \in DOMAIN entries : entries[k] \in 1..Len(blocks)

\* What iterator x on a map with the keys S stands on, and has before it.
Stands(x, S) ==
    /\ x.at \in S \cup {End}
    /\ x.due \subseteq S
    /\ \A k \in x.due : IF x.rev THEN k < x.at ELSE x.at <= k

StandInv ==
    \A i \in Iters : it[i].owner # NoHandle =>
        handle[it[i].owner].stream /\ Stands(it[i], DOMAIN entries)

\* The pair in iterator x, over the blocks bs.
Holds(x, bs) ==
    /\ x.pos \in 1..Len(bs) \cup {0}
    /\ x.key # 0 => x.pos \in 1..Len(bs) /\ bs[x.pos] = x.want
    /\ x.lazy.read => x.lazy.value = x.want
    /\ x.lazy.taken => x.used

PairInv == \A i \in Iters : Holds(it[i], blocks)

IInv == StateType /\ OwnerInv /\ EntriesInv /\ StandInv /\ PairInv /\ ReadsRight

-------------------------------------------------------------------------------
(***************************************************************************)
(* The order of the keys.                                                  *)
(***************************************************************************)
Lt == {ss \in Nat \X Nat : ss[1] < ss[2]}

LEMMA LtWellFounded == IsWellFoundedOn(Lt, Nat)
  BY NatLessThanWellFounded, Zenon DEF Lt, OpToRel

LEMMA MinOf ==
    ASSUME NEW S \in SUBSET Nat, S # {}
    PROVE  Min(S) \in S /\ \A x \in S : Min(S) <= x
<1>1. PICK x \in S : \A y \in S : ~(<<y, x>> \in Lt)
  BY LtWellFounded, WFMin
<1>2. ASSUME NEW y \in S PROVE x <= y
  <2>1. <<y, x>> \in Nat \X Nat /\ <<y, x>>[1] = y /\ <<y, x>>[2] = x
    OBVIOUS
  <2>2. y < x => <<y, x>> \in Lt
    BY <2>1 DEF Lt
  <2> QED
    BY <1>1, <2>2
<1> QED
  BY <1>2 DEF Min

LEMMA MaxOf ==
    ASSUME NEW S \in SUBSET Nat, S # {}, NEW m \in Nat, \A x \in S : x <= m
    PROVE  Max(S) \in S /\ \A x \in S : x <= Max(S)
<1> DEFINE T == {n \in Nat : m - n \in S}
<1>1. T \in SUBSET Nat /\ T # {}
  <2>1. PICK x \in S : TRUE
    OBVIOUS
  <2>2. m - x \in T
    BY <2>1
  <2> QED
    BY <2>2
<1>2. Min(T) \in T /\ \A n \in T : Min(T) <= n
  BY <1>1, MinOf
<1>3. ASSUME NEW x \in S PROVE x <= m - Min(T)
  <2>1. m - x \in T
    OBVIOUS
  <2> QED
    BY <1>2, <2>1
<1>4. m - Min(T) \in S
  BY <1>2
<1> QED
  BY <1>3, <1>4 DEF Max

\* End lies behind every key.
LEMMA EndLast ==
    /\ End \in Nat /\ End \notin Keys /\ End # 0 /\ Keys \subseteq Nat /\ 0 \notin Keys
    /\ \A k \in Keys : k < End
    /\ Min(Keys) \in Keys
<1>1. PICK m \in Keys : \A k \in Keys : k <= m
  BY IterationAssumption
<1>2. Keys \in SUBSET Nat /\ Keys # {} /\ m \in Nat /\ 0 \notin Keys
  BY <1>1, IterationAssumption
<1>3. Max(Keys) \in Keys /\ \A k \in Keys : k <= Max(Keys)
  BY <1>1, <1>2, MaxOf
<1>4. Min(Keys) \in Keys
  BY <1>2, MinOf
<1>5. End = Max(Keys) + 1 /\ Max(Keys) \in Nat
  BY <1>2, <1>3 DEF End
<1>6. \A k \in Keys : k \in Nat /\ k < End
  BY <1>2, <1>3, <1>5
<1> QED
  BY <1>2, <1>4, <1>5, <1>6

\* The first key of the map at k or later, or its end.
LEMMA AfterIs ==
    ASSUME NEW S \in SUBSET Keys, NEW k \in Nat
    PROVE  /\ After(S, k) \in S \cup {End}
           /\ \A x \in S : x >= k => After(S, k) <= x
<1> DEFINE T == {x \in S : x >= k} \cup {End}
<1>1. T \in SUBSET Nat /\ T # {}
  BY EndLast
<1>2. Min(T) \in T /\ \A x \in T : Min(T) <= x
  BY <1>1, MinOf
<1> QED
  BY <1>2 DEF After

\* The last key of the map before k, if there is one.
LEMMA PrevIs ==
    ASSUME NEW S \in SUBSET Keys, NEW k \in Nat
    PROVE  /\ Prev(S, k) \in S \cup {0}
           /\ Prev(S, k) # 0 => Prev(S, k) < k
           /\ \A x \in S : x < k => x <= Prev(S, k)
<1> DEFINE T == {x \in S : x < k} \cup {0}
<1>0. S \subseteq Nat
  BY EndLast
<1>1. T \in SUBSET Nat /\ T # {}
  <2>1. \A x \in T : x \in Nat
    BY <1>0
  <2>2. 0 \in T
    OBVIOUS
  <2> QED
    BY <2>1, <2>2, Zenon
<1>a. ASSUME NEW x \in T PROVE x <= k
  BY EndLast
<1>2. Max(T) \in T /\ \A x \in T : x <= Max(T)
  BY <1>1, <1>a, MaxOf
<1> QED
  BY <1>2 DEF Prev

LEMMA FindIs ==
    ASSUME NEW S \in SUBSET Keys, NEW k \in Keys
    PROVE  find(S, k) \in S \cup {End}
  BY DEF find

(***************************************************************************)
(* The index as a function.                                                *)
(***************************************************************************)
LEMMA IndexIs ==
    ASSUME NEW f PROVE f \in IndexType <=> f \in [DOMAIN f -> Nat] /\ DOMAIN f \subseteq Keys
  BY DEF IndexType

LEMMA NoEntriesIs == NoEntries \in IndexType /\ DOMAIN NoEntries = {}
<1>1. NoEntries \in [{} -> Nat] /\ DOMAIN NoEntries = {}
  BY DEF NoEntries
<1> QED
  BY <1>1, IndexIs

LEMMA PutIs ==
    ASSUME NEW f \in IndexType, NEW k \in Keys, NEW n \in Nat
    PROVE  /\ Put(f, k, n) \in IndexType
           /\ DOMAIN Put(f, k, n) = DOMAIN f \cup {k}
           /\ Put(f, k, n)[k] = n
           /\ \A x \in DOMAIN f : x # k => Put(f, k, n)[x] = f[x]
<1>1. f \in [DOMAIN f -> Nat] /\ DOMAIN f \subseteq Keys
  BY IndexIs
<1>2. Put(f, k, n) \in [DOMAIN f \cup {k} -> Nat]
  BY <1>1 DEF Put
<1>3. DOMAIN f \cup {k} \in SUBSET Keys
  BY <1>1
<1> QED
  BY <1>1, <1>2, <1>3, IndexIs DEF Put

LEMMA UnsetIs ==
    Unset \in IterType /\ Unset.owner = NoHandle /\ (\A bs : Holds(Unset, bs))
  BY EndLast DEF Unset, IterType, Unread, LazyType, Holds

\* Calls other than as leave no result.
LEMMA QuietReads ==
    ASSUME NoCall PROVE ReadsRight'
  BY DEF NoCall, Silence, ReadsRight

-------------------------------------------------------------------------------
(***************************************************************************)
(* The steps of an iterator.                                               *)
(***************************************************************************)
LEMMA IterFacts ==
    ASSUME IInv, NEW i \in Iters
    PROVE  /\ it \in [Iters -> IterType] /\ it[i] \in IterType
           /\ DOMAIN entries \in SUBSET Keys /\ Keys \subseteq Nat
           /\ Holds(it[i], blocks) /\ it[i].at \in Nat
           /\ it[i].owner # NoHandle => /\ it[i].owner \in Handles
                                        /\ handle[it[i].owner].stream
                                        /\ Index(i) = entries
                                        /\ Stands(it[i], DOMAIN entries)
<1>1. it \in [Iters -> IterType] /\ it[i] \in IterType /\ entries \in IndexType
  BY DEF IInv, StateType
<1>2. DOMAIN entries \in SUBSET Keys /\ Keys \subseteq Nat
  BY <1>1, IndexIs, EndLast
<1>3. /\ it[i].owner # NoHandle => it[i].owner \in Handles
      /\ it[i].at \in Keys \cup {0, End}
  BY <1>1 DEF IterType
<1>4. it[i].at \in Nat
  BY <1>2, <1>3, EndLast
<1> QED
  BY <1>1, <1>2, <1>3, <1>4 DEF IInv, StandInv, PairInv, OwnerInv, Index

\* A step that gives iterator i the value x, and changes no other.
LEMMA IterStep ==
    ASSUME IInv, NEW i \in Iters, NEW x \in IterType, it' = [it EXCEPT ![i] = x],
           UNCHANGED <<handle, blocks, stored, entries, crashed>>, ReadsRight',
           x.owner # NoHandle => handle[x.owner].stream /\ Stands(x, DOMAIN entries),
           Holds(x, blocks)
    PROVE  IInv'
<1>1. it \in [Iters -> IterType] /\ it' \in [Iters -> IterType] /\ it'[i] = x
  BY DEF IInv, StateType
<1>2. \A j \in Iters \ {i} : it'[j] = it[j]
  BY <1>1
<1>3. StateType' /\ OwnerInv' /\ EntriesInv'
  BY <1>1 DEF IInv, StateType, OwnerInv, EntriesInv
<1>4. StandInv'
  BY <1>1, <1>2 DEF IInv, StandInv
<1>5. PairInv'
  BY <1>1, <1>2 DEF IInv, PairInv
<1> QED
  BY <1>3, <1>4, <1>5 DEF IInv

\* A new position; the pair stays.
LEMMA PlaceStep ==
    ASSUME IInv, NEW i \in Iters, it[i].owner # NoHandle,
           NEW a \in DOMAIN entries \cup {End}, NEW due \in SUBSET (DOMAIN entries),
           \A k \in due : IF it[i].rev THEN k < a ELSE a <= k,
           it' = [it EXCEPT ![i].at = a, ![i].due = due],
           UNCHANGED <<handle, blocks, stored, entries, crashed>>, NoCall
    PROVE  IInv'
<1> DEFINE x == [it[i] EXCEPT !.at = a, !.due = due]
<1>1. /\ it \in [Iters -> IterType] /\ it[i] \in IterType
      /\ DOMAIN entries \in SUBSET Keys /\ Holds(it[i], blocks)
      /\ handle[it[i].owner].stream
  BY IterFacts
<1>2. it' = [it EXCEPT ![i] = x]
  BY <1>1
<1>3. /\ x \in IterType /\ x.owner = it[i].owner /\ x.at = a /\ x.due = due /\ x.rev = it[i].rev
      /\ x.pos = it[i].pos /\ x.key = it[i].key /\ x.want = it[i].want /\ x.lazy = it[i].lazy
      /\ x.used = it[i].used
  BY <1>1 DEF IterType
<1>4. Stands(x, DOMAIN entries)
  BY <1>3 DEF Stands
<1>5. Holds(x, blocks)
  BY <1>1, <1>3 DEF Holds
<1> HIDE DEF x
<1> QED
  BY <1>1, <1>2, <1>3, <1>4, <1>5, QuietReads, IterStep

LEMMA IncrementStep ==
    ASSUME IInv, NEW i \in Iters, Increment(i) PROVE IInv'
<1> DEFINE S == DOMAIN entries
           e == Element(it[i], S)
           a == IF it[i].rev THEN e ELSE Next1(S, e)
<1>0. it[i].owner # NoHandle /\ Index(i) = entries /\ S \in SUBSET Keys /\ Keys \subseteq Nat
  BY IterFacts DEF Increment
<1>1. /\ e # 0 /\ it' = [it EXCEPT ![i].at = a, ![i].due = it[i].due \ {e}]
      /\ UNCHANGED <<handle, blocks, stored, entries, crashed>> /\ NoCall
  BY <1>0, IterFacts DEF Increment
<1>2. Stands(it[i], S) /\ it[i].at \in Nat /\ it[i] \in IterType
  BY <1>0, IterFacts
<1>3. a \in S \cup {End} /\ \A k \in it[i].due \ {e} : IF it[i].rev THEN k < a ELSE a <= k
  <2>1. CASE it[i].rev
    <3>1. e = Prev(S, it[i].at) /\ a = e
      BY <2>1 DEF Element
    <3>2. e \in S /\ \A x \in S : x < it[i].at => x <= e
      BY <1>0, <1>1, <1>2, <3>1, PrevIs
    <3>3. ASSUME NEW k \in it[i].due \ {e} PROVE k < a
      <4>1. k \in S /\ k < it[i].at /\ k \in Nat /\ e \in Nat
        BY <1>0, <1>2, <2>1, <3>2 DEF Stands
      <4> QED
        BY <3>1, <3>2, <4>1
    <3> QED
      BY <2>1, <3>1, <3>2, <3>3
  <2>2. CASE ~it[i].rev
    <3>1. e = it[i].at /\ e # End /\ a = Next1(S, e)
      BY <1>1, <2>2 DEF Element
    <3>2. e \in S /\ e \in Nat
      BY <1>0, <1>2, <3>1 DEF Stands
    <3>3. a \in S \cup {End} /\ \A x \in S : x >= e + 1 => a <= x
      <4>1. e + 1 \in Nat /\ a = After(S, e + 1)
        BY <3>1, <3>2 DEF Next1
      <4> HIDE DEF a, e
      <4> QED
        BY <1>0, <4>1, AfterIs
    <3>4. ASSUME NEW k \in it[i].due \ {e} PROVE a <= k
      <4>1. k \in S /\ e <= k /\ k \in Nat /\ k # e
        BY <1>0, <1>2, <2>2, <3>1 DEF Stands
      <4> QED
        BY <3>2, <3>3, <4>1
    <3> QED
      BY <2>2, <3>3, <3>4
  <2> QED
    BY <2>1, <2>2
<1>4. it[i].due \ {e} \in SUBSET S
  BY <1>2 DEF Stands
<1> HIDE DEF a, e
<1> QED
  BY <1>0, <1>1, <1>3, <1>4, PlaceStep

LEMMA DecrementStep ==
    ASSUME IInv, NEW i \in Iters, Decrement(i) PROVE IInv'
<1> DEFINE S == DOMAIN entries
           p == IF it[i].rev THEN Next1(S, it[i].at) ELSE Prev(S, it[i].at)
           due == Due(it[i].rev, S, p)
<1>0. it[i].owner # NoHandle /\ Index(i) = entries /\ S \in SUBSET Keys /\ Keys \subseteq Nat
  BY IterFacts DEF Decrement
<1>1. /\ IF it[i].rev THEN it[i].at # End ELSE p # 0
      /\ it' = [it EXCEPT ![i].at = p, ![i].due = due]
      /\ UNCHANGED <<handle, blocks, stored, entries, crashed>> /\ NoCall
  BY <1>0 DEF Decrement
<1>2. it[i].at \in Nat
  BY <1>0, IterFacts
<1>3. p \in S \cup {End}
  <2>1. CASE it[i].rev
    BY <1>0, <1>2, <2>1, AfterIs DEF Next1
  <2>2. CASE ~it[i].rev
    BY <1>0, <1>1, <1>2, <2>2, PrevIs
  <2> QED
    BY <2>1, <2>2
<1>4. due \in SUBSET S /\ \A k \in due : IF it[i].rev THEN k < p ELSE p <= k
  BY <1>0, <1>3, EndLast DEF Due
<1> HIDE DEF p, due
<1> QED
  BY <1>0, <1>1, <1>3, <1>4, PlaceStep

\* Wherever an iterator is put, what is due from there lies before it.
WellPlaced(p, S) ==
    /\ p.rev \in BOOLEAN /\ p.at \in S \cup {End}
    /\ Due(p.rev, S, p.from) \in SUBSET S
    /\ \A x \in Due(p.rev, S, p.from) : IF p.rev THEN x < p.at ELSE p.at <= x

LEMMA PlacedIs ==
    ASSUME NEW start \in Starts, NEW S \in SUBSET Keys, NEW k \in Keys
    PROVE  WellPlaced(Placed(start, S, k), S)
<1> DEFINE p == Placed(start, S, k)
           Onward(at, from) == at \in S \cup {End} /\ \A x \in S : x >= from => at <= x
<1>0. k \in Nat /\ k + 1 \in Nat /\ S \subseteq Nat /\ 0 \in Nat
  BY EndLast
<1>1. /\ Onward(After(S, 0), 0) /\ Onward(lower_bound(S, k), k)
      /\ Onward(upper_bound(S, k), k + 1)
  BY <1>0, AfterIs DEF lower_bound, upper_bound, Next1
<1>2. Onward(find(S, k), find(S, k))
  <2>1. find(S, k) \in S \cup {End} /\ find(S, k) \in Nat
    BY <1>0, FindIs, EndLast
  <2> QED
    BY <1>0, <2>1
<1> HIDE DEF Onward
<1>3. /\ p.rev \in BOOLEAN
      /\ \/ p.rev /\ p.at = End /\ p.from = End
         \/ ~p.rev /\ Onward(p.at, p.from)
  <2>1. start \in {"begin", "rbegin", "lower_bound", "upper_bound", "find"}
    BY IterationAssumption
  <2>2. CASE start = "begin"
    <3>1. p = [rev |-> FALSE, at |-> After(S, 0), from |-> 0]
      BY <2>2, Zenon DEF Placed
    <3> QED
      BY <1>1, <3>1
  <2>3. CASE start = "rbegin"
    <3>1. p = [rev |-> TRUE, at |-> End, from |-> End]
      BY <2>3, Zenon DEF Placed
    <3> QED
      BY <3>1
  <2>4. CASE start = "lower_bound"
    <3>1. p = [rev |-> FALSE, at |-> lower_bound(S, k), from |-> k]
      BY <2>4, Zenon DEF Placed
    <3> QED
      BY <1>1, <3>1
  <2>5. CASE start = "find"
    <3>1. p = [rev |-> FALSE, at |-> find(S, k), from |-> find(S, k)]
      BY <2>5, Zenon DEF Placed
    <3> QED
      BY <1>2, <3>1
  <2>6. CASE start = "upper_bound"
    <3>1. p = [rev |-> FALSE, at |-> upper_bound(S, k), from |-> k + 1]
      BY <2>6, Zenon DEF Placed
    <3> QED
      BY <1>1, <3>1
  <2> QED
    BY <2>1, <2>2, <2>3, <2>4, <2>5, <2>6
<1> HIDE DEF p
<1>4. ASSUME p.rev, p.at = End, p.from = End PROVE WellPlaced(p, S)
  <2>1. Due(p.rev, S, p.from) = {x \in S : x < End}
    BY <1>4 DEF Due
  <2> QED
    BY <1>3, <1>4, <2>1 DEF WellPlaced
<1>5. ASSUME ~p.rev, Onward(p.at, p.from) PROVE WellPlaced(p, S)
  <2>1. Due(p.rev, S, p.from) = {x \in S : x >= p.from}
    BY <1>5 DEF Due
  <2> QED
    BY <1>3, <1>5, <2>1 DEF Onward, WellPlaced
<1>6. WellPlaced(p, S)
  BY <1>3, <1>4, <1>5
<1> QED
  BY <1>6 DEF p

LEMMA StartStep ==
    ASSUME IInv, NEW i \in Iters, NEW h \in Handles, NEW s \in Starts, NEW k \in Keys,
           Start(i, h, s, k)
    PROVE  IInv'
<1> DEFINE S == DOMAIN entries
           p == Placed(s, S, k)
           x == [Unset EXCEPT !.owner = h, !.rev = p.rev, !.at = p.at,
                              !.due = Due(p.rev, S, p.from)]
<1>0. handle[h].stream /\ handle[h].index = entries /\ S \in SUBSET Keys /\ h # NoHandle
  BY IterFacts, IterationAssumption DEF Start, IInv, OwnerInv
<1>1. /\ it' = [it EXCEPT ![i] = x]
      /\ UNCHANGED <<handle, blocks, stored, entries, crashed>> /\ NoCall
  BY <1>0 DEF Start
<1>2. WellPlaced(p, S)
  BY <1>0, PlacedIs
<1> HIDE DEF p
<1>3. /\ x.owner = h /\ x.rev = p.rev /\ x.at = p.at /\ x.due = Due(p.rev, S, p.from)
      /\ x.key = 0 /\ x.pos = 0 /\ x.lazy = Unread /\ x.want = 0 /\ x.used = FALSE
  BY DEF Unset
<1>4. x \in IterType
  BY <1>0, <1>2, UnsetIs DEF Unset, IterType, WellPlaced
<1>5. Stands(x, S)
  BY <1>2, <1>3 DEF Stands, WellPlaced
<1>6. Holds(x, blocks)
  BY <1>3 DEF Holds, Unread
<1> HIDE DEF x
<1> QED
  BY <1>0, <1>1, <1>3, <1>4, <1>5, <1>6, QuietReads, IterStep

LEMMA DerefStep ==
    ASSUME IInv, NEW i \in Iters, Deref(i) PROVE IInv'
<1> DEFINE S == DOMAIN entries
           e == Element(it[i], S)
           x == [deref(it[i], e, entries[e]) EXCEPT !.want = blocks[entries[e]], !.used = FALSE]
<1>0. /\ it[i].owner # NoHandle /\ Index(i) = entries /\ S \in SUBSET Keys /\ Keys \subseteq Nat
      /\ it[i] \in IterType /\ it[i].at \in Nat /\ Stands(it[i], S) /\ handle[it[i].owner].stream
  BY IterFacts DEF Deref
<1>1. /\ e # 0 /\ it' = [it EXCEPT ![i] = x]
      /\ UNCHANGED <<handle, blocks, stored, entries, crashed>> /\ NoCall
  BY <1>0 DEF Deref
<1>2. e \in S
  <2>1. CASE it[i].rev
    BY <1>0, <1>1, <2>1, PrevIs DEF Element
  <2>2. CASE ~it[i].rev
    BY <1>0, <1>1, <2>2 DEF Element, Stands
  <2> QED
    BY <2>1, <2>2
<1>3. entries[e] \in 1..Len(blocks) /\ blocks[entries[e]] \in Nat /\ blocks \in Seq(Nat)
  BY <1>2, ElementOfSeq DEF IInv, EntriesInv, StateType
<1> HIDE DEF e
<1>4. /\ x.owner = it[i].owner /\ x.rev = it[i].rev /\ x.at = it[i].at /\ x.due = it[i].due
      /\ x.key = e /\ x.pos = entries[e] /\ x.lazy = Unread /\ x.want = blocks[entries[e]]
      /\ x.used = FALSE
  BY <1>0 DEF deref, IterType
<1>5. x \in IterType
  <2>0. Unread \in LazyType
    BY DEF Unread, LazyType
  <2>1. Unread \in LazyType /\ e \in Nat /\ entries[e] \in Nat
    <3>1. e \in Nat
      BY <1>0, <1>2
    <3>2. Len(blocks) \in Nat
      BY <1>3
    <3> QED
      BY <1>3, <2>0, <3>1, <3>2
  <2> QED
    BY <1>0, <1>3, <2>1 DEF deref, IterType
<1>6. Stands(x, S)
  BY <1>0, <1>4 DEF Stands
<1>7. Holds(x, blocks)
  BY <1>3, <1>4 DEF Holds, Unread
<1> HIDE DEF x
<1> QED
  BY <1>0, <1>1, <1>4, <1>5, <1>6, <1>7, QuietReads, IterStep

LEMMA CopyStep ==
    ASSUME IInv, NEW i \in Iters, NEW j \in Iters, Copy(i, j) PROVE IInv'
<1>1. /\ it' = [it EXCEPT ![j] = it[i]]
      /\ UNCHANGED <<handle, blocks, stored, entries, crashed>> /\ NoCall
  BY DEF Copy
<1> QED
  BY <1>1, IterFacts, QuietReads, IterStep

\* as on a lazy_value that has read the value, and is taken only if it was used.
AsGives(l, t, r) ==
    \/ r.out = "type_mismatch" /\ r.lazy = l /\ t # TypeOf(l.value)
    \/ r.out = "refused" /\ r.lazy = l /\ t = TypeOf(l.value) /\ l.taken
    \/ r.out = "value" /\ r.lazy = [l EXCEPT !.taken = TRUE] /\ t = TypeOf(l.value)

LEMMA AsIs ==
    ASSUME NEW l \in LazyType, NEW t PROVE AsGives(l, t, as(l, t))
<1>1. CASE t # TypeOf(l.value)
  <2>1. as(l, t) = [out |-> "type_mismatch", lazy |-> l]
    BY <1>1, Zenon DEF as
  <2> QED
    BY <1>1, <2>1 DEF AsGives
<1>2. CASE t = TypeOf(l.value) /\ l.taken /\ Identity(l.value)
  <2>1. as(l, t) = [out |-> "refused", lazy |-> l]
    BY <1>2, Zenon DEF as
  <2> QED
    BY <1>2, <2>1 DEF AsGives
<1>3. CASE t = TypeOf(l.value) /\ ~(l.taken /\ Identity(l.value))
  <2>1. as(l, t) = [out |-> "value", lazy |-> [l EXCEPT !.taken = TRUE]]
    BY <1>3, Zenon DEF as
  <2> QED
    BY <1>3, <2>1 DEF AsGives
<1> QED
  BY <1>1, <1>2, <1>3

LEMMA AsStep ==
    ASSUME IInv, NEW i \in Iters, NEW t \in {0, 1}, As(i, t) PROVE IInv'
<1> DEFINE l == force(it[i])
           r == as(l, t)
           x == [it[i] EXCEPT !.lazy = r.lazy, !.used = it[i].used \/ r.out = "value"]
<1>0. /\ it \in [Iters -> IterType] /\ it[i] \in IterType /\ it[i].owner # NoHandle
      /\ Stands(it[i], DOMAIN entries) /\ handle[it[i].owner].stream
      /\ Holds(it[i], blocks) /\ it[i].key # 0
  BY IterFacts DEF As
<1>1. /\ it' = [it EXCEPT ![i] = x]
      /\ got' = [out |-> r.out, value |-> l.value, type |-> t,
                 want |-> it[i].want, used |-> it[i].used]
      /\ UNCHANGED <<handle, blocks, stored, entries, crashed>>
  BY <1>0 DEF As
<1>2. l \in LazyType /\ l.value = it[i].want /\ (l.taken => it[i].used) /\ l.read
  <2>1. it[i].lazy \in LazyType /\ it[i].want \in Nat
    BY <1>0 DEF IterType
  <2>2. CASE it[i].lazy.read
    BY <1>0, <2>1, <2>2 DEF force, Holds
  <2>3. CASE ~it[i].lazy.read
    <3>1. l = [read |-> TRUE, value |-> blocks[it[i].pos], taken |-> FALSE]
      BY <2>3 DEF force
    <3>2. blocks[it[i].pos] = it[i].want
      BY <1>0 DEF Holds
    <3> QED
      BY <2>1, <3>1, <3>2 DEF LazyType
  <2> QED
    BY <2>2, <2>3
<1> HIDE DEF l
<1>3. AsGives(l, t, r)
  BY <1>2, AsIs
<1> HIDE DEF r
<1>4. /\ r.lazy \in LazyType /\ r.lazy.read /\ r.lazy.value = it[i].want
      /\ r.lazy.taken => it[i].used \/ r.out = "value"
  <2>1. [l EXCEPT !.taken = TRUE] \in LazyType
    BY <1>2 DEF LazyType
  <2>2. /\ [l EXCEPT !.taken = TRUE].read = l.read
        /\ [l EXCEPT !.taken = TRUE].value = l.value
    BY <1>2 DEF LazyType
  <2> QED
    BY <1>2, <1>3, <2>1, <2>2 DEF AsGives
<1>5. ReadsRight'
  <2>1. /\ got'.out = r.out /\ got'.value = l.value /\ got'.type = t
        /\ got'.want = it[i].want /\ got'.used = it[i].used
    BY <1>1
  <2> QED
    BY <1>2, <1>3, <2>1 DEF ReadsRight, AsGives
<1>6. /\ x.owner = it[i].owner /\ x.rev = it[i].rev /\ x.at = it[i].at /\ x.due = it[i].due
      /\ x.key = it[i].key /\ x.pos = it[i].pos /\ x.want = it[i].want /\ x.lazy = r.lazy
      /\ x.used = (it[i].used \/ r.out = "value")
  BY <1>0 DEF IterType
<1>7. x \in IterType
  <2>1. (it[i].used \/ r.out = "value") \in BOOLEAN
    OBVIOUS
  <2> QED
    BY <1>0, <1>4, <2>1 DEF IterType
<1> HIDE DEF x
<1>8. Stands(x, DOMAIN entries)
  BY <1>0, <1>6 DEF Stands
<1>9. Holds(x, blocks)
  <2>1. x.lazy.taken => x.used
    BY <1>4, <1>6
  <2>2. x.lazy.read /\ x.lazy.value = x.want
    BY <1>4, <1>6
  <2>3. x.pos = it[i].pos /\ x.want = it[i].want /\ x.key = it[i].key
    BY <1>6
  <2> QED
    BY <1>0, <2>1, <2>2, <2>3 DEF Holds
<1> QED
  BY <1>0, <1>1, <1>5, <1>6, <1>7, <1>8, <1>9, IterStep

-------------------------------------------------------------------------------
(***************************************************************************)
(* The steps of a handle.                                                  *)
(***************************************************************************)
LEMMA InsertStep ==
    ASSUME IInv, NEW h \in Handles, NEW k \in Keys, NEW v \in Values, Insert(h, k, v)
    PROVE  IInv'
<1> DEFINE n == Len(blocks) + 1
<1>0. /\ handle \in [Handles -> HandleType] /\ handle[h] \in HandleType /\ blocks \in Seq(Nat)
      /\ entries \in IndexType /\ it \in [Iters -> IterType] /\ v \in Nat
      /\ handle[h].stream /\ handle[h].alive /\ handle[h].index = entries
  BY IterationAssumption DEF IInv, StateType, OwnerInv, Insert
<1>1. /\ blocks' \in Seq(Nat) /\ Len(blocks') = n /\ n \in Nat /\ Len(blocks) \in Nat
      /\ \A q \in 1..Len(blocks) : blocks'[q] = blocks[q]
  BY <1>0, AppendProperties DEF Insert
<1>2. /\ handle' = [handle EXCEPT ![h].index = Put(entries, k, n), ![h].need = TRUE]
      /\ entries' = Put(entries, k, n)
      /\ stored' = stored /\ it' = it /\ crashed' = crashed /\ NoCall
  BY <1>0, <1>1 DEF Insert, remembered_append
<1>3. /\ entries' \in IndexType /\ DOMAIN entries' = DOMAIN entries \cup {k}
      /\ entries'[k] = n /\ \A x \in DOMAIN entries : x # k => entries'[x] = entries[x]
  <2>1. entries \in IndexType /\ n \in Nat /\ entries' = Put(entries, k, n)
    BY <1>0, <1>1, <1>2
  <2> HIDE DEF n
  <2> QED
    BY <2>1, PutIs
<1>4. /\ handle' \in [Handles -> HandleType]
      /\ \A g \in Handles \ {h} : handle'[g] = handle[g]
      /\ handle'[h].alive = handle[h].alive /\ handle'[h].stream = handle[h].stream
      /\ handle'[h].index = entries' /\ handle'[h].need = TRUE
  BY <1>0, <1>2, <1>3 DEF HandleType
<1>5. StateType'
  BY <1>1, <1>2, <1>3, <1>4 DEF IInv, StateType
<1>6. \A g \in Handles : (handle'[g].stream <=> handle[g].stream) /\ (handle[g].stream => g = h)
  BY <1>0, <1>4 DEF IInv, OwnerInv
<1>7. OwnerInv'
  BY <1>0, <1>2, <1>4, <1>6 DEF IInv, OwnerInv
<1>8. EntriesInv'
  BY <1>1, <1>3 DEF IInv, EntriesInv
<1>9. StandInv'
  <2> SUFFICES ASSUME NEW i \in Iters, it[i].owner # NoHandle
               PROVE  handle'[it[i].owner].stream /\ Stands(it[i], DOMAIN entries')
    BY <1>2 DEF StandInv
  <2>1. /\ it[i].owner \in Handles /\ handle[it[i].owner].stream
        /\ Stands(it[i], DOMAIN entries)
    BY IterFacts
  <2> QED
    BY <1>3, <1>6, <2>1 DEF Stands
<1>10. PairInv'
  BY <1>1, <1>2 DEF IInv, PairInv, Holds
<1> QED
  BY <1>2, <1>5, <1>7, <1>8, <1>9, <1>10, QuietReads DEF IInv

LEMMA MoveStep ==
    ASSUME IInv, NEW h \in Handles, NEW g \in Handles, Move(h, g)
    PROVE  IInv'
<1>0. /\ handle \in [Handles -> HandleType] /\ handle[h] \in HandleType
      /\ handle[h].stream /\ handle[h].index = entries /\ h # g
      /\ (stored # entries => handle[h].need) /\ handle[h].alive
      /\ it \in [Iters -> IterType] /\ g # NoHandle
      /\ \A f \in Handles : handle[f].stream => f = h
  BY IterationAssumption DEF IInv, StateType, OwnerInv, Move
<1>1. /\ handle' = [handle EXCEPT ![g] = handle[h],
                                  ![h] = [handle[h] EXCEPT !.stream = FALSE, !.index = NoEntries]]
      /\ blocks' = blocks /\ stored' = stored /\ entries' = entries /\ crashed' = crashed
      /\ NoCall
  BY DEF Move, moved_to, moved_from
<1>2. /\ handle' \in [Handles -> HandleType]
      /\ \A f \in Handles \ {g, h} : handle'[f] = handle[f]
      /\ handle'[g] = handle[h]
      /\ handle'[h].stream = FALSE /\ handle'[h].index = NoEntries
  BY <1>0, <1>1, NoEntriesIs DEF HandleType
<1>3. OwnerInv'
  <2>1. handle'[h].stream = FALSE /\ ~handle'[h].stream
    BY <1>2
  <2>2. \A f \in Handles : handle'[f].stream => f = g
    BY <1>0, <1>2, <2>1
  <2>3. handle'[g].stream
    BY <1>0, <1>2
  <2>4. \A f \in Handles \ {g} : ~handle'[f].stream /\ handle'[f].index = NoEntries
    BY <1>0, <1>2, <2>1 DEF IInv, OwnerInv
  <2> QED
    BY <1>0, <1>1, <1>2, <2>2, <2>3, <2>4 DEF OwnerInv
<1>4. ASSUME NEW i \in Iters
      PROVE  \/ it'[i] = it[i] /\ it[i].owner = NoHandle
             \/ it'[i] = Unset
             \/ it'[i] = [it[i] EXCEPT !.owner = g] /\ it[i].owner = h
  <2>1. it'[i] = CASE it[i].owner # h    -> it[i]
                   [] it[i].owner = h /\ it[i].at = End -> Unset
                   [] OTHER              -> [it[i] EXCEPT !.owner = g]
    BY Zenon DEF Move
  <2>2. CASE it[i].owner # h
    <3>1. it'[i] = it[i]
      BY <2>1, <2>2, Zenon
    <3>2. it[i].owner = NoHandle
      BY <1>0, <2>2, IterFacts
    <3> QED
      BY <3>1, <3>2
  <2>3. CASE it[i].owner = h /\ it[i].at = End
    BY <2>1, <2>3, Zenon
  <2>4. CASE it[i].owner = h /\ it[i].at # End
    BY <2>1, <2>4, Zenon
  <2> QED
    BY <2>2, <2>3, <2>4
<1>5. ASSUME NEW i \in Iters
      PROVE  /\ it'[i] \in IterType /\ Holds(it'[i], blocks)
             /\ it'[i].owner # NoHandle => it'[i].owner = g /\ Stands(it'[i], DOMAIN entries)
  <2>1. it[i] \in IterType /\ Holds(it[i], blocks)
    BY IterFacts
  <2>2. CASE it'[i] = it[i] /\ it[i].owner = NoHandle
    BY <2>1, <2>2
  <2>3. CASE it'[i] = Unset
    BY <2>3, UnsetIs
  <2>4. CASE it'[i] = [it[i] EXCEPT !.owner = g] /\ it[i].owner = h
    <3>1. Stands(it[i], DOMAIN entries)
      BY <1>0, <2>4, IterFacts, IterationAssumption
    <3> DEFINE x == [it[i] EXCEPT !.owner = g]
    <3>2. /\ x \in IterType /\ x.owner = g /\ x.rev = it[i].rev /\ x.at = it[i].at
          /\ x.due = it[i].due /\ x.pos = it[i].pos /\ x.key = it[i].key
          /\ x.want = it[i].want /\ x.lazy = it[i].lazy /\ x.used = it[i].used
      BY <2>1 DEF IterType
    <3>3. Stands(x, DOMAIN entries)
      BY <3>1, <3>2 DEF Stands
    <3>4. Holds(x, blocks)
      BY <2>1, <3>2 DEF Holds
    <3> HIDE DEF x
    <3>5. it'[i] = x
      BY <2>4 DEF x
    <3> QED
      BY <3>2, <3>3, <3>4, <3>5
  <2> QED
    BY <1>4, <2>2, <2>3, <2>4
<1>6. it' \in [Iters -> IterType]
  <2>1. DOMAIN it' = Iters /\ it' = [i \in Iters |-> it'[i]]
    BY Zenon DEF Move
  <2> QED
    BY <1>5, <2>1
<1>7. StateType'
  BY <1>1, <1>2, <1>6 DEF IInv, StateType
<1>8. EntriesInv' /\ PairInv'
  BY <1>1, <1>5 DEF IInv, EntriesInv, PairInv
<1>9. StandInv'
  BY <1>0, <1>1, <1>2, <1>5 DEF StandInv
<1> QED
  BY <1>1, <1>3, <1>7, <1>8, <1>9, QuietReads DEF IInv

LEMMA DestroyStep ==
    ASSUME IInv, NEW h \in Handles, Destroy(h)
    PROVE  IInv'
<1>0. /\ handle \in [Handles -> HandleType] /\ handle[h] \in HandleType
      /\ it \in [Iters -> IterType] /\ stored \in IndexType /\ entries \in IndexType
      /\ (handle[h].stream => handle[h].index = entries /\ (stored # entries => handle[h].need))
  BY DEF IInv, StateType, OwnerInv
<1>1. /\ stored' = (IF handle[h].need /\ handle[h].stream THEN handle[h].index ELSE stored)
      /\ handle' = [handle EXCEPT ![h] = Dead]
      /\ it' = [i \in Iters |-> IF it[i].owner = h THEN Unset ELSE it[i]]
      /\ blocks' = blocks /\ entries' = entries /\ NoCall
  BY DEF Destroy
<1>2. crashed' \in BOOLEAN
  BY Zenon DEF Destroy
<1>3. /\ Dead \in HandleType /\ ~Dead.stream /\ Dead.index = NoEntries
  BY NoEntriesIs DEF Dead, HandleType
<1>4. /\ handle' \in [Handles -> HandleType] /\ handle'[h] = Dead
      /\ \A g \in Handles \ {h} : handle'[g] = handle[g]
  BY <1>0, <1>1, <1>3
<1>5. ASSUME NEW i \in Iters
      PROVE  \/ it'[i] = Unset
             \/ it'[i] = it[i] /\ it[i].owner # h
  BY <1>1
<1>6. StateType'
  <2>1. it' \in [Iters -> IterType]
    BY <1>0, <1>1, UnsetIs
  <2>2. stored' \in IndexType
    BY <1>0, <1>1
  <2> QED
    BY <1>1, <1>2, <1>4, <2>1, <2>2 DEF IInv, StateType
<1>7. OwnerInv'
  <2>1. CASE handle[h].stream
    <3>1. stored' = entries
      BY <1>0, <1>1, <2>1
    <3>2. \A g \in Handles : ~handle'[g].stream /\ handle'[g].index = NoEntries
      BY <1>3, <1>4, <2>1 DEF IInv, OwnerInv
    <3> QED
      BY <1>1, <3>1, <3>2 DEF OwnerInv
  <2>2. CASE ~handle[h].stream
    <3>1. stored' = stored
      BY <1>1, <2>2
    <3>2. \A g \in Handles : handle'[g].stream => g # h /\ handle'[g] = handle[g]
      BY <1>3, <1>4
    <3>3. \A g \in Handles : handle[g].stream => handle'[g].stream
      BY <1>4, <2>2
    <3>4. \A g \in Handles : ~handle'[g].stream => handle'[g].index = NoEntries
      BY <1>3, <1>4 DEF IInv, OwnerInv
    <3> QED
      BY <1>1, <3>1, <3>2, <3>3, <3>4 DEF IInv, OwnerInv
  <2> QED
    BY <2>1, <2>2
<1>8. EntriesInv' /\ PairInv'
  BY <1>1, <1>5, UnsetIs DEF IInv, EntriesInv, PairInv
<1>9. StandInv'
  <2> SUFFICES ASSUME NEW i \in Iters, it'[i].owner # NoHandle
               PROVE  handle'[it'[i].owner].stream /\ Stands(it'[i], DOMAIN entries)
    BY <1>1 DEF StandInv
  <2>1. it'[i] = it[i] /\ it[i].owner # h /\ it[i].owner \in Handles
    BY <1>5, UnsetIs, IterFacts
  <2> QED
    BY <1>4, <2>1, IterFacts
<1> QED
  BY <1>1, <1>6, <1>7, <1>8, <1>9, QuietReads DEF IInv

-------------------------------------------------------------------------------
(***************************************************************************)
(* The theorems.                                                           *)
(***************************************************************************)
LEMMA StutterStep ==
    ASSUME IInv, UNCHANGED vars PROVE IInv'
<1>1. /\ handle' = handle /\ blocks' = blocks /\ stored' = stored /\ entries' = entries
      /\ it' = it /\ got' = got /\ crashed' = crashed
  BY DEF vars
<1> QED
  BY <1>1 DEF IInv, StateType, OwnerInv, EntriesInv, StandInv, PairInv, ReadsRight

LEMMA InitIInv == Init => IInv
<1> SUFFICES ASSUME Init PROVE IInv
  OBVIOUS
<1>0. /\ blocks \in {<<>>, <<Min(Values)>>}
      /\ stored = [k \in {Min(Keys) : b \in DOMAIN blocks} |-> 1] /\ entries = stored
      /\ it = [i \in Iters |-> Unset] /\ got = Silence /\ crashed = FALSE
  BY DEF Init
<1>1. PICK h \in Handles : handle = [g \in Handles |->
                               IF g = h THEN Fresh(blocks = <<>>, entries) ELSE Dead]
  BY DEF Init
<1>2. Min(Values) \in Nat
  BY IterationAssumption, MinOf
<1>3. blocks \in Seq(Nat) /\ (DOMAIN blocks = {} \/ (DOMAIN blocks = {1} /\ Len(blocks) = 1))
  <2>1. CASE blocks = <<>>
    BY <2>1
  <2>2. CASE blocks = <<Min(Values)>>
    <3> DEFINE m == Min(Values)
    <3>1. m \in Nat /\ blocks = <<m>>
      BY <1>2, <2>2
    <3> HIDE DEF m
    <3> QED
      BY <3>1
  <2> QED
    BY <1>0, <2>1, <2>2
<1>4. /\ entries \in [DOMAIN entries -> Nat] /\ DOMAIN entries \subseteq {Min(Keys)}
      /\ \A k \in DOMAIN entries : entries[k] = 1 /\ DOMAIN blocks # {}
  BY <1>0
<1>5. entries \in IndexType
  BY <1>4, EndLast, IndexIs
<1>6. EntriesInv
  BY <1>3, <1>4 DEF EntriesInv
<1>7. /\ handle \in [Handles -> HandleType]
      /\ handle[h].stream /\ handle[h].alive /\ handle[h].index = entries
      /\ \A g \in Handles \ {h} : ~handle[g].stream /\ handle[g].index = NoEntries
  <2>1. (blocks = <<>>) \in BOOLEAN
    OBVIOUS
  <2>2. Fresh(blocks = <<>>, entries) \in HandleType
    BY <1>5, <2>1 DEF Fresh, HandleType
  <2>3. Dead \in HandleType /\ ~Dead.stream /\ Dead.index = NoEntries
    BY NoEntriesIs DEF Dead, HandleType
  <2>4. /\ Fresh(blocks = <<>>, entries).stream /\ Fresh(blocks = <<>>, entries).alive
        /\ Fresh(blocks = <<>>, entries).index = entries
    BY DEF Fresh
  <2> HIDE DEF Fresh
  <2> QED
    BY <1>1, <2>2, <2>3, <2>4
<1>8. OwnerInv
  BY <1>0, <1>7 DEF OwnerInv
<1>9. it \in [Iters -> IterType] /\ \A i \in Iters : it[i] = Unset
  BY <1>0, UnsetIs
<1>10. StateType
  <2>1. crashed \in BOOLEAN
    BY <1>0
  <2> QED
    BY <1>0, <1>3, <1>5, <1>7, <1>9, <2>1 DEF StateType
<1>11. StandInv /\ PairInv
  BY <1>9, UnsetIs DEF StandInv, PairInv
<1>12. ReadsRight
  BY <1>0 DEF ReadsRight, Silence
<1> QED
  BY <1>6, <1>8, <1>10, <1>11, <1>12 DEF IInv

\* IInv is an invariant: one handle has the stream and every insert, and iterators
\* belong to it (include/bs3/pbsf/indexed-file.hh: indexed_ofile, indexed_ifile).
THEOREM IterationInvariance == Spec => []IInv
<1>1. IInv /\ [Next]_vars => IInv'
  BY InsertStep, MoveStep, DestroyStep, IncrementStep, DecrementStep, DerefStep, StartStep,
     CopyStep, AsStep, StutterStep DEF Next
<1> QED
  BY InitIInv, <1>1, PTL DEF Spec

\* Every entry of every handle's index points at a block of the file, and so does
\* every pair an iterator holds.
THEOREM IterationTyped == Spec => []TypeOK
<1>1. ASSUME IInv PROVE TypeOK
  <2>1. ASSUME NEW h \in Handles
        PROVE  /\ DOMAIN handle[h].index \subseteq Keys
               /\ Range(handle[h].index) \subseteq DOMAIN blocks
    <3>1. entries \in IndexType /\ blocks \in Seq(Nat)
      BY <1>1 DEF IInv, StateType
    <3>2. DOMAIN entries \subseteq Keys /\ Range(entries) \subseteq DOMAIN blocks
      BY <1>1, <3>1, IndexIs DEF IInv, EntriesInv, Range
    <3>3. DOMAIN NoEntries \subseteq Keys /\ Range(NoEntries) \subseteq DOMAIN blocks
      BY NoEntriesIs DEF Range
    <3>4. handle[h].index = entries \/ handle[h].index = NoEntries
      BY <1>1 DEF IInv, OwnerInv
    <3> QED
      BY <3>2, <3>3, <3>4
  <2>2. ASSUME NEW i \in Iters
        PROVE  /\ it[i].owner \in Handles \cup {NoHandle}
               /\ it[i].at \in Keys \cup {0, End}
               /\ it[i].pos \in DOMAIN blocks \cup {0}
    <3>1. it[i] \in IterType /\ Holds(it[i], blocks) /\ blocks \in Seq(Nat)
      BY <1>1, IterFacts DEF IInv, StateType
    <3>2. DOMAIN blocks = 1..Len(blocks)
      BY <3>1
    <3>3. it[i].owner \in Handles \cup {NoHandle} /\ it[i].at \in Keys \cup {0, End}
      BY <3>1 DEF IterType
    <3> QED
      BY <3>1, <3>2, <3>3 DEF Holds
  <2>3. crashed \in BOOLEAN
    BY <1>1 DEF IInv, StateType
  <2> QED
    BY <2>1, <2>2, <2>3 DEF TypeOK
<1> QED
  BY IterationInvariance, <1>1, PTL

\* Iterating misses no key, however the map grows and the handle moves meanwhile.
THEOREM IteratesAll == Spec => []Complete
<1>1. ASSUME IInv PROVE Complete
  BY <1>1, IterFacts DEF Complete, Stands
<1> QED
  BY IterationInvariance, <1>1, PTL

\* as returns the value the key had at the dereference, and refuses only what was
\* used before.
THEOREM ReadsTheRightValue == Spec => []ReadsRight
<1>1. IInv => ReadsRight
  BY DEF IInv
<1> QED
  BY IterationInvariance, <1>1, PTL

\* Moving a handle loses no insert, and no index that has to be written, as long as the
\* program has not crashed (in the destructor of the handle that was moved from).
THEOREM MovesLoseNothing == Spec => []NothingLost
<1>1. ASSUME IInv PROVE NothingLost
  BY <1>1 DEF IInv, OwnerInv, NothingLost
<1> QED
  BY IterationInvariance, <1>1, PTL
===============================================================================
