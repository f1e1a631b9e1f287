---------------------------- MODULE RangeAdaptors ----------------------------
(***************************************************************************)
(* The lazy ranges of utils/range-util.hh (map, map_skipping,              *)
(* map_ephemeral, filter, copy, reduce) and the iterators of               *)
(* utils/iter-util.hh they are made of.  A program makes, copies, reads    *)
(* and advances iterators over one container of N elements; an element is  *)
(* named by its position.  Each iterator carries its own copy of the       *)
(* function object, whose record fn of the elements it was applied to is   *)
(* copied with it.                                                         *)
(* A mapper that throws leaves a mapping iterator as it was (the value is  *)
(* computed before anything is changed): a stuttering step.                *)
(***************************************************************************)
EXTENDS Integers, Sequences, Functions

CONSTANTS
    N,              \* length of the container
    Accept,         \* the positions, of 0 .. N - 1, the predicate of filter accepts
    Iterators,          \* the program's iterator variables
    Kinds           \* the kinds of range it makes: a subset of
                    \* {"map", "skip", "ephemeral", "filter", "plain"}

NoValue == -1       \* no value is cached
Garbage == -2       \* what is read from a destroyed value
MovedAway == -3     \* what is read from an element that was moved from

VARIABLES
    it,         \* the iterators: kind "unset" before they are made
    moved       \* the elements of the container that were moved from
adaptors == <<it, moved>>

ASSUME AdaptorsAssumption ==
    /\ N \in Nat
    /\ Accept \subseteq 0 .. N - 1
    /\ Kinds \subseteq {"map", "skip", "ephemeral", "filter", "plain"}

Positions == 0 .. N - 1
Unset == [kind |-> "unset", pos |-> 0, value |-> NoValue, fn |-> <<>>,
          seen |-> {}, failed |-> FALSE]

IteratorsTyped ==
    /\ it \in [Iterators -> [kind : Kinds \cup {"unset"}, pos : 0 .. N,
                        value : Positions \cup {NoValue}, fn : Seq(Positions),
                        seen : SUBSET Positions, failed : BOOLEAN]]
    /\ moved \subseteq Positions

\* The positions from a up to, and not including, b, in order.
Run(a, b) == [k \in 1 .. b - a |-> a + k - 1]

-----------------------------------------------------------------------------
\* mapping_iterator (skipUnused is the kind "skip").

make_mapping_iterator(k) == [Unset EXCEPT !.kind = k]

deref(x) ==
    IF x.value # NoValue THEN x
    ELSE [x EXCEPT !.value = x.pos, !.fn = Append(@, x.pos)]

\* A wrong version: the value is computed only when it is asked for, whatever the kind.
increment_lazily(x) == [x EXCEPT !.value = NoValue, !.pos = @ + 1]

increment(x) ==
    LET y == IF x.kind = "skip" THEN x ELSE deref(x)
    IN  [y EXCEPT !.value = NoValue, !.pos = @ + 1]

-----------------------------------------------------------------------------
\* ephemeral_mapping_iterator: nothing is cached, f is applied at every
\* dereference; any distance can be travelled if the container allows it.

make_ephemeral_mapping_iterator == [Unset EXCEPT !.kind = "ephemeral"]
ephemeral_advance(x, n) == [x EXCEPT !.pos = @ + n]

-----------------------------------------------------------------------------
\* filtering_iterator.

\* A wrong version: one rejected element is skipped, not a stretch of them.
skip_one(x) ==
    IF x.pos = N \/ x.pos \in Accept
    THEN [x EXCEPT !.seen = @ \cup ({x.pos} \ {N})]
    ELSE [x EXCEPT !.pos = @ + 1, !.fn = Append(@, x.pos)]

forward_skip(x) ==
    LET stop == CHOOSE q \in x.pos .. N : /\ q \in Accept \cup {N}
                                          /\ (x.pos .. q - 1) \cap Accept = {}
    IN  [x EXCEPT !.pos = stop,
                  !.fn = @ \o Run(x.pos, IF stop = N THEN N ELSE stop + 1),
                  !.seen = @ \cup ({stop} \ {N})]

\* The predicate throws on an element of the stretch: the iterator stays there.
forward_skip_throws(x) ==
    {[x EXCEPT !.pos = t, !.fn = @ \o Run(x.pos, t), !.failed = TRUE] :
        t \in x.pos .. forward_skip(x).pos \ {N}}

make_filtering_iterator == forward_skip([Unset EXCEPT !.kind = "filter"])
filter_increment(x) == forward_skip([x EXCEPT !.pos = @ + 1])

-----------------------------------------------------------------------------
\* The iterators of a range, and the algorithms on it.

Begin(k) ==
    CASE k \in {"map", "skip"} -> make_mapping_iterator(k)
      [] k = "ephemeral"       -> make_ephemeral_mapping_iterator
      [] k = "filter"          -> make_filtering_iterator
      [] k = "plain"           -> [Unset EXCEPT !.kind = "plain"]

Read(x) == IF x.kind \in {"map", "skip"} THEN deref(x) ELSE x

Advance(x) ==
    CASE x.kind \in {"map", "skip"}        -> increment(x)
      [] x.kind \in {"ephemeral", "plain"} -> ephemeral_advance(x, 1)
      [] x.kind = "filter"                 -> filter_increment(x)

\* What dereferencing gives: the element it was computed from.
Given(x) == IF x.kind \in {"map", "skip"} THEN Read(x).value ELSE x.pos

\* The loop of std::copy and std::accumulate: the elements read, in order, and
\* the iterator, at the end.
Round(s) ==
    IF s.last.pos = N THEN s
    ELSE [got |-> Append(s.got, Given(s.last)), last |-> Advance(Read(s.last))]

Loop(x) ==
    LET after[n \in Nat] == IF n = 0 THEN [got |-> <<>>, last |-> x]
                            ELSE Round(after[n - 1])
    IN  after[N]

copy(x) == Loop(x).got
reduce(x, init) == <<init>> \o Loop(x).got

\* reduce without initial value: init is a reference taken before ++first.
\* It refers into the container (plain, filter), and the element is moved
\* from; to the value cached in first, which ++first has destroyed (map,
\* skip); or to a temporary that lives as long as the reference (ephemeral).
reduce_first(x) ==
    IF x.pos = N THEN {[folded |-> <<"out_of_range">>, moved |-> moved]}
    ELSE LET content(p) == IF p \in moved THEN MovedAway ELSE p
             rest == copy(Advance(Read(x)))
             fold(v) == <<v>> \o [k \in DOMAIN rest |-> content(rest[k])]
             p0 == Given(x)
         IN  CASE x.kind \in {"plain", "filter"} ->
                    {[folded |-> fold(content(p0)), moved |-> m] :
                        m \in {moved, moved \cup {p0}}}
               [] x.kind \in {"map", "skip"} ->
                    {[folded |-> fold(v), moved |-> moved] :
                        v \in {content(p0), Garbage}}
               [] x.kind = "ephemeral" ->
                    {[folded |-> fold(content(p0)), moved |-> moved]}

-----------------------------------------------------------------------------
\* The program.

Valid(i) == it[i].kind # "unset" /\ ~it[i].failed

Make(i, k) ==
    /\ it[i].kind = "unset"
    /\ it' = [it EXCEPT ![i] = Begin(k)]
    /\ UNCHANGED moved

Copy(i, j) ==
    /\ Valid(i)
    /\ it' = [it EXCEPT ![j] = it[i]]
    /\ UNCHANGED moved

Deref(i) ==
    /\ Valid(i) /\ it[i].pos < N
    /\ it' = [it EXCEPT ![i] = Read(it[i])]
    /\ UNCHANGED moved

PreIncrement(i) ==
    /\ Valid(i) /\ it[i].pos < N
    /\ it' = [it EXCEPT ![i] = Advance(it[i])]
    /\ UNCHANGED moved

\* A predicate throws out of ++: the iterator is left on an untested element.
IncrementThrows(i) ==
    /\ Valid(i) /\ it[i].kind = "filter" /\ it[i].pos + 1 < N
    /\ \E x \in forward_skip_throws([it[i] EXCEPT !.pos = @ + 1]) :
        it' = [it EXCEPT ![i] = x]
    /\ UNCHANGED moved

\* i++ returns its copy into j (or into a temporary, which j then stands for).
PostIncrement(i, j) ==
    /\ Valid(i) /\ it[i].pos < N
    /\ it' = [it EXCEPT ![i] = Advance(it[i]), ![j] = it[i]]
    /\ UNCHANGED moved

Jump(i, n) ==
    /\ Valid(i) /\ it[i].kind = "ephemeral" /\ it[i].pos + n \in 0 .. N
    /\ it' = [it EXCEPT ![i] = ephemeral_advance(it[i], n)]
    /\ UNCHANGED moved

\* It makes iterators of its own.
Reduce(k) ==
    /\ \E r \in reduce_first(Begin(k)) : moved' = r.moved
    /\ UNCHANGED it

AdaptorsInit ==
    /\ it = [i \in Iterators |-> Unset]
    /\ moved = {}

AdaptorsNext ==
    \/ \E i \in Iterators :
        \/ \E k \in Kinds : Make(i, k)
        \/ \E j \in Iterators \ {i} : Copy(i, j)
        \/ \E j \in Iterators \ {i} : PostIncrement(i, j)
        \/ \E n \in {-1, 2} : Jump(i, n)
        \/ Deref(i) \/ PreIncrement(i) \/ IncrementThrows(i)
    \/ \E k \in Kinds : Reduce(k)

AdaptorsSpec == AdaptorsInit /\ [][AdaptorsNext]_adaptors

-----------------------------------------------------------------------------
Increasing(s) == \A k, m \in DOMAIN s : k < m => s[k] < s[m]

\* s gives the positions in S, each once and in order.
Lists(s, S) == Increasing(s) /\ Range(s) = S

\* What an iterator has still to give.
Left(x) == {p \in x.pos .. N - 1 : x.kind = "filter" => p \in Accept}

\* folded is what x has still to give, except for elements that were moved away and
\* for a first value held by the iterator that reduce advances, which may be destroyed.
FoldsRest(x, folded) ==
    /\ Len(folded) = Len(copy(x))
    /\ \A k \in DOMAIN copy(x) :
        \/ folded[k] = IF copy(x)[k] \in moved THEN MovedAway ELSE copy(x)[k]
        \/ k = 1 /\ x.kind \in {"map", "skip"} /\ folded[k] = Garbage

\* Whatever was read, copied and advanced before, the value an iterator holds
\* is f of the element it stands on, a filter iterator has rested on every
\* accepted element up to there and on no other, and reading on to the end
\* gives every element that is left, once and in order (the accepted ones for
\* filter): for copy, for reduce with an initial value, and for reduce without
\* one, save for the values FoldsRest names.  An iterator that a predicate threw
\* out of has stopped before the end, with no accepted element missed.
RestIsGiven ==
    /\ IteratorsTyped
    /\ \A i \in Iterators : Valid(i) =>
        LET x == it[i]
        IN  /\ x.value \in {NoValue, x.pos}
            /\ x.kind = "filter" => /\ x.pos \in Accept \cup {N}
                                    /\ x.seen = {p \in Accept : p <= x.pos}
            /\ Lists(copy(x), Left(x))
            /\ reduce(x, N) = <<N>> \o copy(x)
            /\ x.pos < N => \A r \in reduce_first(x) : FoldsRest(x, r.folded)
    /\ \A i \in Iterators : it[i].failed =>
        /\ it[i].kind = "filter" /\ it[i].pos < N
        /\ it[i].seen = {p \in Accept : p < it[i].pos}

\* The order of application that map promises: the function object of a map
\* iterator has been applied to exactly the elements before it (and its own,
\* once read), each once and in order, although iterators are copied and values
\* left unread; map_skipping's only to elements read, still each once and in
\* order; the predicate of filter to every element up to the present one, which
\* it has yet to answer for if it threw.
InOrderOnce ==
    /\ \A i \in Iterators : Valid(i) =>
        LET x == it[i]
            through == IF x.value = NoValue THEN x.pos ELSE x.pos + 1
        IN  CASE x.kind = "map" -> /\ x.fn = Run(0, through)
                                   /\ Loop(x).last.fn = Run(0, N)
              [] x.kind = "skip" -> /\ Increasing(x.fn)
                                    /\ x.fn # <<>> => x.fn[Len(x.fn)] < through
                                    /\ x.value # NoValue =>
                                            x.fn # <<>> /\ x.fn[Len(x.fn)] = x.pos
              [] x.kind = "filter" -> x.fn = Run(0, IF x.pos = N THEN N ELSE x.pos + 1)
              [] OTHER -> x.fn = <<>>
    /\ \A i \in Iterators : it[i].failed => it[i].fn = Run(0, it[i].pos)

=============================================================================
