--------------------------- MODULE OutputIterators ---------------------------
(***************************************************************************)
(* The writers of utils/iter-util.hh: output iterators put together from   *)
(* transformed_writer, filtering_writer, multiplex_writer, spread_writer   *)
(* and, at the leaves, pointers and inserters.  A writer is a tree that    *)
(* holds its inner writers by value: copying it copies their positions.    *)
(* A program writes values to one writer, as std::copy does: *w = v; ++w,  *)
(* or in the other idiom of output iterators: *w++ = v.                    *)
(* A value is a sequence: what f makes of v is <<f>> \o v.                 *)
(***************************************************************************)
EXTENDS Integers, Sequences, SequencesExt, TLC

CONSTANTS
    Writers,        \* the writers a program may start with
    Values,         \* the values it writes
    Keep,           \* the values the predicate of filtering_writer is true of
    Idioms,         \* subset of {"copy", "post"}
    MaxWrites       \* bound on the number of writes

Blank == <<>>               \* a slot nothing was written to
MovedAway == <<"moved">>        \* what is left of a value that was moved from

VARIABLES
    w0,         \* the writer the program started with
    w,          \* the writer now
    mem,        \* the buffers at the leaves
    sent,       \* the values written so far
    idiom,      \* how this program writes
    rvalue      \* does it write rvalues (std::move, temporaries)?
vars == <<w0, w, mem, sent, idiom, rvalue>>

-----------------------------------------------------------------------------
\* Building writers.

pointer(b) == [t |-> "ptr", buf |-> b, at |-> 1]
inserter(b) == [t |-> "insert", buf |-> b]
transformed_writer(f, x) == [t |-> "transform", f |-> f, in |-> x]
filtering_writer(x) == [t |-> "filter", in |-> x]
multiplex_writer(xs) == [t |-> "multiplex", in |-> xs]
spread_writer(xs) ==
    multiplex_writer([k \in DOMAIN xs |->
        transformed_writer(<<"first", "second">>[k], xs[k])])

\* pick<i>(constref_forward()) refers into the tuple; another f returns a new value.
IsPick(f) == f \in {"first", "second"}
Pred(v) == v[Len(v)] \in Keep

-----------------------------------------------------------------------------
\* ++w, each class its own; filter and the inserters inherit one that does
\* nothing.

RECURSIVE increment(_)
increment(x) ==
    CASE x.t = "ptr"       -> [x EXCEPT !.at = @ + 1]
      [] x.t = "transform" -> [x EXCEPT !.in = increment(@)]
      [] x.t = "multiplex" -> [x EXCEPT !.in = [k \in DOMAIN @ |-> increment(@[k])]]
      [] OTHER             -> x

\* *w = v: the writer after it, what is left of v, and the buffers.
Wrote(x, v, m) == [w |-> x, v |-> v, mem |-> m]
Store(v, rv) == IF rv THEN MovedAway ELSE v

pointer_assign(x, v, rv, m) == Wrote(x, Store(v, rv), [m EXCEPT ![x.buf][x.at] = v])
insert_assign(x, v, rv, m) ==
    Wrote(x, Store(v, rv), [m EXCEPT ![x.buf] = Append(@, v)])

RECURSIVE assign(_, _, _, _)

\* f takes its argument by reference to const, and so leaves v as it is.
transform_assign(x, v, rv, m) ==
    LET r == assign(x.in, <<x.f>> \o v, ~IsPick(x.f), m)
    IN  Wrote([x EXCEPT !.in = r.w], v, r.mem)

\* A wrong version: the inner writer is advanced for rejected values too.
filter_assign_gaps(x, v, rv, m) ==
    IF Pred(v) THEN LET r == assign(x.in, v, rv, m)
                    IN  Wrote([x EXCEPT !.in = increment(r.w)], r.v, r.mem)
    ELSE Wrote([x EXCEPT !.in = increment(x.in)], v, m)

filter_assign(x, v, rv, m) ==
    IF Pred(v) THEN LET r == assign(x.in, v, rv, m)
                    IN  Wrote([x EXCEPT !.in = increment(r.w)], r.v, r.mem)
    ELSE Wrote(x, v, m)

\* write_to_iter_tuple: v is forwarded to every output in turn.
multiplex_assign(x, v, rv, m) ==
    FoldLeft(LAMBDA acc, k :
                LET r == assign(x.in[k], acc.v, rv, acc.mem)
                IN  Wrote([acc.w EXCEPT !.in[k] = r.w], r.v, r.mem),
             Wrote(x, v, m), [k \in DOMAIN x.in |-> k])

assign(x, v, rv, m) ==
    CASE x.t = "ptr"       -> pointer_assign(x, v, rv, m)
      [] x.t = "insert"    -> insert_assign(x, v, rv, m)
      [] x.t = "transform" -> transform_assign(x, v, rv, m)
      [] x.t = "filter"    -> filter_assign(x, v, rv, m)
      [] x.t = "multiplex" -> multiplex_assign(x, v, rv, m)

\* w++ of a transform, a multiplex or a pointer returns a copy made before the
\* increment; the mixin's returns the writer itself.
post_increment(x) ==
    IF x.t \in {"transform", "multiplex", "ptr"} THEN "copy" ELSE "itself"

-----------------------------------------------------------------------------
Step(v, rv) ==
    IF idiom = "copy" \/ post_increment(w) = "itself"
    THEN LET r == assign(w, v, rv, mem)
         IN  w' = (IF idiom = "copy" THEN increment(r.w) ELSE r.w) /\ mem' = r.mem
    ELSE w' = increment(w) /\ mem' = assign(w, v, rv, mem).mem

Write(v) ==
    /\ Len(sent) < MaxWrites
    /\ Step(<<v>>, rvalue)
    /\ sent' = Append(sent, <<v>>)
    /\ UNCHANGED <<w0, idiom, rvalue>>

\* The leaves of a writer: those with positions, and the buffers of all of them.
RECURSIVE Leaves(_)
Leaves(x) ==
    CASE x.t \in {"ptr", "insert"}       -> {x}
      [] x.t \in {"transform", "filter"} -> Leaves(x.in)
      [] x.t = "multiplex"               -> UNION {Leaves(x.in[k]) : k \in DOMAIN x.in}

Init ==
    /\ w0 \in Writers /\ w = w0 /\ sent = <<>>
    /\ idiom \in Idioms /\ rvalue \in BOOLEAN
    /\ mem = [b \in {l.buf : l \in Leaves(w0)} |->
                IF \E l \in Leaves(w0) : l.buf = b /\ l.t = "ptr"
                THEN [k \in 1 .. MaxWrites |-> Blank] ELSE <<>>]

Next == \E v \in Values : Write(v)
Spec == Init /\ [][Next]_vars

-----------------------------------------------------------------------------
\* What a writer means: the list each buffer gets of the list of values written.
RECURSIVE Flow(_, _)
Flow(x, vs) ==
    CASE x.t \in {"ptr", "insert"} -> x.buf :> vs
      [] x.t = "transform" -> Flow(x.in, [k \in DOMAIN vs |-> <<x.f>> \o vs[k]])
      [] x.t = "filter"    -> Flow(x.in, SelectSeq(vs, Pred))
      [] x.t = "multiplex" ->
            FoldLeft(LAMBDA acc, y : acc @@ Flow(y, vs), <<>>, x.in)

\* A buffer holds these values, and nothing after them.
Holds(buffer, vs) ==
    /\ Len(buffer) >= Len(vs)
    /\ \A k \in DOMAIN buffer : buffer[k] = IF k <= Len(vs) THEN vs[k] ELSE Blank

\* *w = v keeps v: moves from it, if it is an rvalue and passes the filters.
RECURSIVE Keeps(_)
Keeps(x) ==
    CASE x.t \in {"ptr", "insert"} -> TRUE
      [] x.t = "transform"         -> FALSE
      [] x.t = "filter"            -> Keeps(x.in)
      [] x.t = "multiplex"         -> \E k \in DOMAIN x.in : Keeps(x.in[k])

Buffers(x) == {l.buf : l \in Leaves(x)}

\* The buffers of x behind an output of a multiplex that keeps the rvalue they share.
RECURSIVE Deprived(_, _)
Deprived(x, rv) ==
    CASE x.t \in {"ptr", "insert"} -> {}
      [] x.t = "transform"         -> Deprived(x.in, ~IsPick(x.f))
      [] x.t = "filter"            -> Deprived(x.in, rv)
      [] x.t = "multiplex"         ->
            UNION {Deprived(x.in[k], rv) : k \in DOMAIN x.in}
            \cup UNION {Buffers(x.in[l]) :
                        l \in {j \in DOMAIN x.in : rv /\ \E k \in 1 .. j - 1 : Keeps(x.in[k])}}

\* The buffers of x whose pointer only a filter moves on.
RECURSIVE UnderFilter(_)
UnderFilter(x) ==
    CASE x.t \in {"ptr", "insert"} -> {}
      [] x.t = "transform"         -> UnderFilter(x.in)
      [] x.t = "filter"            -> {l.buf : l \in {y \in Leaves(x) : y.t = "ptr"}}
      [] x.t = "multiplex"         -> UNION {UnderFilter(x.in[k]) : k \in DOMAIN x.in}

Stuck == IF idiom = "post" /\ post_increment(w0) = "copy" THEN UnderFilter(w0) ELSE {}

\* Every buffer gets exactly the values the composition means, in order and
\* without gaps, however writers are nested and whichever values are filtered
\* out, in both idioms and for lvalues and rvalues.  Where *w++ = v leaves the move
\* of a filter to a copy, the buffer has the last of them in its first place.  Nothing
\* is said of an output that shares an rvalue with an earlier one that keeps it.
Delivered ==
    \A b \in DOMAIN mem \ Deprived(w0, rvalue) :
        LET vs == Flow(w0, sent)[b] IN
        Holds(mem[b], IF b \in Stuck /\ vs # <<>> THEN <<Last(vs)>> ELSE vs)

=============================================================================
