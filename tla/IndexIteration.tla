---------------------------- MODULE IndexIteration ----------------------------
(***************************************************************************)
(* The container interface of an indexed output file                       *)
(* (include/bs3/pbsf/indexed-file.hh): the handle and its move             *)
(* constructor, the bidirectional iterators over the index, the pairs they *)
(* hold, and the lazy_value and the accessor in each pair.  The bytes of   *)
(* the file are left to IndexedFile: here a block is its value, and its    *)
(* offset its number.                                                      *)
(***************************************************************************)
EXTENDS Integers, Sequences, FiniteSetsExt, Functions

CONSTANTS
    Keys,           \* the keys, positive integers so that they are ordered
    Values,         \* the values; TypeOf tells their types
    Handles,        \* the program's handles
    Iters,          \* its iterators
    MaxBlocks,      \* bound on the data blocks in the file
    Starts          \* which of the calls below it makes

End == Max(Keys) + 1            \* past the last key
NoHandle == "none"
Unread == [read |-> FALSE, value |-> 0, taken |-> FALSE]

ASSUME IterationAssumption ==
    /\ Keys \subseteq Nat \ {0} /\ \E m \in Keys : \A k \in Keys : k <= m
    /\ Values \subseteq Nat /\ Values # {}
    /\ MaxBlocks \in Nat /\ NoHandle \notin Handles
    /\ Starts \subseteq {"begin", "rbegin", "lower_bound", "upper_bound", "find"}

\* Types alternate; the content of every other block is stored uncompressed.
TypeOf(v) == v % 2
Identity(v) == v \div 2 % 2 = 0

VARIABLES
    handle,     \* alive, has a stream, need_write_index, and its index
    blocks,     \* the values in the file
    stored,     \* the index written last
    entries,    \* what the program has inserted: the last block of each key
    it,         \* the iterators: map, position and pair; and the keys due to be passed
    got,        \* the last call of as
    crashed     \* a null stream_ptr was used
vars == <<handle, blocks, stored, entries, it, got, crashed>>

Silence == [out |-> "none", value |-> 0, type |-> 0, want |-> 0, used |-> FALSE]
NoCall == got' = Silence

NoEntries == [k \in {} |-> 0]
Unset == [owner |-> NoHandle, rev |-> FALSE, at |-> 0, key |-> 0, pos |-> 0,
          lazy |-> Unread, due |-> {}, want |-> 0, used |-> FALSE]

TypeOK ==
    /\ \A h \in Handles : /\ DOMAIN handle[h].index \subseteq Keys
                          /\ Range(handle[h].index) \subseteq DOMAIN blocks
    /\ \A i \in Iters : /\ it[i].owner \in Handles \cup {NoHandle}
                        /\ it[i].at \in Keys \cup {0, End}
                        /\ it[i].pos \in DOMAIN blocks \cup {0}
    /\ crashed \in BOOLEAN

-----------------------------------------------------------------------------
\* The handle.

Fresh(new, index) == [alive |-> TRUE, stream |-> TRUE, need |-> new, index |-> index]
Dead == [alive |-> FALSE, stream |-> FALSE, need |-> FALSE, index |-> NoEntries]

\* moved_to, had the new handle taken the file to be unchanged.
moved_to_unchanged(h) == [h EXCEPT !.need = FALSE]

\* The default move constructor: the flag is copied, stream and index are moved.
moved_to(h) == h
moved_from(h) == [h EXCEPT !.stream = FALSE, !.index = NoEntries]

\* remembered_append, had it asked for the position after writing.
position_after == Len(blocks) + 2

\* The position where the block that is appended begins.
remembered_append == Len(blocks) + 1

\* The index with the entry of k new or replaced.
Put(index, k, pos) == [x \in DOMAIN index \cup {k} |-> IF x = k THEN pos ELSE index[x]]

Insert(h, k, v) ==
    /\ handle[h].stream /\ Len(blocks) < MaxBlocks
    /\ blocks' = Append(blocks, v)
    /\ handle' = [handle EXCEPT ![h].index = Put(@, k, remembered_append), ![h].need = TRUE]
    /\ entries' = Put(entries, k, Len(blocks'))
    /\ UNCHANGED <<stored, it, crashed>> /\ NoCall

\* The nodes of the map move with it, the end of the map does not.
Move(h, g) ==
    /\ handle[h].stream /\ ~handle[g].alive
    /\ handle' = [handle EXCEPT ![g] = moved_to(handle[h]), ![h] = moved_from(handle[h])]
    /\ it' = [i \in Iters |->
                CASE it[i].owner # h    -> it[i]
                  [] it[i].owner = h /\ it[i].at = End -> Unset
                  [] OTHER              -> [it[i] EXCEPT !.owner = g]]
    /\ UNCHANGED <<blocks, stored, entries, crashed>> /\ NoCall

Destroy(h) ==
    LET f == handle[h] IN
    /\ f.alive
    /\ crashed' = (f.need /\ ~f.stream)
    /\ stored' = IF f.need /\ f.stream THEN f.index ELSE stored
    /\ handle' = [handle EXCEPT ![h] = Dead]
    /\ it' = [i \in Iters |-> IF it[i].owner = h THEN Unset ELSE it[i]]
    /\ UNCHANGED <<blocks, entries>> /\ NoCall

-----------------------------------------------------------------------------
\* The iterators.  A reverse iterator keeps the position after its element.

Index(i) == handle[it[i].owner].index
After(S, k) == Min({x \in S : x >= k} \cup {End})
Next1(S, k) == After(S, k + 1)
Prev(S, k) == Max({x \in S : x < k} \cup {0})

\* lower_bound, had it passed over the key itself.
lower_bound_strict(S, k) == Next1(S, k)

lower_bound(S, k) == After(S, k)
upper_bound(S, k) == Next1(S, k)
find(S, k) == IF k \in S THEN k ELSE End

\* Where an iterator is put, and from where on its elements are.
Placed(start, S, k) ==
    CASE start = "begin"       -> [rev |-> FALSE, at |-> After(S, 0), from |-> 0]
      [] start = "rbegin"      -> [rev |-> TRUE, at |-> End, from |-> End]
      [] start = "lower_bound" -> [rev |-> FALSE, at |-> lower_bound(S, k), from |-> k]
      [] start = "find"        -> [rev |-> FALSE, at |-> find(S, k), from |-> find(S, k)]
      [] start = "upper_bound" -> [rev |-> FALSE, at |-> upper_bound(S, k), from |-> k + 1]

\* The keys an iterator has before it.
Due(rev, S, from) == {k \in S : IF rev THEN k < from ELSE k >= from}

Start(i, h, start, k) ==
    /\ handle[h].stream /\ it[i].owner = NoHandle
    /\ LET S == DOMAIN handle[h].index
           p == Placed(start, S, k)
       IN  it' = [it EXCEPT ![i] = [Unset EXCEPT !.owner = h, !.rev = p.rev, !.at = p.at,
                                                 !.due = Due(p.rev, S, p.from)]]
    /\ UNCHANGED <<handle, blocks, stored, entries, crashed>> /\ NoCall

\* The element of an iterator, 0 if it is at its end.
Element(x, S) == IF x.rev THEN Prev(S, x.at) ELSE IF x.at = End THEN 0 ELSE x.at

Increment(i) ==
    LET S == DOMAIN Index(i)  e == Element(it[i], S) IN
    /\ it[i].owner # NoHandle /\ e # 0
    /\ it' = [it EXCEPT ![i].at = IF it[i].rev THEN e ELSE Next1(S, e),
                        ![i].due = @ \ {e}]
    /\ UNCHANGED <<handle, blocks, stored, entries, crashed>> /\ NoCall

\* Going back makes the keys from there on due again.
Decrement(i) ==
    LET S == DOMAIN Index(i)
        p == IF it[i].rev THEN Next1(S, it[i].at) ELSE Prev(S, it[i].at)
    IN  /\ it[i].owner # NoHandle
        /\ IF it[i].rev THEN it[i].at # End ELSE p # 0
        /\ it' = [it EXCEPT ![i].at = p, ![i].due = Due(it[i].rev, S, p)]
        /\ UNCHANGED <<handle, blocks, stored, entries, crashed>> /\ NoCall

\* The pair is made anew, with a lazy_value that has read nothing yet.
deref(x, e, pos) == [x EXCEPT !.key = e, !.pos = pos, !.lazy = Unread]

Deref(i) ==
    LET e == Element(it[i], DOMAIN Index(i)) IN
    /\ it[i].owner # NoHandle /\ e # 0
    /\ it' = [it EXCEPT ![i] = [deref(it[i], e, Index(i)[e]) EXCEPT
                                    !.want = blocks[entries[e]], !.used = FALSE]]
    /\ UNCHANGED <<handle, blocks, stored, entries, crashed>> /\ NoCall

\* An iterator, or the pair it holds, is copied; so is what operator[] returns.
Copy(i, j) ==
    /\ it[i].owner # NoHandle /\ i # j
    /\ it' = [it EXCEPT ![j] = it[i]]
    /\ UNCHANGED <<handle, blocks, stored, entries, crashed>> /\ NoCall

-----------------------------------------------------------------------------
\* lazy_value and encoded_block_accessor.

force(x) ==
    IF x.lazy.read THEN x.lazy
    ELSE [read |-> TRUE, value |-> blocks[x.pos], taken |-> FALSE]

\* as, had it moved the block before it looked at its type.
as_moves_first(l, t) ==
    [out |-> CASE l.taken /\ Identity(l.value) -> "refused"
               [] t # TypeOf(l.value)          -> "type_mismatch"
               [] OTHER                        -> "value",
     lazy |-> [l EXCEPT !.taken = TRUE]]

\* Decoding moves the content of an uncompressed block away; the checksum then
\* fails.
as(l, t) ==
    CASE t # TypeOf(l.value) -> [out |-> "type_mismatch", lazy |-> l]
      [] t = TypeOf(l.value) /\ l.taken /\ Identity(l.value) ->
                                [out |-> "refused", lazy |-> l]
      [] OTHER -> [out |-> "value", lazy |-> [l EXCEPT !.taken = TRUE]]

As(i, t) ==
    LET l == force(it[i])  r == as(l, t) IN
    /\ it[i].owner # NoHandle /\ it[i].key # 0
    /\ it' = [it EXCEPT ![i].lazy = r.lazy, ![i].used = @ \/ r.out = "value"]
    /\ got' = [out |-> r.out, value |-> l.value, type |-> t,
               want |-> it[i].want, used |-> it[i].used]
    /\ UNCHANGED <<handle, blocks, stored, entries, crashed>>

-----------------------------------------------------------------------------
Init ==
    /\ blocks \in {<<>>, <<Min(Values)>>}
    /\ stored = [k \in {Min(Keys) : b \in DOMAIN blocks} |-> 1] /\ entries = stored
    /\ \E h \in Handles : handle = [g \in Handles |->
                            IF g = h THEN Fresh(blocks = <<>>, entries) ELSE Dead]
    /\ it = [i \in Iters |-> Unset]
    /\ got = Silence
    /\ crashed = FALSE

Next ==
    /\ ~crashed
    /\ \/ \E h \in Handles : \/ Destroy(h)
                             \/ \E g \in Handles : Move(h, g)
                             \/ \E k \in Keys, v \in Values : Insert(h, k, v)
       \/ \E i \in Iters : \/ Increment(i) \/ Decrement(i) \/ Deref(i)
                           \/ \E h \in Handles, s \in Starts, k \in Keys : Start(i, h, s, k)
                           \/ \E j \in Iters : Copy(i, j)
                           \/ \E t \in {0, 1} : As(i, t)

Spec == Init /\ [][Next]_vars

-----------------------------------------------------------------------------
\* Iterating misses nothing: of the keys that were there when an iterator was
\* placed, those it has not passed yet still lie before it, although keys are
\* inserted and replaced, and the handle moved, while it is on its way; and it
\* stands on a key of the index or at its end.
Complete ==
    \A i \in Iters : it[i].owner # NoHandle =>
        LET x == it[i] IN
        /\ x.at \in DOMAIN Index(i) \cup {End}
        /\ \A k \in x.due : IF x.rev THEN k < x.at ELSE x.at <= k

\* What as returns is the value the key had when the iterator was dereferenced,
\* through copies of the pair, replacements of the key and moves of the handle;
\* asking for a wrong type spoils nothing, and only a second use may be refused.
ReadsRight ==
    /\ got.out = "value" => got.value = got.want
    /\ got.out = "type_mismatch" <=> got.out # "none" /\ got.type # TypeOf(got.want)
    /\ got.out = "refused" => got.used

\* Moving a handle loses no insert: the handle with the stream has them all, it
\* still knows that it must write an index if the one in the file is older, and
\* once it is gone the file has them.
NothingLost ==
    ~crashed =>
        LET owners == {h \in Handles : handle[h].stream} IN
        /\ \A h \in owners : /\ handle[h].index = entries
                             /\ stored # entries => handle[h].need
        /\ owners = {} => stored = entries

\* An index is written when the handle's file is new or changed: a handle whose
\* file was moved away has none to write, and is destroyed without harm.
WritesToItsFile == ~crashed

=============================================================================
