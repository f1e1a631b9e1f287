---------------------------- MODULE SequentialFile ----------------------------
(***************************************************************************)
(* Sequential files (range-api.hh): one program at a time appends blocks to  *)
(* a file, another one reads it, at the same time or later, through ranges   *)
(* of one type each that share one stream.                                   *)
(*                                                                         *)
(* The file is a sequence of items: the header, whole blocks (known by their *)
(* type), and "torn", the piece of a block or header that a crash or a       *)
(* failed write left behind.  Nothing in the format marks where a block      *)
(* starts, so a reader that meets such a piece loses its place: from there   *)
(* on it parses blocks that nobody wrote, whose checksum does not match.     *)
(*                                                                         *)
(* Not modelled: overwriting a file somebody is reading; reading through an  *)
(* output handle.                                                           *)
(***************************************************************************)
EXTENDS Integers, Sequences

CONSTANTS Types,     \* the types registered in the realm
          NoType,
          Realms,    \* the realm identifiers programs use
          Iters,     \* the iterators the reading program may have
          Nobody,    \* no iterator
          MaxItems   \* the items that fit on the device

ASSUME NameAssumption ==
    /\ NoType \notin Types /\ Nobody \notin Iters
    /\ {"header", "torn"} \cap Types = {}
    /\ MaxItems \in Nat

VARIABLES
    items,    \* the file, buffered items included
    realm,    \* the realm in its header
    disk,     \* how many items have left the buffer
    partial,  \* whether a piece of the next item has, too
    wstate,   \* the output handle: closed, open, failed
    rstate,   \* the input handle's stream: closed, good, eof, fail
    pos,      \* how many items it has read
    sync,     \* whether it is at the start of an item
    it,       \* the iterators on it
    busy,     \* the iterator that is being advanced
    result,   \* the outcome of the last call
    \* History, for the properties only:
    offered,  \* the items that became the current one of an iterator of their type
    skipped   \* the items an iterator of another type passed over

file == <<items, realm, disk, partial>>
input == <<rstate, pos, sync, it, busy, offered, skipped>>
vars == <<file, wstate, input, result>>

\* A block as parsed; item 0 is a block nobody wrote.
Block == [item : 0..MaxItems, type : Types \cup {NoType}]
NoBlock == [item |-> 0, type |-> NoType]

\* An iterator: the block it holds, whether decoding has moved the content out of
\* it, the decoded value.  `thrown' and `upto' are history: whether advancing it
\* threw, and how far the file had been read when it came to the end.
Iterator == [state : {"none", "new", "at", "end"}, type : Types \cup {NoType},
             blk : Block, moved : BOOLEAN, val : Block,
             thrown : BOOLEAN, upto : 0..MaxItems]

NoIterator == [state |-> "none", type |-> NoType, blk |-> NoBlock, moved |-> FALSE,
               val |-> NoBlock, thrown |-> FALSE, upto |-> 0]

TypeOK ==
    /\ items \in Seq(Types \cup {"header", "torn"}) /\ Len(items) <= MaxItems
    /\ realm \in Realms
    /\ disk \in 0..Len(items)
    /\ partial \in BOOLEAN
    /\ wstate \in {"closed", "open", "failed"}
    /\ rstate \in {"closed", "good", "eof", "fail"}
    /\ pos \in 0..disk
    /\ sync \in BOOLEAN
    /\ it \in [Iters -> Iterator]
    /\ busy \in Iters \cup {Nobody}
    /\ result \in {"ok", "ios_failure", "unknown_realm_error", "bad_checksum_error",
                   "crash", "lost"}
    /\ offered \subseteq 1..MaxItems
    /\ skipped \subseteq 1..MaxItems

Init ==
    /\ items = << >>
    /\ realm \in Realms
    /\ disk = 0
    /\ partial = FALSE
    /\ wstate = "closed"
    /\ rstate = "closed"
    /\ pos = 0
    /\ sync = TRUE
    /\ it = [i \in Iters |-> NoIterator]
    /\ busy = Nobody
    /\ result = "ok"
    /\ offered = {}
    /\ skipped = {}

(***************************************************************************)
(* Writing.                                                                *)
(***************************************************************************)
\* check_file: the outcome of reading the header and comparing it.
check_file(r) ==
    IF disk = 0 \/ items[1] # "header" THEN "ios_failure"
    ELSE IF realm # r THEN "unknown_realm_error"
    ELSE "ok"

\* The stream stops writing when n items and, if torn, a piece of the next one are
\* out; what is out already stays.
CutAt(n, torn) ==
    /\ n \in disk..Len(items)
    /\ torn => n < Len(items)
    /\ n = disk /\ partial => torn
    /\ items' = SubSeq(items, 1, n) \o (IF torn THEN <<"torn">> ELSE << >>)
    /\ disk' = IF torn THEN n + 1 ELSE n
    /\ partial' = FALSE
    /\ UNCHANGED realm

\* open_sequential_output_file on a file that is new, empty or to be overwritten.
open_output_new(r, overwrite) ==
    /\ wstate = "closed"
    /\ IF overwrite THEN rstate = "closed" ELSE disk = 0
    /\ MaxItems > 0
    /\ items' = <<"header">>
    /\ realm' = r
    /\ disk' = 0
    /\ partial' = FALSE
    /\ wstate' = "open"
    /\ result' = "ok"
    /\ UNCHANGED input

\* The same on an existing one: only the header is looked at, and the position
\* goes to the end, whatever is there.
open_output_existing(r) ==
    /\ wstate = "closed"
    /\ disk > 0
    /\ wstate' = IF check_file(r) = "ok" THEN "open" ELSE "closed"
    /\ result' = check_file(r)
    /\ UNCHANGED <<file, input>>

\* Assigning to write_iterator(): write_block appends the encoded block.
write_block(t) ==
    /\ wstate = "open"
    /\ Len(items) < MaxItems
    /\ items' = Append(items, t)
    /\ result' = "ok"
    /\ UNCHANGED <<realm, disk, partial, wstate, input>>

write_fails(n, torn) ==
    /\ wstate = "open"
    /\ CutAt(n, torn)
    /\ wstate' = "failed"
    /\ result' = "ios_failure"
    /\ UNCHANGED input

\* The buffer runs over.
overflow(n, torn) ==
    /\ wstate = "open"
    /\ n \in disk..Len(items)
    /\ torn => n < Len(items)
    /\ n = disk => torn /\ ~partial
    /\ disk' = n
    /\ partial' = torn
    /\ UNCHANGED <<items, realm, wstate, input, result>>

\* The last copy of the sequential_file goes, and the stream with it.
close_output ==
    /\ wstate = "open"
    /\ disk' = Len(items)
    /\ partial' = FALSE
    /\ wstate' = "closed"
    /\ result' = "ok"
    /\ UNCHANGED <<items, realm, input>>

\* The same when the device does not take the rest of the buffer, which nobody
\* learns of, or after a failed write, or when the program dies.
close_output_fails(n, torn) ==
    /\ wstate \in {"open", "failed"}
    /\ CutAt(n, torn)
    /\ wstate' = "closed"
    /\ result' \in {"lost", "crash"}
    /\ UNCHANGED input

(***************************************************************************)
(* Reading.                                                                *)
(***************************************************************************)
open_input(r) ==
    /\ rstate = "closed"
    /\ result' = check_file(r)
    /\ IF check_file(r) = "ok" THEN rstate' = "good" /\ pos' = 1
       ELSE UNCHANGED <<rstate, pos>>
    /\ UNCHANGED <<file, wstate, sync, it, busy, offered, skipped>>

\* read_one_type<t>(): the iterator is constructed, which reads at once.
read_one_type(i, t) ==
    /\ rstate # "closed"
    /\ busy = Nobody
    /\ it[i].state = "none"
    /\ it' = [it EXCEPT ![i] = [NoIterator EXCEPT !.state = "new", !.type = t]]
    /\ busy' = i
    /\ result' = "ok"
    /\ UNCHANGED <<file, wstate, rstate, pos, sync, offered, skipped>>

\* ++ drops the decoded value and reads on.
increment(i) ==
    /\ busy = Nobody
    /\ it[i].state = "at"
    /\ it' = [it EXCEPT ![i].val = NoBlock]
    /\ busy' = i
    /\ result' = "ok"
    /\ UNCHANGED <<file, wstate, rstate, pos, sync, offered, skipped>>

\* The next item is the piece of a block, and nothing follows it.
cut_short == sync /\ pos + 1 = disk /\ items[disk] = "torn" /\ ~partial

\* What one step of parse_iterator::operator++ comes to: peek sees the end, or
\* throws on a stream that has been at the end before; parse throws on a piece of
\* a block, or yields a block.  A reader that has lost its place sees anything.
at_eof == rstate = "good" /\ pos = disk /\ ~partial

may_fail ==
    \/ rstate # "good"
    \/ pos = disk /\ partial
    \/ pos < disk /\ (~sync \/ items[pos + 1] = "torn")

\* The next block, where the stream is after it, and whether it is in its place.
Parsed ==
    IF pos = disk \/ rstate # "good" \/ cut_short THEN {}
    ELSE IF sync /\ items[pos + 1] # "torn"
      THEN {[blk |-> [item |-> pos + 1, type |-> items[pos + 1]], pos |-> pos + 1, sync |-> TRUE]}
    ELSE [blk : [item : {0}, type : Types], pos : pos..disk, sync : {FALSE}]

\* The constructor of an iterator that throws leaves no iterator; an increment
\* that throws leaves the last block that was parsed.
Thrown(i) == IF it[i].state = "new" THEN NoIterator ELSE [it[i] EXCEPT !.thrown = TRUE]

\* parse_iterator, had it taken a block that does not parse for the end.
fail_as_end(i) ==
    /\ busy = i
    /\ may_fail
    /\ rstate' = "fail"
    /\ it' = [it EXCEPT ![i].state = "end", ![i].blk = NoBlock, ![i].upto = disk]
    /\ busy' = Nobody
    /\ result' = "ok"
    /\ UNCHANGED <<file, wstate, pos, sync, offered, skipped>>

parse_fails(i) ==
    /\ busy = i
    /\ may_fail
    /\ rstate' = "fail"
    /\ it' = [it EXCEPT ![i] = Thrown(i)]
    /\ busy' = Nobody
    /\ result' = "ios_failure"
    /\ UNCHANGED <<file, wstate, pos, sync, offered, skipped>>

parse_end(i) ==
    /\ busy = i
    /\ at_eof
    /\ rstate' = "eof"
    /\ it' = [it EXCEPT ![i].state = "end", ![i].upto = disk]
    /\ busy' = Nobody
    /\ result' = "ok"
    /\ UNCHANGED <<file, wstate, pos, sync, offered, skipped>>

\* filtering_iterator, had it not looked at the type of the first block.
parse_first(i) ==
    /\ busy = i
    /\ \E p \in Parsed :
         /\ it' = [it EXCEPT ![i].blk = p.blk, ![i].moved = FALSE, ![i].state = "at"]
         /\ busy' = IF p.blk.type = it[i].type \/ it[i].state = "new" THEN Nobody ELSE i
         /\ pos' = p.pos
         /\ sync' = p.sync
         /\ UNCHANGED <<offered, skipped>>
    /\ result' = "ok"
    /\ UNCHANGED <<file, wstate, rstate>>

\* parse, had it taken the length for the length of the whole block.
parse_overrun(i) ==
    /\ busy = i
    /\ \E p \in Parsed :
         /\ pos' = p.pos + 1
         /\ sync' = p.sync
         /\ it' = [it EXCEPT ![i].blk = p.blk, ![i].moved = FALSE, ![i].state = "at"]
         /\ busy' = IF p.blk.type = it[i].type THEN Nobody ELSE i
         /\ UNCHANGED <<offered, skipped>>
    /\ result' = "ok"
    /\ UNCHANGED <<file, wstate, rstate>>

\* filtering_iterator::forward_skip: a block of another type is passed over, with
\* no look at its checksum.
parse_block(i) ==
    /\ busy = i
    /\ \E p \in Parsed :
         /\ pos' = p.pos
         /\ sync' = p.sync
         /\ IF p.blk.type = it[i].type
              THEN /\ it' = [it EXCEPT ![i].blk = p.blk, ![i].moved = FALSE, ![i].state = "at"]
                   /\ busy' = Nobody
                   /\ offered' = offered \cup ({p.blk.item} \ {0})
                   /\ UNCHANGED skipped
              ELSE /\ it' = [it EXCEPT ![i].blk = p.blk, ![i].moved = FALSE]
                   /\ skipped' = skipped \cup ({p.blk.item} \ {0})
                   /\ UNCHANGED <<busy, offered>>
    /\ result' = "ok"
    /\ UNCHANGED <<file, wstate, rstate>>

\* *it, had decode_block not compared the checksum.
dereference_unchecked(i) ==
    /\ busy = Nobody
    /\ it[i].state = "at"
    /\ it[i].val = NoBlock
    /\ \E m \in BOOLEAN : it' = [it EXCEPT ![i].val = it[i].blk, ![i].moved = m]
    /\ result' = "ok"
    /\ UNCHANGED <<file, wstate, rstate, pos, sync, busy, offered, skipped>>

\* *it: decode_block compares the checksum; a content stored as it is, rather than
\* compressed, is moved out of the block.  Only the filter has looked at the type.
dereference(i) ==
    /\ busy = Nobody
    /\ it[i].state = "at"
    /\ it[i].val = NoBlock
    /\ IF it[i].blk.item = 0 \/ it[i].moved
         THEN result' = "bad_checksum_error" /\ UNCHANGED it
         ELSE /\ result' = "ok"
              /\ \E m \in BOOLEAN : it' = [it EXCEPT ![i].val = it[i].blk, ![i].moved = m]
    /\ UNCHANGED <<file, wstate, rstate, pos, sync, busy, offered, skipped>>

\* Iterators are copied freely: begin() and it++ return copies.
copy(i, j) ==
    /\ busy = Nobody
    /\ it[i].state \in {"at", "end"}
    /\ it[j].state = "none"
    /\ it' = [it EXCEPT ![j] = it[i]]
    /\ result' = "ok"
    /\ UNCHANGED <<file, wstate, rstate, pos, sync, busy, offered, skipped>>

drop(i) ==
    /\ busy = Nobody
    /\ it[i].state \in {"at", "end"}
    /\ it' = [it EXCEPT ![i] = NoIterator]
    /\ result' = "ok"
    /\ UNCHANGED <<file, wstate, rstate, pos, sync, busy, offered, skipped>>

\* The input file is closed once its iterators are gone: they point at its stream.
close_input ==
    /\ rstate # "closed"
    /\ \A i \in Iters : it[i].state = "none"
    /\ rstate' = "closed"
    /\ pos' = 0
    /\ sync' = TRUE
    /\ offered' = {}
    /\ skipped' = {}
    /\ result' = "ok"
    /\ UNCHANGED <<file, wstate, it, busy>>

(***************************************************************************)
(* The specification.                                                      *)
(***************************************************************************)
Writer ==
    \/ \E r \in Realms, overwrite \in BOOLEAN : open_output_new(r, overwrite)
    \/ \E r \in Realms : open_output_existing(r)
    \/ \E t \in Types : write_block(t)
    \/ close_output
    \/ \E n \in 0..MaxItems, torn \in BOOLEAN :
         write_fails(n, torn) \/ overflow(n, torn) \/ close_output_fails(n, torn)

Reader ==
    \/ \E r \in Realms : open_input(r)
    \/ \E i \in Iters :
         \/ \E t \in Types : read_one_type(i, t)
         \/ increment(i)
         \/ parse_fails(i)
         \/ parse_end(i)
         \/ parse_block(i)
         \/ dereference(i)
         \/ \E j \in Iters : copy(i, j)
         \/ drop(i)
    \/ close_input

Next == Writer \/ Reader

Spec == Init /\ [][Next]_vars

(***************************************************************************)
(* Properties.                                                             *)
(***************************************************************************)
\* Every value an iterator yields is a block that some program wrote whole, even
\* when sessions went on appending behind a torn block and the reader has lost its
\* place.
NothingInvented ==
    \A i \in Iters : it[i].val # NoBlock =>
        it[i].val.item \in 1..disk /\ items[it[i].val.item] = it[i].val.type

\* read_one_type yields values of its type only, for an iterator none of whose
\* increments has thrown, copies of it included.
OwnType ==
    \A i \in Iters : it[i].val # NoBlock /\ ~it[i].thrown => it[i].val.type = it[i].type

\* A range comes to its end only when every block of its type that was there has
\* been the current one of an iterator of that type, unless a range of another
\* type passed it over or it lies behind a torn piece; a file that was cut short
\* in its last block never looks complete.
EndMeansAll ==
    \A i \in Iters : it[i].state = "end" =>
        \A q \in 1..it[i].upto :
            items[q] \in {it[i].type, "torn"} =>
                \/ q \in offered \cup skipped
                \/ \E p \in 1..q : items[p] = "torn" /\ p < it[i].upto

\* doc/pbsf.md: read_one_type will "read values of `Type` from the file, skipping
\* mismatched types", whatever happened to the iterator before.
OwnTypeAlways ==
    \A i \in Iters : it[i].val # NoBlock => it[i].val.type = it[i].type
===============================================================================
