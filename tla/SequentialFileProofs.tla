------------------------- MODULE SequentialFileProofs -------------------------
(***************************************************************************)
(* What SequentialFile promises, for every number of types, realms,          *)
(* iterators and items.  The argument: whatever a writer does, the items     *)
(* that have left the buffer stay what they are while somebody reads         *)
(* (Keeps); a reader in its place has offered or skipped every block before  *)
(* it, and one that has lost it has passed a torn piece with something after *)
(* it (PlaceInv).                                                           *)
(***************************************************************************)
EXTENDS SequentialFile, SequenceTheorems, TLAPS

\* The file: one header, at the start; a piece of an item is out only while the
\* rest of that item is in the buffer.
FileInv ==
    /\ \A q \in 2..Len(items) : items[q] # "header"
    /\ partial => disk < Len(items)

\* The input handle: no iterator without an open stream, no stream that has not
\* read the header.
HandleInv ==
    /\ rstate = "closed" => pos = 0 /\ sync /\ \A i \in Iters : it[i].state = "none"
    /\ rstate # "closed" => pos >= 1 /\ items[1] = "header"

\* The reader's place in the file.
PlaceInv ==
    /\ sync => \A q \in 2..pos : q \in offered \cup skipped
    /\ ~sync => \E p \in 1..disk :
          /\ items[p] = "torn" /\ (p < disk \/ partial)
          /\ \A q \in 2..(p - 1) : q \in offered \cup skipped

\* A parsed block that somebody wrote is the item it says it is.
Written(b) == b.item # 0 => b.item \in 1..disk /\ items[b.item] = b.type

\* What the end of iterator i means.
EndOf(i) ==
    \A q \in 1..it[i].upto :
        items[q] \in {it[i].type, "torn"} =>
            \/ q \in offered \cup skipped
            \/ \E p \in 1..q : items[p] = "torn" /\ p < it[i].upto

\* What iterator i holds.  Only an iterator that is being advanced, or whose
\* advance threw, has a block of another type; only one whose constructor has not
\* returned is new.
Sound(i) ==
    /\ it[i].state = "none" => it[i] = NoIterator
    /\ it[i].state # "none" => it[i].type \in Types
    /\ it[i].state = "new" => busy = i
    /\ busy = i => it[i].state \in {"new", "at"}
    /\ Written(it[i].blk) /\ Written(it[i].val)
    /\ it[i].val # NoBlock => it[i].val.item # 0
    /\ it[i].state = "at" /\ ~it[i].thrown /\ busy # i => it[i].blk.type = it[i].type
    /\ it[i].val # NoBlock /\ ~it[i].thrown => it[i].val.type = it[i].type
    /\ it[i].state = "end" => it[i].upto <= disk /\ EndOf(i)

IInv == TypeOK /\ FileInv /\ HandleInv /\ PlaceInv /\ \A i \in Iters : Sound(i)

\* What a writer leaves alone while somebody reads: the items that are out; and
\* once a piece of the next one is, there is more to come.
Keeps ==
    /\ disk' >= disk
    /\ \A q \in 1..disk : items'[q] = items[q]
    /\ partial => disk' > disk \/ partial'

FileType ==
    /\ items \in Seq(Types \cup {"header", "torn"}) /\ Len(items) <= MaxItems
    /\ realm \in Realms
    /\ disk \in 0..Len(items)
    /\ partial \in BOOLEAN

-------------------------------------------------------------------------------
(***************************************************************************)
(* Writers.                                                                *)
(***************************************************************************)
LEMMA CutKeeps ==
    ASSUME TypeOK, FileInv, NEW n \in 0..MaxItems, NEW torn \in BOOLEAN, CutAt(n, torn)
    PROVE  FileType' /\ FileInv' /\ Keeps
<1> DEFINE S == Types \cup {"header", "torn"}
           head == SubSeq(items, 1, n)
<1>0. /\ items \in Seq(S) /\ Len(items) \in Nat /\ Len(items) <= MaxItems /\ MaxItems \in Nat
      /\ disk \in Nat /\ n \in Nat /\ disk <= n /\ n <= Len(items)
      /\ torn => n < Len(items)
      /\ \A q \in 1..Len(items) : items[q] \in S
  BY NameAssumption, ElementOfSeq DEF TypeOK, CutAt
<1>1. head \in Seq(S) /\ Len(head) = n /\ \A q \in 1..n : head[q] = items[q]
  <2>1. \A q \in 1..n : items[q] \in S
    BY <1>0
  <2> QED
    BY <1>0, <2>1, SubSeqProperties, IsASeq
<1>p. ~partial' /\ partial' \in BOOLEAN /\ realm' \in Realms
  BY DEF CutAt, TypeOK
<1>2. CASE torn
  <2>1. items' = head \o <<"torn">>
    BY <1>2 DEF CutAt
  <2>2. <<"torn">> \in Seq(S) /\ Len(<<"torn">>) = 1 /\ <<"torn">>[1] = "torn"
    OBVIOUS
  <2>3. /\ items' \in Seq(S) /\ Len(items') = n + 1
        /\ \A q \in 1..n : items'[q] = items[q]
        /\ items'[n + 1] = "torn"
    BY <1>0, <1>1, <2>1, <2>2, ConcatProperties
  <2>4. disk' = n + 1
    BY <1>2 DEF CutAt
  <2>5. FileType' /\ Keeps
    BY <1>0, <1>2, <1>p, <2>3, <2>4 DEF FileType, Keeps
  <2>6. FileInv'
    BY <1>0, <1>p, <2>3 DEF FileInv
  <2> QED
    BY <2>5, <2>6
<1>3. CASE ~torn
  <2>1. items' = head
    BY <1>1, <1>3, ConcatEmptySeq DEF CutAt
  <2>2. disk' = n /\ ~(n = disk /\ partial)
    BY <1>3 DEF CutAt
  <2>3. FileType' /\ Keeps
    BY <1>0, <1>1, <1>p, <2>1, <2>2 DEF FileType, Keeps
  <2>4. FileInv'
    BY <1>0, <1>1, <1>p, <2>1 DEF FileInv
  <2> QED
    BY <2>3, <2>4
<1> QED
  BY <1>2, <1>3

LEMMA WriteKeeps ==
    ASSUME TypeOK, FileInv, NEW t \in Types, write_block(t)
    PROVE  FileType' /\ FileInv' /\ Keeps
<1> DEFINE S == Types \cup {"header", "torn"}
<1>1. /\ items' \in Seq(S) /\ Len(items') = Len(items) + 1
      /\ \A q \in 1..Len(items) : items'[q] = items[q]
      /\ items'[Len(items) + 1] = t
  BY AppendProperties DEF TypeOK, write_block
<1>2. Len(items) \in Nat /\ disk \in 0..Len(items) /\ MaxItems \in Nat /\ Len(items) < MaxItems
  BY NameAssumption DEF TypeOK, write_block
<1>3. realm' = realm /\ disk' = disk /\ partial' = partial
  BY DEF write_block
<1>4. FileType' /\ Keeps
  BY <1>1, <1>2, <1>3 DEF TypeOK, FileType, Keeps
<1>5. FileInv'
  BY <1>1, <1>2, <1>3, NameAssumption DEF FileInv
<1> QED
  BY <1>4, <1>5

\* The rest of IInv holds on after a writer's step that keeps what is out.
LEMMA KeepsEnough ==
    ASSUME IInv, FileType', FileInv', Keeps, UNCHANGED input,
           wstate' \in {"closed", "open", "failed"},
           result' \in {"ok", "ios_failure", "unknown_realm_error", "bad_checksum_error",
                       "crash", "lost"}
    PROVE  IInv'
<1>0. /\ rstate' = rstate /\ pos' = pos /\ sync' = sync /\ it' = it /\ busy' = busy
      /\ offered' = offered /\ skipped' = skipped
  BY DEF input
<1>1. /\ disk \in Nat /\ disk' \in Nat /\ pos \in 0..disk /\ disk <= disk'
      /\ \A q \in 1..disk : items'[q] = items[q]
  BY NameAssumption DEF IInv, TypeOK, FileType, Keeps
<1>2. TypeOK'
  BY <1>0, <1>1 DEF IInv, TypeOK, FileType
<1>3. HandleInv'
  BY <1>0, <1>1 DEF IInv, HandleInv
<1>4. PlaceInv'
  <2>1. CASE sync
    BY <1>0, <1>1, <2>1 DEF IInv, PlaceInv
  <2>2. CASE ~sync
    <3>1. PICK p \in 1..disk : /\ items[p] = "torn" /\ (p < disk \/ partial)
                              /\ \A q \in 2..(p - 1) : q \in offered \cup skipped
      BY <2>2 DEF IInv, PlaceInv
    <3>2. p \in 1..disk' /\ items'[p] = "torn" /\ (p < disk' \/ partial')
      BY <1>1, <3>1 DEF Keeps
    <3> QED
      BY <1>0, <2>2, <3>1, <3>2 DEF PlaceInv
  <2> QED
    BY <2>1, <2>2
<1>5. ASSUME NEW i \in Iters PROVE Sound(i)'
  <2>1. Sound(i) /\ it[i] \in Iterator
    BY DEF IInv, TypeOK
  <2>2. it[i].upto \in Nat /\ it[i].blk.item \in Nat /\ it[i].val.item \in Nat
    BY <2>1, NameAssumption DEF Iterator, Block
  <2>3. Written(it[i].blk)' /\ Written(it[i].val)'
    BY <1>0, <1>1, <2>1, <2>2 DEF Sound, Written
  <2>4. ASSUME it[i].state = "end" PROVE it[i].upto <= disk' /\ EndOf(i)'
    <3>1. it[i].upto <= disk /\ EndOf(i)
      BY <2>1, <2>4 DEF Sound
    <3>2. \A q \in 1..it[i].upto : items'[q] = items[q]
      BY <1>1, <2>2, <3>1
    <3> QED
      BY <1>0, <1>1, <2>2, <3>1, <3>2 DEF EndOf
  <2> QED
    BY <1>0, <2>1, <2>3, <2>4 DEF Sound
<1> QED
  BY <1>2, <1>3, <1>4, <1>5 DEF IInv

LEMMA CheckFile ==
    ASSUME NEW r \in Realms
    PROVE  /\ check_file(r) \in {"ok", "ios_failure", "unknown_realm_error"}
           /\ check_file(r) = "ok" => disk # 0 /\ items[1] = "header"
  BY DEF check_file

\* A file is begun anew only when nobody reads it.
LEMMA NewStep ==
    ASSUME IInv, NEW r \in Realms, NEW overwrite \in BOOLEAN, open_output_new(r, overwrite)
    PROVE  IInv'
<1>0. /\ rstate' = rstate /\ pos' = pos /\ sync' = sync /\ it' = it /\ busy' = busy
      /\ offered' = offered /\ skipped' = skipped
      /\ items' = <<"header">> /\ realm' = r /\ disk' = 0
      /\ partial' \in BOOLEAN /\ ~partial'
      /\ wstate' = "open" /\ result' = "ok" /\ MaxItems > 0 /\ MaxItems \in Nat
  BY NameAssumption DEF open_output_new, input
<1>1. rstate = "closed"
  BY NameAssumption DEF IInv, TypeOK, HandleInv, open_output_new
<1>2. pos = 0 /\ sync /\ \A i \in Iters : it[i].state = "none"
  BY <1>1 DEF IInv, HandleInv
<1>3. items' \in Seq(Types \cup {"header", "torn"}) /\ Len(items') = 1
  BY <1>0
<1>4. TypeOK'
  BY <1>0, <1>2, <1>3 DEF IInv, TypeOK
<1>5. FileInv' /\ HandleInv' /\ PlaceInv'
  BY <1>0, <1>1, <1>2, <1>3 DEF FileInv, HandleInv, PlaceInv
<1>6. ASSUME NEW i \in Iters PROVE Sound(i)'
  <2>1. it'[i] = NoIterator
    BY <1>0, <1>2 DEF IInv, Sound
  <2>2. busy' # i
    BY <1>0, <1>2 DEF IInv, Sound
  <2> QED
    BY <2>1, <2>2 DEF Sound, Written, NoIterator, NoBlock
<1> QED
  BY <1>4, <1>5, <1>6 DEF IInv

LEMMA WriterStep ==
    ASSUME IInv, Writer PROVE IInv'
<1>0. TypeOK /\ FileInv
  BY DEF IInv
<1>1. ASSUME NEW r \in Realms, NEW overwrite \in BOOLEAN, open_output_new(r, overwrite)
      PROVE  IInv'
  BY <1>1, NewStep
<1>2. ASSUME NEW r \in Realms, open_output_existing(r) PROVE IInv'
  <2>1. items' = items /\ realm' = realm /\ disk' = disk /\ partial' = partial /\ UNCHANGED input
    BY <1>2 DEF open_output_existing, file
  <2>2. wstate' \in {"closed", "open"} /\ result' \in {"ok", "ios_failure", "unknown_realm_error"}
    BY <1>2, CheckFile DEF open_output_existing
  <2>3. FileType' /\ FileInv' /\ Keeps
    BY <1>0, <2>1, NameAssumption DEF FileType, FileInv, Keeps, TypeOK
  <2> QED
    BY <2>1, <2>2, <2>3, KeepsEnough
<1>3. ASSUME NEW t \in Types, write_block(t) PROVE IInv'
  <2>1. wstate' \in {"closed", "open", "failed"} /\ result' = "ok" /\ UNCHANGED input
    BY <1>0, <1>3 DEF write_block, TypeOK
  <2> QED
    BY <1>0, <1>3, <2>1, WriteKeeps, KeepsEnough
<1>4. ASSUME close_output PROVE IInv'
  <2>1. /\ items' = items /\ realm' = realm /\ disk' = Len(items)
        /\ partial' \in BOOLEAN /\ ~partial'
        /\ wstate' = "closed" /\ result' = "ok" /\ UNCHANGED input
    BY <1>4 DEF close_output
  <2>2. FileType' /\ FileInv' /\ Keeps
    BY <1>0, <2>1 DEF FileType, FileInv, Keeps, TypeOK
  <2> QED
    BY <2>1, <2>2, KeepsEnough
<1>5. ASSUME NEW n \in 0..MaxItems, NEW torn \in BOOLEAN, write_fails(n, torn) PROVE IInv'
  <2>1. CutAt(n, torn) /\ wstate' = "failed" /\ result' = "ios_failure" /\ UNCHANGED input
    BY <1>5 DEF write_fails
  <2> QED
    BY <1>0, <2>1, CutKeeps, KeepsEnough
<1>6. ASSUME NEW n \in 0..MaxItems, NEW torn \in BOOLEAN, overflow(n, torn) PROVE IInv'
  <2>1. /\ items' = items /\ realm' = realm /\ disk' = n /\ partial' = torn
        /\ wstate' = "open" /\ UNCHANGED <<input, result>>
        /\ n \in disk..Len(items) /\ (torn => n < Len(items)) /\ (n = disk => torn /\ ~partial)
    BY <1>6 DEF overflow
  <2>2. FileType' /\ FileInv' /\ Keeps
    BY <1>0, <2>1, NameAssumption DEF FileType, FileInv, Keeps, TypeOK
  <2> QED
    BY <2>1, <2>2, <1>0, KeepsEnough DEF TypeOK
<1>7. ASSUME NEW n \in 0..MaxItems, NEW torn \in BOOLEAN, close_output_fails(n, torn) PROVE IInv'
  <2>1. /\ CutAt(n, torn) /\ wstate' = "closed" /\ result' \in {"lost", "crash"}
        /\ UNCHANGED input
    BY <1>7 DEF close_output_fails
  <2> QED
    BY <1>0, <2>1, CutKeeps, KeepsEnough
<1> QED
  BY <1>1, <1>2, <1>3, <1>4, <1>5, <1>6, <1>7 DEF Writer

-------------------------------------------------------------------------------
(***************************************************************************)
(* The reader.                                                             *)
(***************************************************************************)
\* What a step of the iterator i leaves alone: the file, the other iterators and
\* what has been offered and skipped.
Own(i) ==
    /\ UNCHANGED file
    /\ busy \in {Nobody, i} /\ busy' \in {Nobody, i}
    /\ \A j \in Iters \ {i} : it'[j] = it[j]
    /\ offered \subseteq offered' /\ skipped \subseteq skipped'

LEMMA Others ==
    ASSUME IInv, NEW i \in Iters, Own(i), Sound(i)'
    PROVE  \A j \in Iters : Sound(j)'
<1> SUFFICES ASSUME NEW j \in Iters \ {i} PROVE Sound(j)'
  OBVIOUS
<1>1. /\ items' = items /\ disk' = disk /\ it'[j] = it[j]
      /\ busy \in {Nobody, i} /\ busy' \in {Nobody, i} /\ j # i /\ j # Nobody
      /\ offered \subseteq offered' /\ skipped \subseteq skipped'
  BY NameAssumption DEF Own, file
<1>2. Sound(j)
  BY DEF IInv
<1>3. EndOf(j) => EndOf(j)'
  BY <1>1 DEF EndOf
<1> QED
  BY <1>1, <1>2, <1>3 DEF Sound, Written

\* What no step of an iterator changes but through the place of the stream.
LEMMA OwnStep ==
    ASSUME IInv, NEW i \in Iters, Own(i), Sound(i)', it' \in [Iters -> Iterator],
           wstate' = wstate, rstate' \in {"good", "eof", "fail"}, rstate # "closed",
           pos' \in pos..disk, sync' \in BOOLEAN, PlaceInv',
           result' \in {"ok", "ios_failure", "unknown_realm_error", "bad_checksum_error",
                       "crash", "lost"},
           offered' \subseteq 1..MaxItems, skipped' \subseteq 1..MaxItems
    PROVE  IInv'
<1>1. items' = items /\ realm' = realm /\ disk' = disk /\ partial' = partial
  BY DEF Own, file
<1>2. pos \in Nat /\ disk \in Nat /\ pos <= disk /\ busy' \in Iters \cup {Nobody}
  BY DEF IInv, TypeOK, Own
<1>3. TypeOK'
  BY <1>1, <1>2 DEF IInv, TypeOK
<1>4. FileInv'
  BY <1>1 DEF IInv, FileInv
<1>5. HandleInv'
  BY <1>1, <1>2 DEF IInv, HandleInv
<1> QED
  BY <1>3, <1>4, <1>5, Others DEF IInv

\* The steps that do not read: the stream and its history stay.
LEMMA QuietStep ==
    ASSUME IInv, NEW i \in Iters, Own(i), Sound(i)', it' \in [Iters -> Iterator],
           UNCHANGED <<wstate, pos, sync, offered, skipped>>, rstate # "closed",
           rstate' \in {"good", "eof", "fail"},
           result' \in {"ok", "ios_failure", "bad_checksum_error"}
    PROVE  IInv'
<1>1. items' = items /\ disk' = disk /\ partial' = partial
  BY DEF Own, file
<1>2. PlaceInv'
  BY <1>1 DEF IInv, PlaceInv
<1>3. pos' \in pos..disk /\ sync' \in BOOLEAN
  BY DEF IInv, TypeOK
<1>4. offered' \subseteq 1..MaxItems /\ skipped' \subseteq 1..MaxItems
  BY DEF IInv, TypeOK
<1> QED
  BY <1>2, <1>3, <1>4, OwnStep

LEMMA Open ==
    ASSUME IInv, NEW i \in Iters, it[i].state # "none" PROVE rstate # "closed"
  BY DEF IInv, HandleInv

LEMMA NoIteratorTyped == NoBlock \in Block /\ NoIterator \in Iterator
  BY NameAssumption DEF NoBlock, Block, NoIterator, Iterator

LEMMA OpenStep ==
    ASSUME IInv, NEW r \in Realms, open_input(r) PROVE IInv'
<1>1. /\ items' = items /\ realm' = realm /\ disk' = disk /\ partial' = partial
      /\ wstate' = wstate /\ sync' = sync /\ it' = it /\ busy' = busy
      /\ offered' = offered /\ skipped' = skipped
      /\ rstate = "closed" /\ result' = check_file(r)
  BY DEF open_input, file
<1>2. \A i \in Iters : Sound(i)'
  BY <1>1 DEF IInv, Sound, Written, EndOf
<1>3. FileInv'
  BY <1>1 DEF IInv, FileInv
<1>4. CASE check_file(r) = "ok"
  <2>1. rstate' = "good" /\ pos' = 1 /\ disk # 0 /\ items[1] = "header"
    BY <1>4, CheckFile DEF open_input
  <2>2. TypeOK'
    BY <1>1, <1>4, <2>1 DEF IInv, TypeOK
  <2>3. HandleInv' /\ PlaceInv'
    BY <1>1, <2>1 DEF IInv, HandleInv, PlaceInv
  <2> QED
    BY <1>2, <1>3, <2>2, <2>3 DEF IInv
<1>5. CASE check_file(r) # "ok"
  <2>1. rstate' = rstate /\ pos' = pos
    BY <1>5 DEF open_input
  <2>2. TypeOK'
    BY <1>1, <2>1, CheckFile DEF IInv, TypeOK
  <2>3. HandleInv' /\ PlaceInv'
    BY <1>1, <2>1 DEF IInv, HandleInv, PlaceInv
  <2> QED
    BY <1>2, <1>3, <2>2, <2>3 DEF IInv
<1> QED
  BY <1>4, <1>5

LEMMA CloseStep ==
    ASSUME IInv, close_input PROVE IInv'
<1>1. /\ items' = items /\ realm' = realm /\ disk' = disk /\ partial' = partial
      /\ wstate' = wstate /\ it' = it /\ busy' = busy /\ result' = "ok"
      /\ offered' = {} /\ skipped' = {} /\ rstate' = "closed" /\ pos' = 0
      /\ sync' \in BOOLEAN /\ sync'
      /\ \A i \in Iters : it[i].state = "none"
  BY DEF close_input, file
<1>2. \A i \in Iters : Sound(i)'
  BY <1>1 DEF IInv, Sound, Written
<1>3. FileInv' /\ HandleInv' /\ PlaceInv'
  BY <1>1 DEF IInv, FileInv, HandleInv, PlaceInv
<1>4. TypeOK'
  BY <1>1 DEF IInv, TypeOK
<1> QED
  BY <1>2, <1>3, <1>4 DEF IInv

LEMMA NewIteratorStep ==
    ASSUME IInv, NEW i \in Iters, NEW t \in Types, read_one_type(i, t) PROVE IInv'
<1>1. /\ it \in [Iters -> Iterator]
      /\ it' = [it EXCEPT ![i] = [NoIterator EXCEPT !.state = "new", !.type = t]]
      /\ busy = Nobody /\ busy' = i /\ result' = "ok" /\ rstate # "closed" /\ rstate' = rstate
      /\ UNCHANGED <<file, wstate, pos, sync, offered, skipped>>
      /\ rstate \in {"closed", "good", "eof", "fail"}
  BY DEF read_one_type, IInv, TypeOK
<1>2. it' \in [Iters -> Iterator]
  BY <1>1, NoIteratorTyped DEF Iterator, NoIterator
<1>3. Own(i)
  BY <1>1 DEF Own
<1>4. Sound(i)'
  BY <1>1 DEF Sound, Written, NoIterator, NoBlock
<1> QED
  BY <1>1, <1>2, <1>3, <1>4, QuietStep

LEMMA IncrementStep ==
    ASSUME IInv, NEW i \in Iters, increment(i) PROVE IInv'
<1>1. /\ it \in [Iters -> Iterator] /\ it[i] \in Iterator /\ it[i].state = "at"
      /\ it' = [it EXCEPT ![i].val = NoBlock]
      /\ busy = Nobody /\ busy' = i /\ result' = "ok" /\ rstate' = rstate
      /\ UNCHANGED <<file, wstate, pos, sync, offered, skipped>>
      /\ rstate \in {"closed", "good", "eof", "fail"}
  BY DEF increment, IInv, TypeOK
<1>2. rstate # "closed"
  BY <1>1, Open
<1>3. it' \in [Iters -> Iterator]
  BY <1>1, NoIteratorTyped DEF Iterator
<1>4. Own(i)
  BY <1>1 DEF Own
<1>5. it'[i] = [it[i] EXCEPT !.val = NoBlock]
  BY <1>1
<1>6. Sound(i)'
  BY <1>1, <1>5 DEF IInv, Sound, Written, NoBlock, file, Iterator
<1> QED
  BY <1>1, <1>2, <1>3, <1>4, <1>6, QuietStep

LEMMA FailsStep ==
    ASSUME IInv, NEW i \in Iters, parse_fails(i) PROVE IInv'
<1>1. /\ it \in [Iters -> Iterator] /\ it[i] \in Iterator
      /\ it' = [it EXCEPT ![i] = Thrown(i)]
      /\ busy = i /\ busy' = Nobody /\ result' = "ios_failure" /\ rstate' = "fail"
      /\ UNCHANGED <<file, wstate, pos, sync, offered, skipped>>
  BY DEF parse_fails, IInv, TypeOK
<1>2. rstate # "closed" /\ it[i].state # "none"
  <2>1. it[i].state # "none"
    BY <1>1 DEF IInv, Sound
  <2> QED
    BY <2>1, Open
<1>3. Thrown(i) \in Iterator /\ it' \in [Iters -> Iterator] /\ it'[i] = Thrown(i)
  BY <1>1, NoIteratorTyped DEF Iterator, Thrown
<1>4. Own(i)
  BY <1>1 DEF Own
<1>5. Sound(i)'
  <2>1. CASE it[i].state = "new"
    BY <1>1, <1>3, <2>1, NameAssumption DEF Sound, Thrown, Written, NoIterator, NoBlock
  <2>2. CASE it[i].state # "new"
    <3>1. it'[i] = [it[i] EXCEPT !.thrown = TRUE]
      BY <1>3, <2>2 DEF Thrown
    <3>2. /\ it'[i].state = it[i].state /\ it'[i].blk = it[i].blk /\ it'[i].val = it[i].val
          /\ it'[i].type = it[i].type /\ it'[i].thrown /\ it'[i].state = "at"
      BY <1>1, <1>2, <2>2, <3>1 DEF Iterator, IInv, Sound
    <3> QED
      BY <1>1, <2>2, <3>2, NameAssumption DEF IInv, Sound, Written, file
  <2> QED
    BY <2>1, <2>2
<1> QED
  BY <1>1, <1>2, <1>3, <1>4, <1>5, QuietStep

LEMMA EndStep ==
    ASSUME IInv, NEW i \in Iters, parse_end(i) PROVE IInv'
<1>1. /\ it \in [Iters -> Iterator] /\ it[i] \in Iterator
      /\ it' = [it EXCEPT ![i].state = "end", ![i].upto = disk]
      /\ busy = i /\ busy' = Nobody /\ result' = "ok" /\ rstate' = "eof"
      /\ rstate = "good" /\ pos = disk /\ ~partial
      /\ UNCHANGED <<file, wstate, pos, sync, offered, skipped>>
      /\ items' = items /\ disk' = disk /\ offered' = offered /\ skipped' = skipped
  BY DEF parse_end, at_eof, IInv, TypeOK, file
<1>2. disk \in 0..MaxItems /\ disk <= Len(items) /\ Len(items) \in Nat /\ items[1] = "header"
  BY <1>1, NameAssumption DEF IInv, TypeOK, HandleInv
<1>3. /\ it' \in [Iters -> Iterator]
      /\ it'[i].state = "end" /\ it'[i].upto = disk /\ it'[i].type = it[i].type
      /\ it'[i].blk = it[i].blk /\ it'[i].val = it[i].val /\ it'[i].thrown = it[i].thrown
  BY <1>1, <1>2 DEF Iterator
<1>4. Own(i)
  BY <1>1 DEF Own
<1>5. EndOf(i)'
  <2> SUFFICES ASSUME NEW q \in 1..disk, items[q] \in {it[i].type, "torn"}
               PROVE  \/ q \in offered \cup skipped
                      \/ \E p \in 1..q : items[p] = "torn" /\ p < disk
    BY <1>1, <1>3 DEF EndOf
  <2>1. "header" \notin {it[i].type, "torn"}
    BY <1>1, NameAssumption DEF IInv, Sound
  <2>2. CASE sync
    <3>1. \A p \in 2..disk : p \in offered \cup skipped
      BY <1>1, <2>2 DEF IInv, PlaceInv
    <3> QED
      BY <1>2, <2>1, <3>1
  <2>3. CASE ~sync
    <3>1. PICK p \in 1..disk : /\ items[p] = "torn" /\ p < disk
                              /\ \A r \in 2..(p - 1) : r \in offered \cup skipped
      BY <1>1, <2>3 DEF IInv, PlaceInv
    <3> QED
      BY <1>2, <2>1, <3>1
  <2> QED
    BY <2>2, <2>3
<1>6. Sound(i)'
  BY <1>1, <1>2, <1>3, <1>5, NameAssumption DEF IInv, Sound, Written
<1> QED
  BY <1>1, <1>3, <1>4, <1>6, QuietStep

\* A block comes from a reader in its place, which finds what was written there, or
\* from one that has passed a torn piece with something after it.
InPlace(p) ==
    /\ sync /\ pos + 1 \in 2..disk /\ items[pos + 1] \in Types
    /\ p = [blk |-> [item |-> pos + 1, type |-> items[pos + 1]], pos |-> pos + 1, sync |-> TRUE]

Astray(p) ==
    /\ p.blk.item = 0 /\ p.blk.type \in Types /\ p.blk \in Block
    /\ p.pos \in pos..disk /\ p.sync \in {FALSE}
    /\ sync => items[pos + 1] = "torn" /\ pos + 1 \in 2..disk /\ (pos + 1 < disk \/ partial)

LEMMA ParsedGives ==
    ASSUME IInv, NEW p \in Parsed PROVE rstate = "good" /\ (InPlace(p) \/ Astray(p))
<1>1. /\ rstate = "good" /\ pos # disk /\ ~cut_short
      /\ pos \in Nat /\ disk \in Nat /\ pos < disk /\ pos >= 1
      /\ disk <= Len(items) /\ Len(items) \in Nat
      /\ items \in Seq(Types \cup {"header", "torn"})
  <2>1. rstate = "good" /\ pos # disk /\ ~cut_short
    BY DEF Parsed
  <2> QED
    BY <2>1, NameAssumption DEF IInv, TypeOK, HandleInv
<1>2. pos + 1 \in 2..disk /\ items[pos + 1] \in Types \cup {"torn"}
  BY <1>1, ElementOfSeq DEF IInv, FileInv
<1>3. CASE sync /\ items[pos + 1] # "torn"
  <2>1. Parsed = {[blk |-> [item |-> pos + 1, type |-> items[pos + 1]],
                   pos |-> pos + 1, sync |-> TRUE]}
    BY <1>1, <1>3 DEF Parsed
  <2> QED
    BY <1>1, <1>2, <1>3, <2>1 DEF InPlace
<1>4. CASE ~(sync /\ items[pos + 1] # "torn")
  <2>1. Parsed = [blk : [item : {0}, type : Types], pos : pos..disk, sync : {FALSE}]
    BY <1>1, <1>4 DEF Parsed
  <2>a. p.blk \in [item : {0}, type : Types] /\ p.pos \in pos..disk /\ p.sync \in {FALSE}
    BY <2>1
  <2>b. \A b \in [item : {0}, type : Types] : b.item = 0 /\ b.type \in Types /\ b \in Block
    BY NameAssumption DEF Block
  <2>2. /\ p.blk.item = 0 /\ p.blk.type \in Types /\ p.blk \in Block
        /\ p.pos \in pos..disk /\ p.sync \in {FALSE}
    BY <2>a, <2>b, Zenon
  <2>3. sync => items[pos + 1] = "torn" /\ (pos + 1 < disk \/ partial)
    BY <1>1, <1>2, <1>4 DEF cut_short
  <2> QED
    BY <1>1, <1>2, <2>2, <2>3 DEF Astray
<1> QED
  BY <1>3, <1>4

\* parse_block, for the block it is given.
LEMMA BlockStep ==
    ASSUME IInv, NEW i \in Iters, parse_block(i) PROVE IInv'
<1>0. PICK p \in Parsed :
        /\ pos' = p.pos
        /\ sync' = p.sync
        /\ IF p.blk.type = it[i].type
             THEN /\ it' = [it EXCEPT ![i].blk = p.blk, ![i].moved = FALSE, ![i].state = "at"]
                  /\ busy' = Nobody
                  /\ offered' = offered \cup ({p.blk.item} \ {0})
                  /\ UNCHANGED skipped
             ELSE /\ it' = [it EXCEPT ![i].blk = p.blk, ![i].moved = FALSE]
                  /\ skipped' = skipped \cup ({p.blk.item} \ {0})
                  /\ UNCHANGED <<busy, offered>>
  BY DEF parse_block
<1>1. /\ it \in [Iters -> Iterator] /\ it[i] \in Iterator /\ busy = i /\ result' = "ok"
      /\ items' = items /\ disk' = disk /\ partial' = partial /\ realm' = realm
      /\ wstate' = wstate /\ rstate' = rstate
      /\ pos \in Nat /\ disk \in Nat /\ disk <= MaxItems /\ MaxItems \in Nat /\ pos <= disk
  BY NameAssumption DEF parse_block, IInv, TypeOK, file
<1>2. rstate = "good" /\ (InPlace(p) \/ Astray(p))
  BY ParsedGives
<1>3. p.blk \in Block /\ p.pos \in pos..disk /\ p.sync \in BOOLEAN /\ Written(p.blk)
  <2>1. CASE InPlace(p)
    <3>1. /\ p.blk = [item |-> pos + 1, type |-> items[pos + 1]]
          /\ p.pos = pos + 1 /\ p.sync \in BOOLEAN /\ pos + 1 \in 2..disk
          /\ items[pos + 1] \in Types
      BY <2>1 DEF InPlace
    <3> QED
      BY <1>1, <3>1 DEF Block, Written
  <2>2. CASE Astray(p)
    BY <2>2 DEF Astray, Written
  <2> QED
    BY <1>2, <2>1, <2>2
<1>4. /\ offered \subseteq offered' /\ skipped \subseteq skipped'
      /\ offered' \subseteq 1..MaxItems /\ skipped' \subseteq 1..MaxItems
      /\ offered' \cup skipped' = (offered \cup skipped) \cup ({p.blk.item} \ {0})
  <2>1. {p.blk.item} \ {0} \subseteq 1..MaxItems
    BY <1>1, <1>3 DEF Block
  <2> QED
    BY <1>0, <2>1 DEF IInv, TypeOK
<1>5. /\ it' \in [Iters -> Iterator] /\ \A j \in Iters \ {i} : it'[j] = it[j]
      /\ it'[i].blk = p.blk /\ it'[i].val = it[i].val /\ it'[i].type = it[i].type
      /\ it'[i].thrown = it[i].thrown /\ it'[i].upto = it[i].upto
      /\ IF p.blk.type = it[i].type THEN busy' = Nobody /\ it'[i].state = "at"
                                    ELSE busy' = i /\ it'[i].state = it[i].state
  <2>1. CASE p.blk.type = it[i].type
    <3>1. it' = [it EXCEPT ![i].blk = p.blk, ![i].moved = FALSE, ![i].state = "at"] /\ busy' = Nobody
      BY <1>0, <2>1
    <3> QED
      BY <1>1, <1>3, <2>1, <3>1 DEF Iterator
  <2>2. CASE p.blk.type # it[i].type
    <3>1. it' = [it EXCEPT ![i].blk = p.blk, ![i].moved = FALSE] /\ busy' = busy
      BY <1>0, <2>2
    <3> QED
      BY <1>1, <1>3, <2>2, <3>1 DEF Iterator
  <2> QED
    BY <2>1, <2>2
<1>6. Own(i)
  BY <1>1, <1>4, <1>5 DEF Own, file
<1>7. Sound(i)'
  <2>1. Sound(i) /\ it[i].state \in {"new", "at"}
    BY <1>1 DEF IInv, Sound
  <2>2. Written(p.blk)' /\ Written(it[i].val)'
    BY <1>1, <1>3, <1>5, <2>1 DEF Sound, Written
  <2>3. it[i].type \in Types
    BY <2>1 DEF Sound
  <2> QED
    BY <1>1, <1>5, <2>1, <2>2, <2>3, NameAssumption DEF Sound, Written
<1>8. PlaceInv'
  <2>1. CASE InPlace(p)
    <3>1. sync /\ sync' /\ pos' = pos + 1 /\ p.blk.item = pos + 1
      BY <1>0, <2>1 DEF InPlace
    <3>2. \A q \in 2..pos : q \in offered \cup skipped
      BY <3>1 DEF IInv, PlaceInv
    <3>3. \A q \in 2..pos' : q \in offered' \cup skipped'
      BY <1>1, <1>4, <3>1, <3>2
    <3> QED
      BY <3>1, <3>3 DEF PlaceInv
  <2>2. CASE Astray(p)
    <3>1. ~sync'
      BY <1>0, <2>2 DEF Astray
    <3>2. PICK r \in 1..disk : /\ items[r] = "torn" /\ (r < disk \/ partial)
                              /\ \A q \in 2..(r - 1) : q \in offered \cup skipped
      <4>1. CASE ~sync
        BY <4>1 DEF IInv, PlaceInv
      <4>2. CASE sync
        <5>1. /\ items[pos + 1] = "torn" /\ pos + 1 \in 1..disk /\ (pos + 1 < disk \/ partial)
          BY <1>1, <2>2, <4>2 DEF Astray
        <5>2. \A q \in 2..((pos + 1) - 1) : q \in offered \cup skipped
          BY <1>1, <4>2 DEF IInv, PlaceInv
        <5> QED
          BY <5>1, <5>2
      <4> QED
        BY <4>1, <4>2
    <3>3. \A q \in 2..(r - 1) : q \in offered' \cup skipped'
      BY <1>4, <3>2
    <3> QED
      BY <1>1, <3>1, <3>2, <3>3 DEF PlaceInv
  <2> QED
    BY <1>2, <2>1, <2>2
<1> QED
  BY <1>0, <1>1, <1>2, <1>3, <1>4, <1>5, <1>6, <1>7, <1>8, OwnStep

LEMMA DereferenceStep ==
    ASSUME IInv, NEW i \in Iters, dereference(i) PROVE IInv'
<1>1. /\ it \in [Iters -> Iterator] /\ it[i] \in Iterator /\ it[i].state = "at"
      /\ busy = Nobody /\ busy' = busy /\ rstate' = rstate
      /\ UNCHANGED <<file, wstate, pos, sync, offered, skipped>>
      /\ items' = items /\ disk' = disk
      /\ rstate \in {"closed", "good", "eof", "fail"}
  BY DEF dereference, IInv, TypeOK, file
<1>2. rstate # "closed"
  BY <1>1, Open
<1>3. CASE it[i].blk.item = 0 \/ it[i].moved
  <2>1. result' = "bad_checksum_error" /\ it' = it
    BY <1>3 DEF dereference
  <2>2. Own(i)
    BY <1>1, <2>1 DEF Own
  <2>3. Sound(i)'
    BY <1>1, <2>1 DEF IInv, Sound, Written, EndOf
  <2> QED
    BY <1>1, <1>2, <2>1, <2>2, <2>3, QuietStep
<1>4. CASE ~(it[i].blk.item = 0 \/ it[i].moved)
  <2>1. PICK m \in BOOLEAN : it' = [it EXCEPT ![i].val = it[i].blk, ![i].moved = m]
    BY <1>4 DEF dereference
  <2>2. result' = "ok"
    BY <1>4 DEF dereference
  <2>3. /\ it' \in [Iters -> Iterator] /\ \A j \in Iters \ {i} : it'[j] = it[j]
        /\ it'[i].blk = it[i].blk /\ it'[i].val = it[i].blk /\ it'[i].type = it[i].type
        /\ it'[i].thrown = it[i].thrown /\ it'[i].state = "at"
    BY <1>1, <2>1 DEF Iterator
  <2>4. Own(i)
    BY <1>1, <2>3 DEF Own
  <2>5. Sound(i)'
    BY <1>1, <1>4, <2>3, NameAssumption DEF IInv, Sound, Written
  <2> QED
    BY <1>1, <1>2, <2>2, <2>3, <2>4, <2>5, QuietStep
<1> QED
  BY <1>3, <1>4

LEMMA CopyStep ==
    ASSUME IInv, NEW i \in Iters, NEW j \in Iters, copy(i, j) PROVE IInv'
<1>1. /\ it \in [Iters -> Iterator] /\ it[i].state \in {"at", "end"}
      /\ it' = [it EXCEPT ![j] = it[i]]
      /\ busy = Nobody /\ busy' = busy /\ rstate' = rstate /\ result' = "ok"
      /\ UNCHANGED <<file, wstate, pos, sync, offered, skipped>>
      /\ items' = items /\ disk' = disk /\ offered' = offered /\ skipped' = skipped
      /\ rstate \in {"closed", "good", "eof", "fail"}
  BY DEF copy, IInv, TypeOK, file
<1>2. rstate # "closed"
  BY <1>1, Open
<1>3. it' \in [Iters -> Iterator] /\ it'[j] = it[i]
  BY <1>1
<1>4. Own(j)
  BY <1>1 DEF Own
<1>5. EndOf(i) => EndOf(j)'
  BY <1>1, <1>3 DEF EndOf
<1>6. Sound(j)'
  BY <1>1, <1>3, <1>5, NameAssumption DEF IInv, Sound, Written
<1> QED
  BY <1>1, <1>2, <1>3, <1>4, <1>6, QuietStep

LEMMA DropStep ==
    ASSUME IInv, NEW i \in Iters, drop(i) PROVE IInv'
<1>1. /\ it \in [Iters -> Iterator] /\ it[i].state \in {"at", "end"}
      /\ it' = [it EXCEPT ![i] = NoIterator]
      /\ busy = Nobody /\ busy' = busy /\ rstate' = rstate /\ result' = "ok"
      /\ UNCHANGED <<file, wstate, pos, sync, offered, skipped>>
      /\ rstate \in {"closed", "good", "eof", "fail"}
  BY DEF drop, IInv, TypeOK
<1>2. rstate # "closed"
  BY <1>1, Open
<1>3. it' \in [Iters -> Iterator] /\ it'[i] = NoIterator
  BY <1>1, NoIteratorTyped
<1>4. Own(i)
  BY <1>1 DEF Own
<1>5. Sound(i)'
  BY <1>1, <1>3, NameAssumption DEF Sound, Written, NoIterator, NoBlock
<1> QED
  BY <1>1, <1>2, <1>3, <1>4, <1>5, QuietStep

LEMMA ReaderStep ==
    ASSUME IInv, Reader PROVE IInv'
  BY OpenStep, NewIteratorStep, IncrementStep, FailsStep, EndStep, BlockStep,
     DereferenceStep, CopyStep, DropStep, CloseStep DEF Reader

LEMMA StutterStep ==
    ASSUME IInv, UNCHANGED vars PROVE IInv'
<1>1. /\ items' = items /\ realm' = realm /\ disk' = disk /\ partial' = partial
      /\ wstate' = wstate /\ rstate' = rstate /\ pos' = pos /\ sync' = sync /\ it' = it
      /\ busy' = busy /\ result' = result /\ offered' = offered /\ skipped' = skipped
  BY DEF vars, file, input
<1> QED
  BY <1>1 DEF IInv, TypeOK, FileInv, HandleInv, PlaceInv, Sound, Written, EndOf

LEMMA InitIInv == Init => IInv
<1> SUFFICES ASSUME Init PROVE IInv
  OBVIOUS
<1>1. /\ items = << >> /\ realm \in Realms /\ disk = 0 /\ partial = FALSE /\ wstate = "closed"
      /\ rstate = "closed" /\ pos = 0 /\ sync = TRUE /\ it = [i \in Iters |-> NoIterator]
      /\ busy = Nobody /\ result = "ok" /\ offered = {} /\ skipped = {}
  BY DEF Init
<1>2. items \in Seq(Types \cup {"header", "torn"}) /\ Len(items) = 0
  BY <1>1
<1>3. it \in [Iters -> Iterator] /\ \A i \in Iters : it[i] = NoIterator
  BY <1>1, NoIteratorTyped
<1>b. partial \in BOOLEAN /\ sync \in BOOLEAN
  BY <1>1
<1>4. TypeOK
  BY <1>1, <1>2, <1>3, <1>b, NameAssumption DEF TypeOK
<1>5. FileInv
  BY <1>1, <1>2 DEF FileInv
<1>6. HandleInv /\ PlaceInv
  BY <1>1, <1>3 DEF HandleInv, PlaceInv, NoIterator
<1>7. \A i \in Iters : Sound(i)
  BY <1>1, <1>3, NameAssumption DEF Sound, Written, NoIterator, NoBlock
<1> QED
  BY <1>4, <1>5, <1>6, <1>7 DEF IInv

-------------------------------------------------------------------------------
(***************************************************************************)
(* The theorems.                                                           *)
(***************************************************************************)
\* IInv is an invariant: no session of a writer changes what a reader has been or
\* will be given, and the reader's place accounts for every block before it
\* (range-api.hh: sequential_file, filtering_iterator; parse_iterator).
THEOREM RangesInvariance == Spec => []IInv
<1>1. IInv /\ [Next]_vars => IInv'
  BY WriterStep, ReaderStep, StutterStep DEF Next
<1> QED
  BY InitIInv, <1>1, PTL DEF Spec

\* The variables have their types: in particular the stream never gets past what
\* has left the writer's buffer (pos \in 0..disk).
THEOREM RangesTyped == Spec => []TypeOK
<1>1. IInv => TypeOK
  BY DEF IInv
<1> QED
  BY RangesInvariance, <1>1, PTL

\* Every value an iterator yields is a block that some program wrote whole: what a
\* reader that has lost its place parses never gets through decode_block.
THEOREM ValuesWereWritten == Spec => []NothingInvented
<1>1. IInv => NothingInvented
  BY DEF IInv, Sound, Written, NothingInvented
<1> QED
  BY RangesInvariance, <1>1, PTL

\* read_one_type yields values of its type only, unless an increment has thrown.
THEOREM ValuesHaveTheType == Spec => []OwnType
<1>1. IInv => OwnType
  BY DEF IInv, Sound, OwnType
<1> QED
  BY RangesInvariance, <1>1, PTL

\* A range comes to its end only after every block of its type, but for those that
\* another range passed over or that lie behind a torn piece.
THEOREM EndsComplete == Spec => []EndMeansAll
<1>1. IInv => EndMeansAll
  BY DEF IInv, Sound, EndOf, EndMeansAll
<1> QED
  BY RangesInvariance, <1>1, PTL
===============================================================================
