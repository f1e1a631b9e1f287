----------------------------- MODULE IndexedFile -----------------------------
(***************************************************************************)
(* An indexed file (indexed-file.hh): one program at a time holds it open   *)
(* for output, any number of other programs hold it open for input.         *)
(*                                                                         *)
(* A session is the life of one output handle.  insert appends a block and  *)
(* records its offset in the handle's index; the destructor appends the     *)
(* index and a marker that points at it.  The program may crash, the device *)
(* may refuse to take bytes, at any point in between.                       *)
(***************************************************************************)
EXTENDS BlockFile

CONSTANTS Readers,    \* the programs that open the file for input
          Broken,     \* what is visible of a file that does not open
          NoSession   \* the draft when no session is under way

VARIABLES
    wstate,           \* the output handle: closed, open, failed, closing
    keyid,            \* the type id of its key type
    index,            \* its blocks_index
    need_write_index, \* "needed if file is new, or changed"
    lazy,             \* a lazy_value obtained from it
    reader,           \* the input handles
    result,           \* the outcome of the last call
    \* History, for the properties only:
    session,          \* key -> value, as the session's inserts left it
    committed,        \* the session map of the last index that was written
    published         \* that index is at the end of the file, on the device

handle == <<wstate, keyid, index, need_write_index, lazy>>
history == <<session, committed, published>>
vars == <<file, handle, reader, result, history>>

ValueMap == [Keys -> Values \cup {NoValue}]
EmptyMap == [k \in Keys |-> NoValue]

\* What stands for "no map" is not a map.
ASSUME StoreAssumption == Broken \notin ValueMap /\ NoSession \notin ValueMap

\* A lazy_value: nothing, a delayed read of the block at pos, or the result of
\* that read.  `expect' is history: the key's value when it was looked up.
NoLazy == [state |-> "none", pos |-> 0, val |-> NoValue, expect |-> NoValue]

\* An input handle; `pos' is where the marker said the index is.  `snap' and
\* `stale' are history: the contents that marker published, and whether the file
\* has been truncated since.
NoReader == [state |-> "closed", pos |-> 0, index |-> EmptyIndex,
             snap |-> EmptyMap, stale |-> FALSE]

OpenErrors == {"ios_failure", "unknown_realm_error", "parse_error", "key_mismatch_error"}

Outcomes == OpenErrors \cup {"ok", "key_missing_error", "crash", "terminate", "lost"}

TypeOK ==
    /\ FileTypeOK
    /\ wstate \in {"closed", "open", "failed", "closing"}
    /\ keyid \in KeyIds
    /\ index \in blocks_index
    /\ need_write_index \in BOOLEAN
    /\ lazy \in [state : {"none", "delayed", "read"}, pos : Nat,
                 val : Values \cup {NoValue}, expect : Values \cup {NoValue}]
    /\ reader \in [Readers -> [state : {"closed", "opening", "open", "failed"}, pos : Nat,
                               index : blocks_index, snap : ValueMap, stale : BOOLEAN]]
    /\ result \in Outcomes
    /\ session \in ValueMap
    /\ committed \in ValueMap
    /\ published \in BOOLEAN

(***************************************************************************)
(* check_file and read_current_index: the outcome of opening what is on the *)
(* device, in the order of the code's checks.  "parse_error" is whatever    *)
(* reading something that is not the wanted block raises: a type mismatch,  *)
(* a bad checksum, the end of the file.                                     *)
(***************************************************************************)
marker_pos == disk - MarkerSize

\* The marker, had its key id not been compared.
marker_of_any_key(kid) ==
    IF marker_pos < 0 THEN "ios_failure"
    ELSE IF ~IsA("marker", marker_pos) THEN "parse_error"
    ELSE "ok"

\* read_current_index, first half: the marker at the very end of the file.
read_marker(kid) ==
    IF marker_pos < 0 THEN "ios_failure"
    ELSE IF ~IsA("marker", marker_pos) THEN "parse_error"
    ELSE IF blocks[marker_pos].keyid # kid THEN "key_mismatch_error"
    ELSE "ok"

\* Second half: the index the marker points at.
read_index(p) == IF IsA("index", p) /\ EndOf(p) <= disk THEN "ok" ELSE "parse_error"

\* check_file, then the marker.
locate_index(r, kid) ==
    IF disk < HeaderSize THEN "ios_failure"
    ELSE IF header # r THEN "unknown_realm_error"
    ELSE read_marker(kid)

open_outcome(r, kid) ==
    IF locate_index(r, kid) # "ok" THEN locate_index(r, kid)
    ELSE read_index(blocks[marker_pos].pos)

stored_index == blocks[blocks[marker_pos].pos].map

\* What reading the block at offset p of the first n bytes yields: its value, or
\* NoValue when the read throws.
delayed_read(p, n) ==
    IF IsA("data", p) /\ EndOf(p) <= n THEN blocks[p].val ELSE NoValue

(***************************************************************************)
(* The output handle.                                                      *)
(***************************************************************************)
Init ==
    /\ blocks = NoBlocks
    /\ header \in Realms
    /\ len = 0
    /\ disk = 0
    /\ wstate = "closed"
    /\ keyid \in KeyIds
    /\ index = EmptyIndex
    /\ need_write_index = FALSE
    /\ lazy = NoLazy
    /\ reader = [r \in Readers |-> NoReader]
    /\ result = "ok"
    /\ session = EmptyMap
    /\ committed = EmptyMap
    /\ published = FALSE

\* open_indexed_output_file when the stream is at offset 0: the file was
\* truncated, did not exist, or was empty.
open_output_new(r, kid, overwrite) ==
    /\ wstate = "closed"
    /\ overwrite \/ disk = 0
    /\ HeaderSize <= MaxLen
    /\ write_header(r)
    /\ wstate' = "open"
    /\ keyid' = kid
    /\ index' = EmptyIndex
    /\ need_write_index' = TRUE
    /\ session' = EmptyMap
    /\ published' = FALSE
    /\ committed' = EmptyMap
    /\ reader' = [x \in Readers |->
                    [state |-> reader[x].state, pos |-> reader[x].pos,
                     index |-> reader[x].index, snap |-> EmptyMap,
                     stale |-> (reader[x].state # "closed")]]
    /\ result' = "ok"
    /\ UNCHANGED lazy

\* open_indexed_output_file, appending to an existing file.
open_output_existing(r, kid) ==
    /\ wstate = "closed"
    /\ disk > 0
    /\ open_outcome(r, kid) = "ok"
    /\ wstate' = "open"
    /\ keyid' = kid
    /\ index' = stored_index
    /\ need_write_index' = FALSE
    /\ session' = committed
    /\ published' = TRUE
    /\ result' = "ok"
    /\ UNCHANGED <<file, lazy, reader, committed>>

open_output_error(r, kid) ==
    /\ wstate = "closed"
    /\ disk > 0
    /\ open_outcome(r, kid) # "ok"
    /\ result' = open_outcome(r, kid)
    /\ UNCHANGED <<file, handle, reader, history>>

\* insert, had it asked for the position before seeking to the end.
insert_stale_position(k, v, n) ==
    /\ wstate = "open"
    /\ len + n <= MaxLen
    /\ remembered_append(DataBlock(v, n))
    /\ index' = [index EXCEPT ![k] = disk]
    /\ need_write_index' = TRUE
    /\ session' = [session EXCEPT ![k] = v]
    /\ published' = FALSE
    /\ result' = "ok"
    /\ UNCHANGED <<wstate, keyid, lazy, reader, committed>>

\* insert, had it forgotten to note the change.
insert_unnoted(k, v, n) ==
    /\ wstate = "open"
    /\ len + n <= MaxLen
    /\ remembered_append(DataBlock(v, n))
    /\ index' = [index EXCEPT ![k] = len]
    /\ session' = [session EXCEPT ![k] = v]
    /\ published' = FALSE
    /\ result' = "ok"
    /\ UNCHANGED <<wstate, keyid, need_write_index, lazy, reader, committed>>

\* insert: append, then record the offset, then note that the file changed.
insert(k, v, n) ==
    /\ wstate = "open"
    /\ len + n <= MaxLen
    /\ remembered_append(DataBlock(v, n))
    /\ index' = [index EXCEPT ![k] = len]
    /\ need_write_index' = TRUE
    /\ session' = [session EXCEPT ![k] = v]
    /\ published' = FALSE
    /\ result' = "ok"
    /\ UNCHANGED <<wstate, keyid, lazy, reader, committed>>

\* insert, had the stream's exceptions not been switched on.
insert_error_ignored(n, c) ==
    /\ wstate = "open"
    /\ c \in disk..(len + n - 1)
    /\ c <= MaxLen
    /\ CutAt(c)
    /\ \E k \in Keys, v \in Values :
         /\ index' = [index EXCEPT ![k] = len]
         /\ session' = [session EXCEPT ![k] = v]
    /\ need_write_index' = TRUE
    /\ published' = FALSE
    /\ result' = "ok"
    /\ UNCHANGED <<wstate, keyid, lazy, reader, committed>>

\* The device takes only the bytes before c: the flush of earlier bytes, or the
\* append itself, throws, and neither the index nor need_write_index is updated.
\* The stream keeps its badbit.
insert_fails(n, c) ==
    /\ wstate = "open"
    /\ c \in disk..(len + n - 1)
    /\ c <= MaxLen
    /\ CutAt(c)
    /\ wstate' = "failed"
    /\ published' = FALSE
    /\ result' = "ios_failure"
    /\ UNCHANGED <<keyid, index, need_write_index, lazy, reader, session, committed>>

\* The buffer runs over.
overflow(c) ==
    /\ wstate \in {"open", "closing"}
    /\ c \in (disk + 1)..len
    /\ FlushTo(c)
    /\ UNCHANGED <<handle, reader, result, history>>

\* file[key]: the lazy_value captures the offset the index holds now.
lookup(k) ==
    /\ wstate \in {"open", "failed"}
    /\ IF index[k] = 0
         THEN result' = "key_missing_error" /\ UNCHANGED lazy
         ELSE /\ result' = "ok"
              /\ lazy' = [state |-> "delayed", pos |-> index[k],
                          val |-> NoValue, expect |-> session[k]]
    /\ UNCHANGED <<file, wstate, keyid, index, need_write_index, reader, history>>

\* Dereferencing the lazy_value: the seek empties the buffer, the block is read
\* and kept.
force ==
    LET v == delayed_read(lazy.pos, len) IN
    /\ wstate = "open"
    /\ lazy.state = "delayed"
    /\ FlushTo(len)
    /\ lazy' = [state |-> "read", pos |-> lazy.pos, val |-> v, expect |-> lazy.expect]
    /\ wstate' = IF v = NoValue THEN "failed" ELSE "open"
    /\ result' = IF v = NoValue THEN "parse_error" ELSE "ok"
    /\ UNCHANGED <<keyid, index, need_write_index, reader, history>>

\* The seek cannot empty the buffer and throws; the lazy_value still has its read
\* to do.
force_fails(c) ==
    /\ wstate = "open"
    /\ lazy.state = "delayed"
    /\ c \in disk..(len - 1)
    /\ CutAt(c)
    /\ wstate' = "failed"
    /\ published' = FALSE
    /\ result' = "ios_failure"
    /\ UNCHANGED <<keyid, index, need_write_index, lazy, reader, session, committed>>

\* Once read, the value is kept and the stream is not touched; a stream that has
\* failed throws.
force_again ==
    /\ wstate \in {"open", "failed"}
    /\ \/ lazy.state = "read" /\ result' = "ok"
       \/ lazy.state = "delayed" /\ wstate = "failed" /\ result' = "ios_failure"
    /\ UNCHANGED <<file, handle, reader, history>>

(***************************************************************************)
(* The destructor, and the ends of a session it does not get to choose.    *)
(***************************************************************************)
\* The handle's members are destroyed.
members_gone ==
    /\ index' = EmptyIndex
    /\ need_write_index' = FALSE
    /\ lazy' = NoLazy
    /\ session' = EmptyMap
    /\ UNCHANGED <<keyid, reader>>

gone ==
    /\ wstate' = "closed"
    /\ members_gone
    /\ UNCHANGED committed

\* The destructor, had it written the marker before the index.
write_marker_first(n) ==
    /\ wstate = "open"
    /\ need_write_index
    /\ len + n + MarkerSize <= MaxLen
    /\ blocks' = WithBlock(WithBlock(blocks, len + MarkerSize, IndexBlock(index, n)),
                           len, index_position_marker(len + MarkerSize, keyid))
    /\ len' = len + n + MarkerSize
    /\ disk' = len
    /\ wstate' = "closing"
    /\ committed' = session
    /\ members_gone
    /\ result' = "ok"
    /\ UNCHANGED <<header, published>>

\* ~indexed_ofile: append the index, then the marker that points at it; both wait
\* in the buffer until the stream, the last member to go, is destroyed.
write_index(n) ==
    /\ wstate = "open"
    /\ need_write_index
    /\ len + n + MarkerSize <= MaxLen
    /\ blocks' = WithBlock(WithBlock(blocks, len, IndexBlock(index, n)),
                           len + n, index_position_marker(len, keyid))
    /\ len' = len + n + MarkerSize
    /\ disk' = len
    /\ wstate' = "closing"
    /\ committed' = session
    /\ members_gone
    /\ result' = "ok"
    /\ UNCHANGED <<header, published>>

\* The stream is destroyed after ~indexed_ofile: its buffer is written out.
close_stream ==
    /\ wstate = "closing"
    /\ FlushTo(len)
    /\ gone
    /\ published' = TRUE
    /\ result' = "ok"

\* The same, but the device does not take the bytes from c on: ~filebuf drops the
\* error, and the program never learns of it.
close_stream_fails(c) ==
    /\ wstate = "closing"
    /\ c \in disk..(len - 1)
    /\ CutAt(c)
    /\ gone
    /\ published' = FALSE
    /\ result' = "lost"

\* Neither new nor changed: nothing to write.
destroy_unchanged ==
    /\ wstate = "open"
    /\ ~need_write_index
    /\ FlushTo(len)
    /\ gone
    /\ result' = "ok"
    /\ UNCHANGED published

\* The only insert failed, so there is no index to write; the stream tries the
\* bytes in its buffer once more and leaves what it can of them.
destroy_failed(c) ==
    /\ wstate = "failed"
    /\ ~need_write_index
    /\ c \in disk..MaxLen
    /\ len' = c
    /\ disk' = c
    /\ UNCHANGED <<blocks, header>>
    /\ gone
    /\ published' = FALSE
    /\ result' = "ok"

\* Writing the index throws out of the destructor, which is noexcept.  A stream
\* that failed before throws at once; otherwise the device takes c bytes.
terminate_failed ==
    /\ wstate = "failed"
    /\ need_write_index
    /\ gone
    /\ published' = FALSE
    /\ result' = "terminate"
    /\ UNCHANGED file

terminate_writing(n, c) ==
    /\ wstate = "open"
    /\ need_write_index
    /\ c \in disk..(len + n + MarkerSize - 1)
    /\ c <= MaxLen
    /\ blocks' = Prefix(WithBlock(blocks, len, IndexBlock(index, n)), c)
    /\ len' = c
    /\ disk' = c
    /\ UNCHANGED header
    /\ gone
    /\ published' = FALSE
    /\ result' = "terminate"

\* The program dies; the bytes from c on never left its buffer.
crash(c) ==
    /\ wstate # "closed"
    /\ c \in disk..len
    /\ CutAt(c)
    /\ gone
    /\ published' = (c = len /\ (published \/ wstate = "closing"))
    /\ result' = "crash"

(***************************************************************************)
(* Input handles.                                                          *)
(***************************************************************************)
\* open_indexed_input_file finds the marker; the program with the output handle
\* may go on before the index is read.
open_input(x, r, kid) ==
    /\ reader[x].state = "closed"
    /\ locate_index(r, kid) = "ok"
    /\ reader' = [reader EXCEPT ![x] =
                    [state |-> "opening", pos |-> blocks[marker_pos].pos,
                     index |-> EmptyIndex, snap |-> committed, stale |-> FALSE]]
    /\ result' = "ok"
    /\ UNCHANGED <<file, handle, history>>

open_input_error(x, r, kid) ==
    /\ reader[x].state = "closed"
    /\ locate_index(r, kid) # "ok"
    /\ result' = locate_index(r, kid)
    /\ UNCHANGED <<file, handle, reader, history>>

open_input_index(x) ==
    /\ reader[x].state = "opening"
    /\ read_index(reader[x].pos) = "ok"
    /\ reader' = [reader EXCEPT ![x] =
                    [state |-> "open", pos |-> 0, index |-> blocks[reader[x].pos].map,
                     snap |-> reader[x].snap, stale |-> reader[x].stale]]
    /\ result' = "ok"
    /\ UNCHANGED <<file, handle, history>>

open_input_index_error(x) ==
    /\ reader[x].state = "opening"
    /\ read_index(reader[x].pos) # "ok"
    /\ reader' = [reader EXCEPT ![x] = NoReader]
    /\ result' = "parse_error"
    /\ UNCHANGED <<file, handle, history>>

\* Looking a key up and dereferencing the lazy_value.
read_entry(x, k) ==
    LET p == reader[x].index[k] IN
    /\ reader[x].state = "open"
    /\ p # 0
    /\ delayed_read(p, disk) # NoValue
    /\ result' = "ok"
    /\ UNCHANGED <<file, handle, reader, history>>

\* The block is not there: the stream may be left in a failed state, which lasts.
read_entry_error(x, k) ==
    LET p == reader[x].index[k] IN
    /\ reader[x].state = "open"
    /\ p # 0
    /\ delayed_read(p, disk) = NoValue
    /\ \E s \in {"open", "failed"} :
         reader' = [reader EXCEPT ![x] =
                      [state |-> s, pos |-> 0, index |-> reader[x].index,
                       snap |-> reader[x].snap, stale |-> reader[x].stale]]
    /\ result' = "parse_error"
    /\ UNCHANGED <<file, handle, history>>

read_entry_failed(x, k) ==
    /\ reader[x].state = "failed"
    /\ reader[x].index[k] # 0
    /\ result' = "ios_failure"
    /\ UNCHANGED <<file, handle, reader, history>>

read_missing(x, k) ==
    /\ reader[x].state \in {"open", "failed"}
    /\ reader[x].index[k] = 0
    /\ result' = "key_missing_error"
    /\ UNCHANGED <<file, handle, reader, history>>

close_input(x) ==
    /\ reader[x].state \in {"open", "failed"}
    /\ reader' = [reader EXCEPT ![x] = NoReader]
    /\ result' = "ok"
    /\ UNCHANGED <<file, handle, history>>

(***************************************************************************)
(* The specification.                                                      *)
(***************************************************************************)
Destructor ==
    \/ \E n \in IndexSizes : write_index(n)
    \/ close_stream
    \/ \E c \in 0..MaxLen : close_stream_fails(c)
    \/ destroy_unchanged
    \/ \E c \in 0..MaxLen : destroy_failed(c)
    \/ terminate_failed
    \/ \E n \in IndexSizes, c \in 0..MaxLen : terminate_writing(n, c)

Writer ==
    \/ \E r \in Realms, kid \in KeyIds, overwrite \in BOOLEAN :
         open_output_new(r, kid, overwrite)
    \/ \E r \in Realms, kid \in KeyIds :
         open_output_existing(r, kid) \/ open_output_error(r, kid)
    \/ \E k \in Keys, v \in Values, n \in DataSizes : insert(k, v, n)
    \/ \E n \in DataSizes, c \in 0..MaxLen : insert_fails(n, c)
    \/ \E c \in 0..MaxLen : overflow(c)
    \/ \E k \in Keys : lookup(k)
    \/ force
    \/ \E c \in 0..MaxLen : force_fails(c)
    \/ force_again
    \/ Destructor
    \/ \E c \in 0..MaxLen : crash(c)

Reader(x) ==
    \/ \E r \in Realms, kid \in KeyIds :
         open_input(x, r, kid) \/ open_input_error(x, r, kid)
    \/ open_input_index(x)
    \/ open_input_index_error(x)
    \/ \E k \in Keys :
         \/ read_entry(x, k)
         \/ read_entry_error(x, k)
         \/ read_entry_failed(x, k)
         \/ read_missing(x, k)
    \/ close_input(x)

Next == Writer \/ \E x \in Readers : Reader(x)

Spec == Init /\ [][Next]_vars

\* A handle is destroyed when its scope ends, and a destructor runs to its end.
FairSpec == Spec /\ WF_vars(Destructor)

(***************************************************************************)
(* Properties.                                                             *)
(***************************************************************************)
\* Every entry of ix is a data block of f that ends within the first n bytes and
\* holds the value m has for the key, and m has no other keys.
Describes(f, ix, m, n) ==
    \A k \in Keys :
        \/ ix[k] = 0 /\ m[k] = NoValue
        \/ /\ ix[k] \in DOMAIN f
           /\ f[ix[k]].type = "data"
           /\ f[ix[k]].val = m[k]
           /\ ix[k] + f[ix[k]].size <= n
           /\ m[k] # NoValue

\* Whenever opening succeeds, at any moment, during a session or after any crash
\* or write error, the index found is exactly what the last session that wrote an
\* index had inserted, and all its blocks are on the device.
OpenSound ==
    \A r \in Realms, kid \in KeyIds :
        open_outcome(r, kid) = "ok" => Describes(blocks, stored_index, committed, disk)

\* A session whose destructor wrote everything leaves a file that opens with the
\* same realm and key type.
Durable == published => open_outcome(header, keyid) = "ok"

\* The output handle reads back its own inserts, buffered ones included.
ReadYourWrites == wstate = "open" => Describes(blocks, index, session, len)

\* An input handle reads the contents published when it found the marker, while
\* it opens and ever after, whatever sessions append, as long as nobody truncates
\* the file.
ReaderSnapshot ==
    \A x \in Readers : ~reader[x].stale =>
        /\ reader[x].state = "opening" =>
             /\ read_index(reader[x].pos) = "ok"
             /\ Describes(blocks, blocks[reader[x].pos].map, reader[x].snap, disk)
        /\ reader[x].state = "open" =>
             Describes(blocks, reader[x].index, reader[x].snap, disk)

\* A lazy_value yields the value its key had when it was looked up, even if the
\* key is replaced before the read.
LazySnapshot == lazy.state = "read" => lazy.val = lazy.expect

\* doc/file.md: "must not write in any behavior other than appending to the end":
\* only opening to overwrite takes away or changes a block that is on the device.
AppendOnly ==
    [][\/ wstate = "closed" /\ wstate' = "open" /\ len' = HeaderSize
       \/ \A p \in DOMAIN blocks :
            Readable(p) => Readable(p)' /\ blocks'[p] = blocks[p]]_vars

\* A value in an open session is published by the session's end, unless the
\* session replaces it or ends in a failure.
Publication ==
    \A k \in Keys, v \in Values :
        wstate = "open" /\ session[k] = v ~>
            \/ wstate = "open" /\ session[k] # v
            \/ published /\ wstate = "closed" /\ committed[k] = v
            \/ wstate = "failed"
            \/ result \in {"crash", "terminate", "lost"}

\* A file has one key type: all its markers carry the same key id, whatever
\* programs with other key types tried to open it for output.
OneKeyType ==
    \A p, q \in DOMAIN blocks :
        IsA("marker", p) /\ IsA("marker", q) => blocks[p].keyid = blocks[q].keyid

(***************************************************************************)
(* The file implements IndexedStore: what opening it shows changes in one   *)
(* step from one session's map to the next one's.                           *)
(***************************************************************************)
opens == \E r \in Realms, kid \in KeyIds : open_outcome(r, kid) = "ok"

visible ==
    IF opens THEN [k \in Keys |-> IF stored_index[k] = 0 THEN NoValue
                                  ELSE delayed_read(stored_index[k], disk)]
    ELSE Broken

draft ==
    IF wstate = "closed" THEN NoSession
    ELSE IF wstate = "closing" THEN committed ELSE session

Store == INSTANCE IndexedStore WITH store <- visible, draft <- draft

\* Whatever is lost or torn on the way, the file behaves as a map that sessions
\* replace as a whole.
ImplementsStore == Store!Spec

\* doc/pbsf.md: an indexed file "can be used as sequential file with the same
\* contents": every data block a sequential reader meets is an entry of the index.
SequentialSameContents ==
    published => \A p \in DOMAIN blocks :
        blocks[p].type = "data" => \E k \in Keys : stored_index[k] = p
==============================================================================
