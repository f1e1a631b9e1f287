------------------------------ MODULE BlockFile ------------------------------
(***************************************************************************)
(* A pbsf file: a header followed by data blocks laid end to end, written   *)
(* through one std::fstream.  Positions are byte offsets.                   *)
(*                                                                         *)
(* The bytes of a block are abstracted to the record the block decodes to   *)
(* and its size; a block is only ever read through the offset it starts at. *)
(* The bytes between two block starts (the inside of a block, or what a     *)
(* torn write left) are taken never to parse as a marker or an index with a *)
(* matching checksum.                                                       *)
(*                                                                         *)
(* The stream keeps bytes in its buffer: `len' is the end of the file as    *)
(* the writing stream sees it, `disk' how much of it the operating system   *)
(* has.  Bytes leave the buffer in order, so what a crash or a failed write *)
(* leaves is a prefix, cut at any byte between `disk' and `len'.            *)
(***************************************************************************)
EXTENDS Integers

CONSTANTS Keys,        \* the keys of the index
          Values,      \* the values a data block can hold
          NoValue,     \* the value of a key that is not there
          Realms,      \* the realm identifiers programs use
          KeyIds,      \* the type ids of the key types programs use
          HeaderSize,  \* bytes of the file header (8 in the code)
          MarkerSize,  \* marker_full_size (19 in the code)
          DataSizes,   \* the possible sizes of a block of the application
          IndexSizes,  \* the possible sizes of a block holding an index
          MaxLen       \* the bytes that fit on the device

ASSUME SizeAssumption ==
    /\ HeaderSize \in Nat \ {0}
    /\ MarkerSize \in Nat \ {0}
    /\ DataSizes \subseteq Nat \ {0}
    /\ IndexSizes \subseteq Nat \ {0}
    /\ MaxLen \in Nat

ASSUME ValueAssumption == NoValue \notin Values

VARIABLES blocks,  \* start offset -> block, for the blocks that are complete
          header,  \* the realm in the header
          len,     \* the end of the file, buffered bytes included
          disk     \* the bytes that have left the buffer

file == <<blocks, header, len, disk>>

(***************************************************************************)
(* Blocks.  An index maps a key to the offset of its block; offset 0 is the *)
(* header, and stands for "not in the map".                                 *)
(***************************************************************************)
blocks_index == [Keys -> Nat]

EmptyIndex == [k \in Keys |-> 0]

EncodedBlock == [type  : {"data", "index", "marker"},
                 val   : Values \cup {NoValue},
                 map   : blocks_index,
                 pos   : Nat,
                 keyid : KeyIds \cup {0},
                 size  : Nat \ {0}]

DataBlock(v, n) ==
    [type |-> "data", val |-> v, map |-> EmptyIndex, pos |-> 0, keyid |-> 0, size |-> n]

IndexBlock(m, n) ==
    [type |-> "index", val |-> NoValue, map |-> m, pos |-> 0, keyid |-> 0, size |-> n]

\* A marker that counts back from itself, the way its own offset is given to seekg.
relative_marker(p, kid) ==
    [type |-> "marker", val |-> NoValue, map |-> EmptyIndex, pos |-> p - MarkerSize,
     keyid |-> kid, size |-> MarkerSize]

index_position_marker(p, kid) ==
    [type |-> "marker", val |-> NoValue, map |-> EmptyIndex, pos |-> p, keyid |-> kid,
     size |-> MarkerSize]

IsA(t, p) == p \in DOMAIN blocks /\ blocks[p].type = t

EndOf(p) == p + blocks[p].size

\* What another stream, or a later one, can read at offset p.
Readable(p) == p \in DOMAIN blocks /\ EndOf(p) <= disk

(***************************************************************************)
(* Writing.                                                                *)
(***************************************************************************)
NoBlocks == [p \in {} |-> DataBlock(NoValue, 1)]

WithBlock(f, p, b) == [q \in DOMAIN f \cup {p} |-> IF q = p THEN b ELSE f[q]]

\* The blocks of f that end within the first c bytes.
Prefix(f, c) == [p \in {q \in DOMAIN f : q + f[q].size <= c} |-> f[p]]

\* The file as it stays when only its first c bytes reach the device.
CutAt(c) ==
    /\ blocks' = Prefix(blocks, c)
    /\ len' = c
    /\ disk' = c
    /\ UNCHANGED header

\* Opening with ios_base::trunc, or creating the file, then write_header: the
\* header waits in the buffer.
write_header(r) ==
    /\ blocks' = NoBlocks
    /\ header' = r
    /\ len' = HeaderSize
    /\ disk' = 0

\* remembered_append, had it not sought the end: the block goes where an earlier
\* read left the position, here the first block.
append_in_place(b) ==
    /\ blocks' = WithBlock(blocks, HeaderSize, b)
    /\ len' = len + b.size
    /\ disk' = len
    /\ UNCHANGED header

\* remembered_append(s, r, v): seekp(0, end) empties the buffer, tellp is the
\* position to remember, and the block goes to the buffer.
remembered_append(b) ==
    /\ blocks' = WithBlock(blocks, len, b)
    /\ len' = len + b.size
    /\ disk' = len
    /\ UNCHANGED header

\* The buffer overflows, or is flushed by a seek: some more bytes reach the device.
FlushTo(c) ==
    /\ disk' = c
    /\ UNCHANGED <<blocks, header, len>>

FileTypeOK ==
    /\ DOMAIN blocks \subseteq Nat
    /\ \A p \in DOMAIN blocks : blocks[p] \in EncodedBlock
    /\ header \in Realms
    /\ len \in Nat
    /\ disk \in 0..len

\* No block starts inside the header, and none reaches past the end.
Layout == \A p \in DOMAIN blocks : HeaderSize <= p /\ EndOf(p) <= len
==============================================================================
