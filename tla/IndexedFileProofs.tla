-------------------------- MODULE IndexedFileProofs --------------------------
(***************************************************************************)
(* Proofs about IndexedFile, for every set of keys, values, realms, key     *)
(* types and readers, every block size and every device size.               *)
(***************************************************************************)
EXTENDS IndexedFile, TLAPS

(***************************************************************************)
(* The inductive invariant.                                                *)
(***************************************************************************)
\* Marker m points at a complete index before it, whose entries are complete
\* blocks before the index, and together they give the map M.
MarkerSound(f, m, M) ==
    /\ f[m].pos \in DOMAIN f
    /\ f[f[m].pos].type = "index"
    /\ f[m].pos + f[f[m].pos].size <= m
    /\ Describes(f, f[f[m].pos].map, M, f[m].pos)

\* Any marker at which the file could end, now or after a cut, publishes exactly
\* the committed map.  (OpenSound speaks only of the marker at `disk'.)
CutSound ==
    \A m \in DOMAIN blocks :
        blocks[m].type = "marker" /\ EndOf(m) >= disk => MarkerSound(blocks, m, committed)

\* A session that has something to write no longer ends with a marker, so the
\* destructor's new marker is the only one a cut can expose.
TailChanged ==
    wstate = "open" /\ need_write_index =>
        \A m \in DOMAIN blocks : blocks[m].type = "marker" => EndOf(m) # len

MarkerSizes == \A m \in DOMAIN blocks : blocks[m].type = "marker" => blocks[m].size = MarkerSize

\* Nothing is buffered when no stream can write.
NothingBuffered == wstate \in {"closed", "failed"} => disk = len

HeaderWritten == wstate = "open" => HeaderSize <= len

FileInv == Layout /\ MarkerSizes /\ NothingBuffered /\ HeaderWritten

SessionInv == CutSound /\ TailChanged /\ ReadYourWrites

\* A delayed read will find the block it was created for.
LazyInv ==
    /\ wstate \in {"closed", "closing"} => lazy.state = "none"
    /\ wstate = "open" /\ lazy.state = "delayed" =>
         /\ lazy.pos \in DOMAIN blocks
         /\ blocks[lazy.pos].type = "data"
         /\ blocks[lazy.pos].val = lazy.expect
    /\ LazySnapshot

MarkerAt(p) == p \in DOMAIN blocks /\ blocks[p].type = "marker" /\ blocks[p].keyid = keyid

PublishedInv ==
    /\ published => disk = len /\ MarkerAt(len - MarkerSize)
    /\ wstate = "closing" => MarkerAt(len - MarkerSize)

KeyInv ==
    /\ OneKeyType
    /\ wstate = "open" => \A m \in DOMAIN blocks : blocks[m].type = "marker" => blocks[m].keyid = keyid

IInv == TypeOK /\ FileInv /\ SessionInv /\ LazyInv /\ ReaderSnapshot /\ PublishedInv /\ KeyInv

(***************************************************************************)
(* The steps, sorted by what they do to the file and the output handle.     *)
(***************************************************************************)
\* A step that changes neither the file nor the session.
Quiet == UNCHANGED <<file, wstate, keyid, index, need_write_index, history>>

\* A reader's step leaves the lazy_value alone too.
LEMMA ReaderQuiet ==
    ASSUME NEW x \in Readers, Reader(x)
    PROVE  Quiet /\ UNCHANGED lazy
BY DEF Reader, Quiet, open_input, open_input_error, open_input_index,
       open_input_index_error, read_entry, read_entry_error, read_entry_failed,
       read_missing, close_input, file, handle, history

LEMMA StutterQuiet == UNCHANGED vars => Quiet /\ UNCHANGED <<lazy, reader>>
BY DEF vars, Quiet, file, handle, history

\* The blocks that end within c bytes are kept, the others are not there.
LEMMA PrefixFacts ==
    ASSUME NEW f, NEW c
    PROVE  /\ DOMAIN Prefix(f, c) \subseteq DOMAIN f
           /\ \A p \in DOMAIN Prefix(f, c) : Prefix(f, c)[p] = f[p] /\ p + f[p].size <= c
           /\ \A p \in DOMAIN f : p + f[p].size <= c => p \in DOMAIN Prefix(f, c)
BY DEF Prefix

LEMMA NoBlocksFacts == DOMAIN NoBlocks = {}
BY DEF NoBlocks

\* The three kinds of block are blocks.
LEMMA BlockTypes ==
    /\ EmptyIndex \in blocks_index
    /\ \A v \in Values, n \in Nat \ {0} : DataBlock(v, n) \in EncodedBlock
    /\ \A m \in blocks_index, n \in Nat \ {0} : IndexBlock(m, n) \in EncodedBlock
    /\ \A p \in Nat, kid \in KeyIds : index_position_marker(p, kid) \in EncodedBlock
BY SizeAssumption DEF EmptyIndex, blocks_index, EncodedBlock, DataBlock, IndexBlock,
                      index_position_marker

(***************************************************************************)
(* Type correctness.                                                       *)
(***************************************************************************)
\* The handle's part of TypeOK.
HandleTypeOK ==
    /\ wstate \in {"closed", "open", "failed", "closing"}
    /\ keyid \in KeyIds
    /\ index \in blocks_index
    /\ need_write_index \in BOOLEAN
    /\ session \in ValueMap
    /\ committed \in ValueMap
    /\ published \in BOOLEAN

LazyType == [state : {"none", "delayed", "read"}, pos : Nat,
             val : Values \cup {NoValue}, expect : Values \cup {NoValue}]

ReaderType == [state : {"closed", "opening", "open", "failed"}, pos : Nat,
               index : blocks_index, snap : ValueMap, stale : BOOLEAN]

LEMMA TypeParts ==
    TypeOK <=> /\ FileTypeOK /\ HandleTypeOK /\ lazy \in LazyType
               /\ reader \in [Readers -> ReaderType] /\ result \in Outcomes
BY DEF TypeOK, HandleTypeOK, LazyType, ReaderType

LEMMA EmptyTypes == EmptyMap \in ValueMap /\ NoLazy \in LazyType /\ NoReader \in ReaderType
BY BlockTypes DEF EmptyMap, ValueMap, NoLazy, LazyType, NoReader, ReaderType

LEMMA CutType ==
    ASSUME FileTypeOK, NEW c \in Nat, CutAt(c)
    PROVE  FileTypeOK'
BY PrefixFacts DEF FileTypeOK, CutAt

LEMMA AppendType ==
    ASSUME FileTypeOK, NEW b \in EncodedBlock, remembered_append(b)
    PROVE  FileTypeOK'
<1>1. b.size \in Nat
  BY DEF EncodedBlock
<1>2. /\ DOMAIN blocks' = DOMAIN blocks \cup {len}
      /\ blocks'[len] = b
      /\ \A q \in DOMAIN blocks : q # len => blocks'[q] = blocks[q]
  BY DEF remembered_append, WithBlock
<1> QED
  BY <1>1, <1>2 DEF FileTypeOK, remembered_append

LEMMA FlushType ==
    ASSUME FileTypeOK, NEW c \in 0..len, FlushTo(c)
    PROVE  FileTypeOK'
BY DEF FileTypeOK, FlushTo

LEMMA QuietType == Quiet /\ FileTypeOK /\ HandleTypeOK => FileTypeOK' /\ HandleTypeOK'
BY DEF Quiet, file, history, FileTypeOK, HandleTypeOK

LEMMA GoneType ==
    ASSUME HandleTypeOK, lazy \in LazyType, reader \in [Readers -> ReaderType],
           gone, published' \in BOOLEAN
    PROVE  HandleTypeOK' /\ lazy' \in LazyType /\ reader' \in [Readers -> ReaderType]
BY EmptyTypes, BlockTypes DEF gone, members_gone, HandleTypeOK

\* What the destructor adds: the index at `len', then the marker.
LEMMA WriteIndexBlocks ==
    ASSUME FileTypeOK, HandleTypeOK, NEW n \in IndexSizes, write_index(n)
    PROVE  /\ DOMAIN blocks' = DOMAIN blocks \cup {len, len + n}
           /\ blocks'[len] = IndexBlock(index, n)
           /\ blocks'[len + n] = index_position_marker(len, keyid)
           /\ \A p \in DOMAIN blocks : p < len => blocks'[p] = blocks[p]
<1> DEFINE f == WithBlock(blocks, len, IndexBlock(index, n))
<1>1. n \in Nat \ {0} /\ len \in Nat /\ DOMAIN blocks \subseteq Nat
  BY SizeAssumption DEF FileTypeOK
<1>2. blocks' = WithBlock(f, len + n, index_position_marker(len, keyid))
  BY DEF write_index
<1>3. /\ DOMAIN f = DOMAIN blocks \cup {len}
      /\ f[len] = IndexBlock(index, n)
      /\ \A p \in DOMAIN blocks : p # len => f[p] = blocks[p]
  BY DEF WithBlock
<1>4. /\ DOMAIN blocks' = DOMAIN f \cup {len + n}
      /\ blocks'[len + n] = index_position_marker(len, keyid)
      /\ \A p \in DOMAIN f : p # len + n => blocks'[p] = f[p]
  <2> HIDE DEF f
  <2> QED BY <1>2 DEF WithBlock
<1> QED
  <2> HIDE DEF f
  <2> QED BY <1>1, <1>3, <1>4

\* Every offset the code seeks to in order to write is a byte count.
LEMMA Positions ==
    FileTypeOK => len \in Nat /\ disk \in Nat /\ disk <= len /\ marker_pos \in Int
BY SizeAssumption DEF FileTypeOK, marker_pos

LEMMA OutcomeType ==
    ASSUME NEW r, NEW kid
    PROVE  open_outcome(r, kid) \in Outcomes /\ locate_index(r, kid) \in Outcomes
BY DEF open_outcome, locate_index, read_marker, read_index, Outcomes, OpenErrors

\* One action at a time: the steps of the output handle keep the types.
LEMMA WriterType ==
    ASSUME TypeOK, Writer
    PROVE  TypeOK'
<1> USE TypeParts
<1>0. /\ FileTypeOK /\ HandleTypeOK /\ lazy \in LazyType
      /\ reader \in [Readers -> ReaderType] /\ result \in Outcomes
  OBVIOUS
<1> SUFFICES /\ FileTypeOK' /\ HandleTypeOK' /\ lazy' \in LazyType
             /\ reader' \in [Readers -> ReaderType] /\ result' \in Outcomes
  BY DEF TypeOK, FileTypeOK, HandleTypeOK, LazyType, ReaderType
<1>p. len \in Nat /\ disk \in Nat /\ disk <= len
  BY <1>0, Positions
<1>1. ASSUME NEW r \in Realms, NEW kid \in KeyIds, NEW o \in BOOLEAN,
             open_output_new(r, kid, o)
      PROVE  /\ FileTypeOK' /\ HandleTypeOK' /\ lazy' \in LazyType
             /\ reader' \in [Readers -> ReaderType] /\ result' \in Outcomes
  <2>1. FileTypeOK'
    BY <1>1, NoBlocksFacts, SizeAssumption DEF open_output_new, write_header, FileTypeOK
  <2>2. reader' \in [Readers -> ReaderType]
    BY <1>0, <1>1, EmptyTypes DEF open_output_new, ReaderType
  <2> QED
    BY <1>0, <1>1, <2>1, <2>2, BlockTypes, EmptyTypes DEF open_output_new, HandleTypeOK, Outcomes
<1>2. ASSUME NEW r \in Realms, NEW kid \in KeyIds, open_output_existing(r, kid)
      PROVE  /\ FileTypeOK' /\ HandleTypeOK' /\ lazy' \in LazyType
             /\ reader' \in [Readers -> ReaderType] /\ result' \in Outcomes
  <2>1. stored_index \in blocks_index
    BY <1>0, <1>2 DEF open_output_existing, open_outcome, read_index, IsA, stored_index,
                      FileTypeOK, EncodedBlock
  <2> QED
    BY <1>0, <1>2, <2>1 DEF open_output_existing, HandleTypeOK, FileTypeOK, file, Outcomes
<1>3. ASSUME NEW r \in Realms, NEW kid \in KeyIds, open_output_error(r, kid)
      PROVE  /\ FileTypeOK' /\ HandleTypeOK' /\ lazy' \in LazyType
             /\ reader' \in [Readers -> ReaderType] /\ result' \in Outcomes
  <2>1. Quiet /\ UNCHANGED <<lazy, reader>> /\ result' = open_outcome(r, kid)
    BY <1>3 DEF open_output_error, Quiet, handle, history, file
  <2> QED
    BY <1>0, <2>1, QuietType, OutcomeType
<1>4. ASSUME NEW k \in Keys, NEW v \in Values, NEW n \in DataSizes, insert(k, v, n)
      PROVE  /\ FileTypeOK' /\ HandleTypeOK' /\ lazy' \in LazyType
             /\ reader' \in [Readers -> ReaderType] /\ result' \in Outcomes
  <2>1. DataBlock(v, n) \in EncodedBlock
    BY BlockTypes, SizeAssumption
  <2>2. FileTypeOK'
    BY <1>0, <1>4, <2>1, AppendType DEF insert
  <2> QED
    BY <1>0, <1>p, <1>4, <2>2 DEF insert, HandleTypeOK, blocks_index, ValueMap, Outcomes
<1>5. ASSUME NEW n \in DataSizes, NEW c \in 0..MaxLen, insert_fails(n, c)
      PROVE  /\ FileTypeOK' /\ HandleTypeOK' /\ lazy' \in LazyType
             /\ reader' \in [Readers -> ReaderType] /\ result' \in Outcomes
  <2>1. FileTypeOK'
    BY <1>0, <1>5, CutType, SizeAssumption DEF insert_fails
  <2> QED
    BY <1>0, <1>5, <2>1 DEF insert_fails, HandleTypeOK, Outcomes, OpenErrors
<1>5a. ASSUME NEW c \in 0..MaxLen, force_fails(c)
      PROVE  /\ FileTypeOK' /\ HandleTypeOK' /\ lazy' \in LazyType
             /\ reader' \in [Readers -> ReaderType] /\ result' \in Outcomes
  <2>1. FileTypeOK'
    BY <1>0, <1>5a, CutType, SizeAssumption DEF force_fails
  <2> QED
    BY <1>0, <1>5a, <2>1 DEF force_fails, HandleTypeOK, Outcomes, OpenErrors
<1>6. ASSUME NEW c \in 0..MaxLen, overflow(c)
      PROVE  /\ FileTypeOK' /\ HandleTypeOK' /\ lazy' \in LazyType
             /\ reader' \in [Readers -> ReaderType] /\ result' \in Outcomes
  <2>1. FileTypeOK'
    BY <1>0, <1>p, <1>6, FlushType DEF overflow
  <2> QED
    BY <1>0, <1>6, <2>1 DEF overflow, HandleTypeOK, handle, history
<1>7. ASSUME NEW k \in Keys, lookup(k)
      PROVE  /\ FileTypeOK' /\ HandleTypeOK' /\ lazy' \in LazyType
             /\ reader' \in [Readers -> ReaderType] /\ result' \in Outcomes
  <2>1. Quiet /\ UNCHANGED reader /\ result' \in Outcomes
    BY <1>7 DEF lookup, Quiet, history, file, Outcomes
  <2>2. index[k] \in Nat /\ session[k] \in Values \cup {NoValue}
    BY <1>0 DEF HandleTypeOK, blocks_index, ValueMap
  <2>3. lazy' \in LazyType
    BY <1>0, <1>7, <2>2 DEF lookup, LazyType
  <2> QED
    BY <1>0, <2>1, <2>3, QuietType
<1>8. CASE force
  <2>1. delayed_read(lazy.pos, len) \in Values \cup {NoValue}
    BY <1>0 DEF delayed_read, IsA, FileTypeOK, EncodedBlock
  <2>2. FileTypeOK'
    BY <1>0, <1>p, <1>8, FlushType DEF force
  <2>3. lazy' \in LazyType
    BY <1>0, <1>8, <2>1 DEF force, LazyType
  <2> QED
    BY <1>0, <1>8, <2>2, <2>3 DEF force, HandleTypeOK, history, Outcomes, OpenErrors
<1>9. CASE force_again
  <2>1. Quiet /\ UNCHANGED <<lazy, reader>> /\ result' \in Outcomes
    BY <1>9 DEF force_again, Quiet, handle, history, file, Outcomes, OpenErrors
  <2> QED
    BY <1>0, <2>1, QuietType
<1>10. ASSUME NEW n \in IndexSizes, write_index(n)
       PROVE  /\ FileTypeOK' /\ HandleTypeOK' /\ lazy' \in LazyType
              /\ reader' \in [Readers -> ReaderType] /\ result' \in Outcomes
  <2>1. n \in Nat \ {0} /\ MarkerSize \in Nat
    BY SizeAssumption
  <2>2. IndexBlock(index, n) \in EncodedBlock /\ index_position_marker(len, keyid) \in EncodedBlock
    BY <1>0, <1>p, <2>1, BlockTypes DEF HandleTypeOK
  <2>3. \A p \in DOMAIN blocks' : p \in Nat /\ blocks'[p] \in EncodedBlock
    <3>1. /\ DOMAIN blocks' = DOMAIN blocks \cup {len, len + n}
          /\ blocks'[len] = IndexBlock(index, n)
          /\ blocks'[len + n] = index_position_marker(len, keyid)
      BY <1>0, <1>10, WriteIndexBlocks
    <3>2. \A p \in DOMAIN blocks : p # len /\ p # len + n => blocks'[p] = blocks[p]
      BY <1>10 DEF write_index, WithBlock
    <3> QED
      BY <1>0, <1>p, <2>1, <2>2, <3>1, <3>2 DEF FileTypeOK
  <2>4. FileTypeOK'
    BY <1>0, <1>p, <1>10, <2>1, <2>3 DEF write_index, FileTypeOK
  <2> QED
    BY <1>0, <1>10, <2>4, BlockTypes, EmptyTypes DEF write_index, members_gone, HandleTypeOK, Outcomes
<1>11. CASE close_stream
  <2>1. FileTypeOK'
    BY <1>0, <1>p, <1>11, FlushType DEF close_stream
  <2> QED
    BY <1>0, <1>11, <2>1, GoneType DEF close_stream, Outcomes
<1>12. ASSUME NEW c \in 0..MaxLen, close_stream_fails(c)
       PROVE  /\ FileTypeOK' /\ HandleTypeOK' /\ lazy' \in LazyType
              /\ reader' \in [Readers -> ReaderType] /\ result' \in Outcomes
  <2>1. FileTypeOK'
    BY <1>0, <1>12, CutType, SizeAssumption DEF close_stream_fails
  <2> QED
    BY <1>0, <1>12, <2>1, GoneType DEF close_stream_fails, Outcomes
<1>13. CASE destroy_unchanged
  <2>1. FileTypeOK'
    BY <1>0, <1>p, <1>13, FlushType DEF destroy_unchanged
  <2>2. published' \in BOOLEAN
    BY <1>0, <1>13 DEF destroy_unchanged, HandleTypeOK
  <2> QED
    BY <1>0, <1>13, <2>1, <2>2, GoneType DEF destroy_unchanged, Outcomes
<1>14. ASSUME NEW c \in 0..MaxLen, destroy_failed(c)
       PROVE  /\ FileTypeOK' /\ HandleTypeOK' /\ lazy' \in LazyType
              /\ reader' \in [Readers -> ReaderType] /\ result' \in Outcomes
  <2>1. FileTypeOK'
    BY <1>0, <1>p, <1>14, SizeAssumption DEF destroy_failed, FileTypeOK
  <2> QED
    BY <1>0, <1>14, <2>1, GoneType DEF destroy_failed, Outcomes
<1>15. CASE terminate_failed
  <2>1. FileTypeOK'
    BY <1>0, <1>15 DEF terminate_failed, file, FileTypeOK
  <2> QED
    BY <1>0, <1>15, <2>1, GoneType DEF terminate_failed, Outcomes
<1>16. ASSUME NEW n \in IndexSizes, NEW c \in 0..MaxLen, terminate_writing(n, c)
       PROVE  /\ FileTypeOK' /\ HandleTypeOK' /\ lazy' \in LazyType
              /\ reader' \in [Readers -> ReaderType] /\ result' \in Outcomes
  <2> DEFINE f == WithBlock(blocks, len, IndexBlock(index, n))
  <2>1. IndexBlock(index, n) \in EncodedBlock
    BY <1>0, BlockTypes, SizeAssumption DEF HandleTypeOK
  <2>2. \A p \in DOMAIN f : p \in Nat /\ f[p] \in EncodedBlock
    BY <1>0, <1>p, <2>1 DEF FileTypeOK, WithBlock
  <2>3. \A p \in DOMAIN blocks' : p \in Nat /\ blocks'[p] \in EncodedBlock
    <3>1. blocks' = Prefix(f, c)
      BY <1>16 DEF terminate_writing
    <3> HIDE DEF f
    <3> QED BY <3>1, <2>2, PrefixFacts
  <2>4. FileTypeOK'
    BY <1>0, <1>16, <2>3, SizeAssumption DEF terminate_writing, FileTypeOK
  <2> QED
    BY <1>0, <1>16, <2>4, GoneType DEF terminate_writing, Outcomes
<1>17. ASSUME NEW c \in 0..MaxLen, crash(c)
       PROVE  /\ FileTypeOK' /\ HandleTypeOK' /\ lazy' \in LazyType
              /\ reader' \in [Readers -> ReaderType] /\ result' \in Outcomes
  <2>1. FileTypeOK'
    BY <1>0, <1>17, CutType, SizeAssumption DEF crash
  <2>2. published' \in BOOLEAN
    BY <1>17 DEF crash
  <2> QED
    BY <1>0, <1>17, <2>1, <2>2, GoneType DEF crash, Outcomes
<1> QED
  BY <1>1, <1>2, <1>3, <1>4, <1>5, <1>5a, <1>6, <1>7, <1>8, <1>9, <1>10, <1>11, <1>12, <1>13,
     <1>14, <1>15, <1>16, <1>17 DEF Writer, Destructor

\* The steps of an input handle keep the types.
LEMMA ReaderTypes ==
    ASSUME TypeOK, NEW x \in Readers, Reader(x)
    PROVE  TypeOK'
<1>0. /\ FileTypeOK /\ HandleTypeOK /\ lazy \in LazyType
      /\ reader \in [Readers -> ReaderType] /\ result \in Outcomes
  BY TypeParts
<1>1. FileTypeOK' /\ HandleTypeOK' /\ lazy' \in LazyType
  BY <1>0, ReaderQuiet, QuietType
<1>2. result' \in Outcomes
  BY OutcomeType DEF Reader, open_input, open_input_error, open_input_index,
     open_input_index_error, read_entry, read_entry_error, read_entry_failed, read_missing,
     close_input, Outcomes, OpenErrors
<1>3. reader' \in [Readers -> ReaderType]
  <2>1. CASE UNCHANGED reader
    BY <1>0, <2>1
  <2>2. CASE reader' = [reader EXCEPT ![x] = NoReader]
    BY <1>0, <2>2, EmptyTypes
  <2>3. ASSUME NEW r \in Realms, NEW kid \in KeyIds, open_input(x, r, kid)
        PROVE  reader' \in [Readers -> ReaderType]
    <3>1. blocks[marker_pos].pos \in Nat
      BY <1>0, <2>3 DEF open_input, locate_index, read_marker, IsA, FileTypeOK, EncodedBlock
    <3> QED
      BY <1>0, <2>3, <3>1, BlockTypes DEF open_input, ReaderType, HandleTypeOK
  <2>4. CASE open_input_index(x)
    <3>1. blocks[reader[x].pos].map \in blocks_index
      BY <1>0, <2>4 DEF open_input_index, read_index, IsA, FileTypeOK, EncodedBlock
    <3> QED
      BY <1>0, <2>4, <3>1 DEF open_input_index, ReaderType
  <2>5. ASSUME NEW k \in Keys, read_entry_error(x, k)
        PROVE  reader' \in [Readers -> ReaderType]
    <3>1. reader[x] \in ReaderType
      BY <1>0
    <3>2. PICK s \in {"open", "failed"} : reader' = [reader EXCEPT ![x] =
             [state |-> s, pos |-> 0, index |-> reader[x].index,
              snap |-> reader[x].snap, stale |-> reader[x].stale]]
      BY <2>5 DEF read_entry_error
    <3> QED
      BY <1>0, <3>1, <3>2 DEF ReaderType
  <2> QED
    BY <2>1, <2>2, <2>3, <2>4, <2>5 DEF Reader, open_input_error, open_input_index_error,
       read_entry, read_entry_failed, read_missing, close_input
<1> QED
  BY <1>1, <1>2, <1>3 DEF TypeOK, FileTypeOK, HandleTypeOK, LazyType, ReaderType

LEMMA TypeCorrectInit == Init => TypeOK
<1>1. Init => FileTypeOK
  <2>1. blocks = NoBlocks => DOMAIN blocks = {}
    BY NoBlocksFacts
  <2> QED
    BY <2>1 DEF Init, FileTypeOK
<1>2. Init => HandleTypeOK
  BY BlockTypes, EmptyTypes DEF Init, HandleTypeOK
<1> QED
  BY <1>1, <1>2, TypeParts, EmptyTypes DEF Init, Outcomes

\* Type correctness of the whole specification: every offset the code stores is
\* a byte count, every block is well formed, the device never has more than the
\* stream wrote.
THEOREM TypeCorrect == Spec => []TypeOK
<1>1. Init => TypeOK
  BY TypeCorrectInit
<1>2. TypeOK /\ [Next]_vars => TypeOK'
  <2>1. TypeOK /\ UNCHANGED vars => TypeOK'
    BY DEF TypeOK, FileTypeOK, vars, file, handle, history
  <2> QED
    BY <2>1, WriterType, ReaderTypes DEF Next
<1> QED
  BY <1>1, <1>2, PTL DEF Spec

(***************************************************************************)
(* Maps and markers survive every change that keeps the blocks before them. *)
(***************************************************************************)
WellFormed(f) == DOMAIN f \subseteq Nat /\ \A p \in DOMAIN f : f[p] \in EncodedBlock

\* g has every block of f that ends within the first n bytes.
Keeps(f, g, n) ==
    \A p \in DOMAIN f : p + f[p].size <= n => p \in DOMAIN g /\ g[p] = f[p]

LEMMA BlockSize ==
    ASSUME NEW f, WellFormed(f), NEW p \in DOMAIN f
    PROVE  p \in Nat /\ f[p].size \in Nat \ {0} /\ f[p].pos \in Nat /\ p < p + f[p].size
BY DEF WellFormed, EncodedBlock

LEMMA DescribesKept ==
    ASSUME NEW f, NEW g, NEW ix, NEW m, NEW n \in Int, NEW e \in Int,
           WellFormed(f), Keeps(f, g, n), n <= e, Describes(f, ix, m, n)
    PROVE  Describes(g, ix, m, e)
<1> SUFFICES ASSUME NEW k \in Keys, ~(ix[k] = 0 /\ m[k] = NoValue)
             PROVE  /\ ix[k] \in DOMAIN g
                    /\ g[ix[k]].type = "data"
                    /\ g[ix[k]].val = m[k]
                    /\ ix[k] + g[ix[k]].size <= e
                    /\ m[k] # NoValue
  BY DEF Describes
<1>1. /\ ix[k] \in DOMAIN f
      /\ f[ix[k]].type = "data"
      /\ f[ix[k]].val = m[k]
      /\ ix[k] + f[ix[k]].size <= n
      /\ m[k] # NoValue
  BY DEF Describes
<1>2. ix[k] \in Nat /\ f[ix[k]].size \in Nat
  BY <1>1, BlockSize
<1>3. ix[k] \in DOMAIN g /\ g[ix[k]] = f[ix[k]]
  BY <1>1 DEF Keeps
<1> QED
  BY <1>1, <1>2, <1>3

LEMMA MarkerKept ==
    ASSUME NEW f, NEW g, NEW m \in DOMAIN f, NEW M, NEW e \in Int,
           WellFormed(f), Keeps(f, g, e), m + f[m].size <= e, MarkerSound(f, m, M)
    PROVE  MarkerSound(g, m, M)
<1> DEFINE i == f[m].pos
<1>1. /\ i \in DOMAIN f
      /\ f[i].type = "index"
      /\ i + f[i].size <= m
      /\ Describes(f, f[i].map, M, i)
  BY DEF MarkerSound
<1>2. /\ m \in Nat /\ f[m].size \in Nat /\ m < m + f[m].size
      /\ i \in Nat /\ f[i].size \in Nat /\ i < i + f[i].size
  BY <1>1, BlockSize
<1>3. g[m] = f[m] /\ i \in DOMAIN g /\ g[i] = f[i]
  BY <1>1, <1>2 DEF Keeps
<1>4. Keeps(f, g, i)
  <2> SUFFICES ASSUME NEW p \in DOMAIN f, p + f[p].size <= i
               PROVE  p \in DOMAIN g /\ g[p] = f[p]
    BY DEF Keeps
  <2>1. p \in Nat /\ f[p].size \in Nat
    BY BlockSize
  <2> HIDE DEF i
  <2> QED BY <1>1, <1>2, <2>1 DEF Keeps
<1>5. Describes(g, f[i].map, M, i)
  <2> HIDE DEF i
  <2> QED BY <1>1, <1>2, <1>4, DescribesKept
<1> QED
  BY <1>1, <1>3, <1>5 DEF MarkerSound

LEMMA FileWellFormed == FileTypeOK => WellFormed(blocks)
BY DEF FileTypeOK, WellFormed

(***************************************************************************)
(* Input handles: anything that only adds to what is on the device leaves   *)
(* their contents alone.                                                    *)
(***************************************************************************)
LEMMA ReadersKept ==
    ASSUME FileTypeOK, FileTypeOK', ReaderSnapshot, UNCHANGED reader,
           disk' >= disk, Keeps(blocks, blocks', disk)
    PROVE  ReaderSnapshot'
<1> SUFFICES ASSUME NEW x \in Readers, ~reader[x].stale
             PROVE  /\ reader[x].state = "opening" =>
                         /\ read_index(reader[x].pos)' = "ok"
                         /\ Describes(blocks', blocks'[reader[x].pos].map, reader[x].snap, disk')
                    /\ reader[x].state = "open" =>
                         Describes(blocks', reader[x].index, reader[x].snap, disk')
  BY DEF ReaderSnapshot
<1>0. WellFormed(blocks) /\ disk \in Int /\ disk' \in Int /\ disk <= disk'
  BY FileWellFormed, Positions DEF FileTypeOK
<1>1. CASE reader[x].state = "opening"
  <2>1. /\ reader[x].pos \in DOMAIN blocks
        /\ blocks[reader[x].pos].type = "index"
        /\ reader[x].pos + blocks[reader[x].pos].size <= disk
        /\ Describes(blocks, blocks[reader[x].pos].map, reader[x].snap, disk)
    BY <1>1 DEF ReaderSnapshot, read_index, IsA, EndOf
  <2>2. reader[x].pos \in DOMAIN blocks' /\ blocks'[reader[x].pos] = blocks[reader[x].pos]
    BY <2>1 DEF Keeps
  <2>3. reader[x].pos \in Nat /\ blocks[reader[x].pos].size \in Nat
    BY <1>0, <2>1, BlockSize
  <2>4. Describes(blocks', blocks[reader[x].pos].map, reader[x].snap, disk')
    BY <1>0, <2>1, DescribesKept
  <2> QED
    BY <1>0, <1>1, <2>1, <2>2, <2>3, <2>4 DEF read_index, IsA, EndOf
<1>2. CASE reader[x].state = "open"
  <2>1. Describes(blocks, reader[x].index, reader[x].snap, disk)
    BY <1>2 DEF ReaderSnapshot
  <2> QED
    BY <1>0, <1>2, <2>1, DescribesKept
<1> QED
  BY <1>1, <1>2

(***************************************************************************)
(* A stream that stops writing, for whatever reason, leaves a prefix of     *)
(* what it wrote; at most an index without a marker is new in it.           *)
(***************************************************************************)
Stops(c) ==
    /\ c >= disk
    /\ len' = c
    /\ disk' = c
    /\ \A p \in DOMAIN blocks' :
         /\ HeaderSize <= p
         /\ p + blocks'[p].size <= c
         /\ \/ p \in DOMAIN blocks /\ blocks'[p] = blocks[p]
            \/ blocks'[p].type = "index"
    /\ Keeps(blocks, blocks', c)
    /\ wstate' \in {"closed", "failed"}
    /\ UNCHANGED <<committed, keyid, reader>>

LEMMA StopsSound ==
    ASSUME IInv, TypeOK', NEW c \in Nat, Stops(c)
    PROVE  FileInv' /\ SessionInv' /\ ReaderSnapshot' /\ KeyInv'
<1>0. FileTypeOK /\ FileTypeOK' /\ WellFormed(blocks) /\ len \in Nat /\ disk \in Nat /\ disk <= len
  BY FileWellFormed, Positions DEF IInv, TypeOK
<1>1. FileInv'
  BY DEF IInv, FileInv, Layout, MarkerSizes, NothingBuffered, HeaderWritten, EndOf, Stops
<1>2. CutSound'
  <2> SUFFICES ASSUME NEW m \in DOMAIN blocks', blocks'[m].type = "marker",
                      m + blocks'[m].size >= disk'
               PROVE  MarkerSound(blocks', m, committed')
    BY DEF CutSound, EndOf
  <2>1. m \in DOMAIN blocks /\ blocks'[m] = blocks[m] /\ m + blocks[m].size <= c
    BY DEF Stops
  <2>2. m \in Nat /\ blocks[m].size \in Nat
    BY <1>0, <2>1, BlockSize
  <2>3. MarkerSound(blocks, m, committed)
    BY <1>0, <2>1, <2>2 DEF IInv, SessionInv, CutSound, EndOf, Stops
  <2>4. MarkerSound(blocks', m, committed)
    BY <1>0, <2>1, <2>3, MarkerKept DEF Stops
  <2> QED
    BY <2>4 DEF Stops
<1>3. TailChanged' /\ ReadYourWrites'
  BY DEF TailChanged, ReadYourWrites, Stops
<1>4. Keeps(blocks, blocks', disk)
  <2> SUFFICES ASSUME NEW p \in DOMAIN blocks, p + blocks[p].size <= disk
               PROVE  p \in DOMAIN blocks' /\ blocks'[p] = blocks[p]
    BY DEF Keeps
  <2>1. p \in Nat /\ blocks[p].size \in Nat
    BY <1>0, BlockSize
  <2> QED
    BY <1>0, <2>1 DEF Keeps, Stops
<1>5. ReaderSnapshot'
  BY <1>0, <1>4, ReadersKept DEF IInv, Stops
<1>6. KeyInv'
  BY DEF IInv, KeyInv, OneKeyType, IsA, Stops
<1> QED
  BY <1>1, <1>2, <1>3, <1>5, <1>6 DEF SessionInv

\* A cut at any byte the device may have reached is such a stop.
LEMMA CutStops ==
    ASSUME IInv, NEW c \in Nat, c >= disk, CutAt(c),
           wstate' \in {"closed", "failed"}, UNCHANGED <<committed, keyid, reader>>
    PROVE  Stops(c)
<1>1. \A p \in DOMAIN blocks : HeaderSize <= p
  BY DEF IInv, FileInv, Layout
<1>2. blocks' = Prefix(blocks, c) /\ len' = c /\ disk' = c
  BY DEF CutAt
<1>3. /\ \A p \in DOMAIN blocks' : /\ p \in DOMAIN blocks
                                   /\ blocks'[p] = blocks[p]
                                   /\ p + blocks'[p].size <= c
      /\ Keeps(blocks, blocks', c)
  BY <1>2 DEF Prefix, Keeps
<1> QED
  BY <1>1, <1>2, <1>3 DEF Stops

\* So is writing out the whole buffer.
LEMMA FlushStops ==
    ASSUME IInv, FlushTo(len), wstate' \in {"closed", "failed"},
           UNCHANGED <<committed, keyid, reader>>
    PROVE  len \in Nat /\ Stops(len)
<1>1. len \in Nat /\ disk \in Nat /\ disk <= len
  BY Positions DEF IInv, TypeOK
<1>2. \A p \in DOMAIN blocks : HeaderSize <= p /\ p + blocks[p].size <= len
  BY DEF IInv, FileInv, Layout, EndOf
<1> QED
  BY <1>1, <1>2 DEF FlushTo, Stops, Keeps

(***************************************************************************)
(* The lazy_value through steps that keep the blocks.                      *)
(***************************************************************************)
LEMMA LazyKept ==
    ASSUME IInv, UNCHANGED lazy,
           wstate' = "open" => /\ wstate = "open"
                               /\ Keeps(blocks, blocks', len),
           wstate' \in {"closed", "closing"} => wstate = wstate'
    PROVE  LazyInv'
<1>1. \A p \in DOMAIN blocks : p + blocks[p].size <= len
  BY DEF IInv, FileInv, Layout, EndOf
<1> QED
  BY <1>1 DEF IInv, LazyInv, LazySnapshot, Keeps

LEMMA LazyGone == lazy' = NoLazy => LazyInv'
BY DEF LazyInv, LazySnapshot, NoLazy

(***************************************************************************)
(* The steps that write.                                                   *)
(***************************************************************************)
\* What insert leaves: the old blocks and a new one at the old end.
LEMMA AppendKeeps ==
    ASSUME IInv, NEW b \in EncodedBlock, remembered_append(b)
    PROVE  /\ DOMAIN blocks' = DOMAIN blocks \cup {len}
           /\ blocks'[len] = b
           /\ \A p \in DOMAIN blocks : p < len /\ blocks'[p] = blocks[p]
           /\ len' = len + b.size /\ len < len' /\ disk' = len
<1>1. WellFormed(blocks) /\ len \in Nat /\ b.size \in Nat \ {0}
  BY FileWellFormed, Positions DEF IInv, TypeOK, EncodedBlock
<1>2. \A p \in DOMAIN blocks : p < len
  BY <1>1, BlockSize DEF IInv, FileInv, Layout, EndOf
<1> QED
  BY <1>1, <1>2 DEF remembered_append, WithBlock

LEMMA InsertInv ==
    ASSUME IInv, TypeOK', NEW k \in Keys, NEW v \in Values, NEW n \in DataSizes,
           insert(k, v, n)
    PROVE  IInv'
<1>0. /\ FileTypeOK /\ FileTypeOK' /\ WellFormed(blocks) /\ WellFormed(blocks')
      /\ len \in Nat /\ disk \in Nat /\ disk <= len /\ n \in Nat \ {0}
  BY FileWellFormed, Positions, SizeAssumption DEF IInv, TypeOK, FileTypeOK, WellFormed
<1>1. DataBlock(v, n) \in EncodedBlock
  BY BlockTypes, SizeAssumption
<1>2. DataBlock(v, n).size = n /\ DataBlock(v, n).type = "data" /\ DataBlock(v, n).val = v
  BY DEF DataBlock
<1>3. /\ DOMAIN blocks' = DOMAIN blocks \cup {len}
      /\ blocks'[len] = DataBlock(v, n)
      /\ \A p \in DOMAIN blocks : p < len /\ blocks'[p] = blocks[p]
      /\ len' = len + n /\ len < len' /\ disk' = len
  BY <1>1, <1>2, AppendKeeps DEF insert
<1>4. /\ wstate = "open" /\ wstate' = "open" /\ need_write_index' = TRUE /\ published' = FALSE
      /\ index' = [index EXCEPT ![k] = len] /\ session' = [session EXCEPT ![k] = v]
      /\ UNCHANGED <<keyid, lazy, reader, committed>>
  BY DEF insert
<1>5. \A e : Keeps(blocks, blocks', e)
  BY <1>3 DEF Keeps
<1>6. \A p \in DOMAIN blocks : HeaderSize <= p /\ p + blocks[p].size <= len
  BY DEF IInv, FileInv, Layout, EndOf
<1>7. FileInv'
  <2>1. Layout'
    BY <1>0, <1>2, <1>3, <1>4, <1>6, BlockSize, SizeAssumption
       DEF Layout, EndOf, IInv, FileInv, HeaderWritten
  <2>2. MarkerSizes'
    BY <1>2, <1>3 DEF MarkerSizes, IInv, FileInv
  <2> QED
    BY <1>0, <1>3, <1>4, <2>1, <2>2, SizeAssumption
       DEF FileInv, NothingBuffered, HeaderWritten, IInv
<1>8. CutSound'
  <2> SUFFICES ASSUME NEW m \in DOMAIN blocks', blocks'[m].type = "marker",
                      m + blocks'[m].size >= disk'
               PROVE  MarkerSound(blocks', m, committed')
    BY DEF CutSound, EndOf
  <2>1. m \in DOMAIN blocks /\ blocks'[m] = blocks[m]
    BY <1>2, <1>3
  <2>2. m \in Nat /\ blocks[m].size \in Nat
    BY <1>0, <2>1, BlockSize
  <2>3. MarkerSound(blocks, m, committed)
    BY <1>0, <1>3, <2>1, <2>2 DEF IInv, SessionInv, CutSound, EndOf
  <2> QED
    BY <1>0, <1>4, <1>5, <1>6, <2>1, <2>3, MarkerKept
<1>9. TailChanged'
  BY <1>0, <1>2, <1>3, <1>6, BlockSize DEF TailChanged, EndOf
<1>10. ReadYourWrites'
  <2>1. Describes(blocks, index, session, len)
    BY <1>4 DEF IInv, SessionInv, ReadYourWrites
  <2>2. Describes(blocks', index, session, len')
    BY <1>0, <1>3, <1>5, <2>1, DescribesKept
  <2>3. v # NoValue
    BY ValueAssumption
  <2>4. index \in [Keys -> Nat] /\ session \in [Keys -> Values \cup {NoValue}]
    BY DEF IInv, TypeOK, blocks_index, ValueMap
  <2>5. \A j \in Keys : \/ j = k /\ index'[j] = len /\ session'[j] = v
                        \/ index'[j] = index[j] /\ session'[j] = session[j]
    BY <1>4, <2>4
  <2>6. Describes(blocks', index', session', len')
    BY <1>0, <1>2, <1>3, <2>2, <2>3, <2>5 DEF Describes
  <2> QED
    BY <2>6 DEF ReadYourWrites
<1>11. LazyInv'
  BY <1>4, <1>5, LazyKept
<1>12. ReaderSnapshot'
  BY <1>0, <1>3, <1>4, <1>5, ReadersKept DEF IInv
<1>13. PublishedInv' /\ KeyInv'
  BY <1>2, <1>3, <1>4 DEF IInv, PublishedInv, KeyInv, OneKeyType, IsA
<1> QED
  BY <1>7, <1>8, <1>9, <1>10, <1>11, <1>12, <1>13 DEF IInv, SessionInv

LEMMA WriteIndexInv ==
    ASSUME IInv, TypeOK', NEW n \in IndexSizes, write_index(n)
    PROVE  IInv'
<1>0. /\ FileTypeOK /\ FileTypeOK' /\ HandleTypeOK /\ WellFormed(blocks) /\ WellFormed(blocks')
      /\ len \in Nat /\ disk \in Nat /\ disk <= len
      /\ n \in Nat \ {0} /\ MarkerSize \in Nat \ {0} /\ HeaderSize \in Nat
  BY FileWellFormed, Positions, SizeAssumption, TypeParts
     DEF IInv, TypeOK, FileTypeOK, WellFormed
<1> DEFINE M == index_position_marker(len, keyid)
           X == IndexBlock(index, n)
<1>1. /\ X.type = "index" /\ X.map = index /\ X.size = n
      /\ M.type = "marker" /\ M.pos = len /\ M.keyid = keyid /\ M.size = MarkerSize
  BY DEF IndexBlock, index_position_marker
<1>2. \A p \in DOMAIN blocks : p < len /\ HeaderSize <= p /\ p + blocks[p].size <= len
  BY <1>0, BlockSize DEF IInv, FileInv, Layout, EndOf
<1>3. /\ DOMAIN blocks' = DOMAIN blocks \cup {len, len + n}
      /\ blocks'[len] = X
      /\ blocks'[len + n] = M
      /\ \A p \in DOMAIN blocks : blocks'[p] = blocks[p]
  BY <1>0, <1>2, WriteIndexBlocks
<1> HIDE DEF M, X
<1>4. /\ wstate = "open" /\ need_write_index /\ wstate' = "closing"
      /\ len' = len + n + MarkerSize /\ disk' = len /\ committed' = session
      /\ lazy' = NoLazy
      /\ UNCHANGED <<keyid, reader, published>>
  BY DEF write_index, members_gone
<1>5. \A e : Keeps(blocks, blocks', e)
  BY <1>3 DEF Keeps
<1>6. FileInv'
  <2>1. Layout'
    BY <1>0, <1>1, <1>2, <1>3, <1>4, BlockSize DEF Layout, EndOf, IInv, FileInv, HeaderWritten
  <2>2. MarkerSizes'
    BY <1>1, <1>3 DEF MarkerSizes, IInv, FileInv
  <2> QED
    BY <1>4, <2>1, <2>2 DEF FileInv, NothingBuffered, HeaderWritten
<1>7. CutSound'
  <2> SUFFICES ASSUME NEW m \in DOMAIN blocks', blocks'[m].type = "marker",
                      m + blocks'[m].size >= disk'
               PROVE  MarkerSound(blocks', m, committed')
    BY DEF CutSound, EndOf
  <2>1. m = len + n
    \* An older marker that ends at or after len would end exactly there.
    <3>1. m \notin DOMAIN blocks
      <4> SUFFICES ASSUME m \in DOMAIN blocks PROVE FALSE
        OBVIOUS
      <4>1. m + blocks[m].size <= len /\ blocks[m].type = "marker" /\ m + blocks[m].size >= len
        BY <1>2, <1>3, <1>4
      <4>2. m \in Nat /\ blocks[m].size \in Nat
        BY <1>0, BlockSize
      <4>3. m + blocks[m].size # len
        BY <1>4, <4>1 DEF IInv, SessionInv, TailChanged, EndOf
      <4> QED BY <1>0, <4>1, <4>2, <4>3
    <3> QED
      BY <1>1, <1>3, <3>1
  <2>2. Describes(blocks, index, session, len)
    BY <1>4 DEF IInv, SessionInv, ReadYourWrites
  <2>3. Describes(blocks', index, session, len)
    BY <1>0, <1>5, <2>2, DescribesKept
  <2> QED
    BY <1>0, <1>1, <1>3, <1>4, <2>1, <2>3 DEF MarkerSound
<1>8. TailChanged' /\ ReadYourWrites'
  BY <1>4 DEF TailChanged, ReadYourWrites
<1>9. ReaderSnapshot'
  BY <1>0, <1>4, <1>5, ReadersKept DEF IInv
<1>10. PublishedInv'
  <2>1. ~published
    <3> SUFFICES ASSUME published PROVE FALSE
      OBVIOUS
    <3>1. len - MarkerSize \in DOMAIN blocks /\ blocks[len - MarkerSize].type = "marker"
      BY DEF IInv, PublishedInv, MarkerAt
    <3>2. blocks[len - MarkerSize].size = MarkerSize
      BY <3>1 DEF IInv, FileInv, MarkerSizes
    <3> QED
      BY <1>0, <1>4, <3>1, <3>2 DEF IInv, SessionInv, TailChanged, EndOf
  <2>2. len' - MarkerSize = len + n
    BY <1>0, <1>4
  <2> QED
    BY <1>1, <1>3, <1>4, <2>1, <2>2 DEF PublishedInv, MarkerAt
<1>11. KeyInv'
  <2>1. \A m \in DOMAIN blocks' : blocks'[m].type = "marker" => blocks'[m].keyid = keyid
    BY <1>1, <1>3, <1>4 DEF IInv, KeyInv
  <2> QED
    BY <1>4, <2>1 DEF KeyInv, OneKeyType, IsA
<1> QED
  BY <1>4, <1>6, <1>7, <1>8, <1>9, <1>10, <1>11, LazyGone DEF IInv, SessionInv

\* A session that ends without a fresh marker.
LEMMA EndInv ==
    ASSUME IInv, TypeOK', NEW c \in Nat, Stops(c), lazy' = NoLazy,
           published' => c = len /\ (published \/ wstate = "closing")
    PROVE  IInv'
<1>0. len \in Nat /\ MarkerSize \in Nat /\ WellFormed(blocks)
  BY FileWellFormed, Positions, SizeAssumption DEF IInv, TypeOK
<1>1. FileInv' /\ SessionInv' /\ ReaderSnapshot' /\ KeyInv'
  BY StopsSound
<1>2. PublishedInv'
  <2> SUFFICES ASSUME published' PROVE disk' = len' /\ MarkerAt(len - MarkerSize)' /\ len' = len
    BY DEF PublishedInv, Stops, MarkerAt
  <2>1. MarkerAt(len - MarkerSize) /\ c = len
    BY DEF IInv, PublishedInv
  <2>2. blocks[len - MarkerSize].size = MarkerSize
    BY <2>1 DEF MarkerAt, IInv, FileInv, MarkerSizes
  <2>3. /\ len - MarkerSize \in DOMAIN blocks'
        /\ blocks'[len - MarkerSize] = blocks[len - MarkerSize]
    BY <1>0, <2>1, <2>2 DEF MarkerAt, Stops, Keeps
  <2> QED
    BY <2>1, <2>3 DEF MarkerAt, Stops
<1> QED
  BY <1>1, <1>2, LazyGone DEF IInv

\* The session is over but for its destructor: the stream failed.
LEMMA FailInv ==
    ASSUME IInv, TypeOK', NEW c \in Nat,
           force_fails(c) \/ \E n \in DataSizes : insert_fails(n, c)
    PROVE  IInv'
<1>1. /\ wstate' = "failed" /\ published' = FALSE /\ c >= disk
      /\ UNCHANGED <<keyid, lazy, reader, committed>>
  BY Positions, SizeAssumption DEF insert_fails, force_fails, IInv, TypeOK
<1>2. FileInv' /\ SessionInv' /\ ReaderSnapshot' /\ KeyInv'
  BY <1>1, CutStops, StopsSound DEF insert_fails, force_fails
<1>3. LazyInv'
  BY <1>1 DEF IInv, LazyInv, LazySnapshot
<1> QED
  BY <1>1, <1>2, <1>3 DEF IInv, PublishedInv

(***************************************************************************)
(* The steps that do not write.                                            *)
(***************************************************************************)
\* More of the buffer reaches the device.
LEMMA FlushSound ==
    ASSUME IInv, TypeOK', NEW c \in disk..len, FlushTo(c),
           wstate' = wstate \/ (wstate' = "failed" /\ c = len),
           UNCHANGED <<keyid, index, need_write_index, reader, history>>,
           published => c = len
    PROVE  FileInv' /\ SessionInv' /\ ReaderSnapshot' /\ PublishedInv' /\ KeyInv'
<1>0. FileTypeOK /\ FileTypeOK' /\ len \in Nat /\ disk \in Nat /\ disk <= len /\ c \in Nat
  BY Positions DEF IInv, TypeOK
<1>1. blocks' = blocks /\ len' = len /\ disk' = c
  BY DEF FlushTo
<1>2. FileInv'
  BY <1>0, <1>1 DEF IInv, FileInv, Layout, MarkerSizes, NothingBuffered, HeaderWritten, EndOf
<1>3. CutSound'
  <2> SUFFICES ASSUME NEW m \in DOMAIN blocks, blocks[m].type = "marker",
                      m + blocks[m].size >= c
               PROVE  MarkerSound(blocks, m, committed)
    BY <1>1 DEF CutSound, EndOf, history
  <2>1. m \in Nat /\ blocks[m].size \in Nat
    BY <1>0, BlockSize, FileWellFormed
  <2> QED
    BY <1>0, <2>1 DEF IInv, SessionInv, CutSound, EndOf
<1>4. TailChanged' /\ ReadYourWrites'
  BY <1>1 DEF IInv, SessionInv, TailChanged, ReadYourWrites, EndOf, history
<1>5. ReaderSnapshot'
  <2>1. Keeps(blocks, blocks', disk) /\ disk' >= disk
    BY <1>0, <1>1 DEF Keeps
  <2> QED
    BY <1>0, <2>1, ReadersKept DEF IInv
<1>6. PublishedInv'
  BY <1>0, <1>1 DEF IInv, PublishedInv, MarkerAt, history
<1>7. KeyInv'
  BY <1>1 DEF IInv, KeyInv, OneKeyType, IsA
<1> QED
  BY <1>2, <1>3, <1>4, <1>5, <1>6, <1>7 DEF SessionInv

LEMMA OverflowInv ==
    ASSUME IInv, TypeOK', NEW c \in 0..MaxLen, overflow(c)
    PROVE  IInv'
<1>0. len \in Nat /\ disk \in Nat /\ disk <= len /\ c \in Nat
  BY Positions, SizeAssumption DEF IInv, TypeOK
<1>1. /\ c \in disk..len /\ c # disk /\ FlushTo(c)
      /\ UNCHANGED <<wstate, keyid, index, need_write_index, lazy, reader, history>>
  BY <1>0 DEF overflow, handle
<1>2. ~published
  BY <1>0, <1>1 DEF IInv, PublishedInv
<1>3. FileInv' /\ SessionInv' /\ ReaderSnapshot' /\ PublishedInv' /\ KeyInv'
  BY <1>1, <1>2, FlushSound
<1>4. LazyInv'
  BY <1>1 DEF IInv, LazyInv, LazySnapshot, FlushTo
<1> QED
  BY <1>3, <1>4 DEF IInv

LEMMA ForceInv ==
    ASSUME IInv, TypeOK', force
    PROVE  IInv'
<1> DEFINE v == delayed_read(lazy.pos, len)
<1>0. len \in Nat /\ disk \in Nat /\ disk <= len
  BY Positions DEF IInv, TypeOK
<1>1. /\ wstate = "open" /\ lazy.state = "delayed" /\ FlushTo(len)
      /\ lazy' = [state |-> "read", pos |-> lazy.pos, val |-> v, expect |-> lazy.expect]
      /\ wstate' \in {"open", "failed"}
      /\ UNCHANGED <<keyid, index, need_write_index, reader, history>>
  BY DEF force
<1>2. FileInv' /\ SessionInv' /\ ReaderSnapshot' /\ PublishedInv' /\ KeyInv'
  BY <1>0, <1>1, FlushSound
<1>3. v = lazy.expect
  <2>1. /\ lazy.pos \in DOMAIN blocks
        /\ blocks[lazy.pos].type = "data"
        /\ blocks[lazy.pos].val = lazy.expect
    BY <1>1 DEF IInv, LazyInv
  <2>2. EndOf(lazy.pos) <= len
    BY <2>1 DEF IInv, FileInv, Layout
  <2> QED
    BY <2>1, <2>2 DEF delayed_read, IsA
<1>4. LazyInv'
  <2> HIDE DEF v
  <2> QED BY <1>1, <1>3 DEF LazyInv, LazySnapshot
<1> QED
  BY <1>2, <1>4 DEF IInv

\* The file and the session stand still.
LEMMA QuietSound ==
    ASSUME IInv, Quiet
    PROVE  FileInv' /\ SessionInv' /\ PublishedInv' /\ KeyInv'
<1>1. /\ blocks' = blocks /\ len' = len /\ disk' = disk /\ wstate' = wstate /\ keyid' = keyid
      /\ index' = index /\ need_write_index' = need_write_index /\ session' = session
      /\ committed' = committed /\ published' = published
  BY DEF Quiet, file, history
<1>2. FileInv'
  BY <1>1 DEF IInv, FileInv, Layout, MarkerSizes, NothingBuffered, HeaderWritten, EndOf
<1>3. SessionInv'
  BY <1>1 DEF IInv, SessionInv, CutSound, TailChanged, ReadYourWrites, EndOf
<1>4. PublishedInv' /\ KeyInv'
  BY <1>1 DEF IInv, PublishedInv, MarkerAt, KeyInv, OneKeyType, IsA
<1> QED
  BY <1>2, <1>3, <1>4

LEMMA ReadersQuiet ==
    ASSUME IInv, TypeOK', Quiet, UNCHANGED reader
    PROVE  ReaderSnapshot'
<1>1. blocks' = blocks /\ disk' = disk /\ disk \in Nat /\ FileTypeOK /\ FileTypeOK'
  BY Positions DEF Quiet, file, IInv, TypeOK
<1>2. Keeps(blocks, blocks', disk) /\ disk' >= disk
  BY <1>1 DEF Keeps
<1> QED
  BY <1>1, <1>2, ReadersKept DEF IInv

LEMMA LazyQuiet ==
    ASSUME IInv, Quiet, UNCHANGED lazy
    PROVE  LazyInv'
BY DEF IInv, LazyInv, LazySnapshot, Quiet, file

LEMMA LookupInv ==
    ASSUME IInv, TypeOK', NEW k \in Keys, lookup(k)
    PROVE  IInv'
<1>1. Quiet /\ UNCHANGED reader
  BY DEF lookup, Quiet, history, file
<1>2. /\ wstate \in {"open", "failed"} /\ wstate' = wstate /\ blocks' = blocks
      /\ \/ UNCHANGED lazy
         \/ /\ index[k] # 0
            /\ lazy' = [state |-> "delayed", pos |-> index[k],
                        val |-> NoValue, expect |-> session[k]]
  BY DEF lookup, file
<1>3. LazyInv'
  <2>1. CASE UNCHANGED lazy
    BY <1>1, <2>1, LazyQuiet
  <2>2. CASE /\ index[k] # 0
             /\ lazy' = [state |-> "delayed", pos |-> index[k],
                         val |-> NoValue, expect |-> session[k]]
    <3>1. wstate = "open" => /\ index[k] \in DOMAIN blocks
                             /\ blocks[index[k]].type = "data"
                             /\ blocks[index[k]].val = session[k]
      BY <2>2 DEF IInv, SessionInv, ReadYourWrites, Describes
    <3> QED
      BY <1>2, <2>2, <3>1 DEF LazyInv, LazySnapshot
  <2> QED
    BY <1>2, <2>1, <2>2
<1> QED
  BY <1>1, <1>3, QuietSound, ReadersQuiet DEF IInv

(***************************************************************************)
(* Opening.                                                                *)
(***************************************************************************)
\* The marker at the end of what is on the device publishes the committed map,
\* and the index it points at can be read.
LEMMA LocateSound ==
    ASSUME IInv, NEW r, NEW kid, locate_index(r, kid) = "ok"
    PROVE  /\ HeaderSize <= disk
           /\ marker_pos \in DOMAIN blocks
           /\ blocks[marker_pos].type = "marker"
           /\ blocks[marker_pos].keyid = kid
           /\ MarkerSound(blocks, marker_pos, committed)
           /\ blocks[marker_pos].pos \in DOMAIN blocks
           /\ read_index(blocks[marker_pos].pos) = "ok"
           /\ Describes(blocks, blocks[blocks[marker_pos].pos].map, committed, disk)
<1>0. WellFormed(blocks) /\ disk \in Nat /\ MarkerSize \in Nat \ {0} /\ HeaderSize \in Nat
  BY FileWellFormed, Positions, SizeAssumption DEF IInv, TypeOK
<1>1. /\ HeaderSize <= disk
      /\ marker_pos \in DOMAIN blocks /\ blocks[marker_pos].type = "marker"
      /\ blocks[marker_pos].keyid = kid
  BY <1>0 DEF locate_index, read_marker, IsA
<1>2. EndOf(marker_pos) = disk
  BY <1>0, <1>1 DEF EndOf, marker_pos, IInv, FileInv, MarkerSizes
<1>3. MarkerSound(blocks, marker_pos, committed)
  BY <1>0, <1>1, <1>2 DEF IInv, SessionInv, CutSound
<1> DEFINE i == blocks[marker_pos].pos
<1>4. /\ i \in DOMAIN blocks /\ blocks[i].type = "index"
      /\ i + blocks[i].size <= marker_pos
      /\ Describes(blocks, blocks[i].map, committed, i)
  BY <1>3 DEF MarkerSound
<1>5. /\ i \in Nat /\ blocks[i].size \in Nat \ {0}
      /\ marker_pos \in Nat /\ marker_pos < disk
  BY <1>0, <1>1, <1>4, BlockSize DEF marker_pos
<1> HIDE DEF i
<1>6. read_index(i) = "ok"
  BY <1>0, <1>4, <1>5 DEF read_index, IsA, EndOf
<1>7. Describes(blocks, blocks[i].map, committed, disk)
  <2>1. Keeps(blocks, blocks, i)
    BY DEF Keeps
  <2> QED
    BY <1>0, <1>4, <1>5, <2>1, DescribesKept
<1> QED
  BY <1>1, <1>3, <1>4, <1>6, <1>7 DEF i

LEMMA OpenNewInv ==
    ASSUME IInv, TypeOK', NEW r \in Realms, NEW kid \in KeyIds, NEW o \in BOOLEAN,
           open_output_new(r, kid, o)
    PROVE  IInv'
<1>0. HeaderSize \in Nat
  BY SizeAssumption
<1>1. DOMAIN blocks' = {}
  BY NoBlocksFacts DEF open_output_new, write_header
<1>2. /\ wstate = "closed" /\ wstate' = "open" /\ published' = FALSE /\ len' = HeaderSize
      /\ index' = EmptyIndex /\ session' = EmptyMap /\ lazy' = lazy
  BY DEF open_output_new, write_header
<1>3. FileInv'
  BY <1>0, <1>1, <1>2 DEF FileInv, Layout, MarkerSizes, NothingBuffered, HeaderWritten
<1>4. SessionInv'
  <2>1. CutSound' /\ TailChanged'
    BY <1>1 DEF CutSound, TailChanged
  <2>2. Describes(blocks', EmptyIndex, EmptyMap, len')
    BY DEF Describes, EmptyIndex, EmptyMap
  <2> QED
    BY <1>2, <2>1, <2>2 DEF SessionInv, ReadYourWrites
<1>5. LazyInv'
  BY <1>2 DEF IInv, LazyInv, LazySnapshot
<1>6. ReaderSnapshot'
  <2>1. \A x \in Readers : /\ reader'[x].state = reader[x].state
                           /\ reader'[x].stale = (reader[x].state # "closed")
    BY DEF open_output_new
  <2> QED
    BY <2>1 DEF ReaderSnapshot
<1>7. PublishedInv' /\ KeyInv'
  BY <1>1, <1>2 DEF PublishedInv, KeyInv, OneKeyType, IsA
<1> QED
  BY <1>3, <1>4, <1>5, <1>6, <1>7 DEF IInv

LEMMA OpenExistingInv ==
    ASSUME IInv, TypeOK', NEW r \in Realms, NEW kid \in KeyIds, open_output_existing(r, kid)
    PROVE  IInv'
<1>0. /\ FileTypeOK /\ FileTypeOK' /\ disk \in Nat /\ len \in Nat
      /\ WellFormed(blocks) /\ MarkerSize \in Nat
  BY FileWellFormed, Positions, SizeAssumption DEF IInv, TypeOK
<1>1. /\ wstate = "closed" /\ wstate' = "open" /\ keyid' = kid /\ index' = stored_index
      /\ need_write_index' = FALSE /\ session' = committed /\ published' = TRUE
      /\ blocks' = blocks /\ len' = len /\ disk' = disk
      /\ UNCHANGED <<lazy, reader, committed>>
  BY DEF open_output_existing, file
<1>2. locate_index(r, kid) = "ok"
  BY DEF open_output_existing, open_outcome
<1>3. disk = len
  BY <1>1 DEF IInv, FileInv, NothingBuffered
<1>4. FileInv'
  BY <1>0, <1>1, <1>2, <1>3, LocateSound
     DEF IInv, FileInv, Layout, MarkerSizes, NothingBuffered, HeaderWritten, EndOf
<1>5. SessionInv'
  <2>1. CutSound' /\ TailChanged'
    BY <1>1 DEF IInv, SessionInv, CutSound, TailChanged, EndOf
  <2>2. Describes(blocks, stored_index, committed, disk)
    BY <1>2, LocateSound DEF stored_index
  <2> QED
    BY <1>1, <1>3, <2>1, <2>2 DEF SessionInv, ReadYourWrites
<1>6. LazyInv'
  BY <1>1 DEF IInv, LazyInv, LazySnapshot
<1>7. ReaderSnapshot'
  <2>1. Keeps(blocks, blocks', disk) /\ disk' >= disk
    BY <1>0, <1>1 DEF Keeps
  <2> QED
    BY <1>0, <1>1, <2>1, ReadersKept DEF IInv
<1>8. PublishedInv'
  BY <1>1, <1>2, <1>3, LocateSound DEF PublishedInv, MarkerAt, marker_pos
<1>9. KeyInv'
  <2>1. \A m \in DOMAIN blocks : blocks[m].type = "marker" => blocks[m].keyid = kid
    BY <1>2, LocateSound DEF IInv, KeyInv, OneKeyType, IsA
  <2> QED
    BY <1>1, <2>1 DEF KeyInv, OneKeyType, IsA
<1> QED
  BY <1>4, <1>5, <1>6, <1>7, <1>8, <1>9 DEF IInv

(***************************************************************************)
(* Input handles.                                                          *)
(***************************************************************************)
\* One handle is replaced by one whose contents are described.
LEMMA ReaderStep ==
    ASSUME IInv, NEW x \in Readers, NEW h, reader' = [reader EXCEPT ![x] = h],
           blocks' = blocks, disk' = disk,
           ~h.stale /\ h.state = "opening" =>
               /\ read_index(h.pos) = "ok"
               /\ Describes(blocks, blocks[h.pos].map, h.snap, disk),
           ~h.stale /\ h.state = "open" => Describes(blocks, h.index, h.snap, disk)
    PROVE  ReaderSnapshot'
<1>1. reader \in [Readers -> ReaderType]
  BY TypeParts DEF IInv
<1>2. \A y \in Readers : reader'[y] = IF y = x THEN h ELSE reader[y]
  BY <1>1
<1> SUFFICES ASSUME NEW y \in Readers, ~reader'[y].stale
             PROVE  /\ reader'[y].state = "opening" =>
                         /\ read_index(reader'[y].pos) = "ok"
                         /\ Describes(blocks, blocks[reader'[y].pos].map, reader'[y].snap, disk)
                    /\ reader'[y].state = "open" =>
                         Describes(blocks, reader'[y].index, reader'[y].snap, disk)
  BY DEF ReaderSnapshot, read_index, IsA, EndOf
<1>3. CASE y = x
  BY <1>2, <1>3
<1>4. CASE y # x
  BY <1>2, <1>4 DEF IInv, ReaderSnapshot
<1> QED
  BY <1>3, <1>4

LEMMA ReaderInv ==
    ASSUME IInv, TypeOK', NEW x \in Readers, Reader(x)
    PROVE  IInv'
<1>1. Quiet /\ UNCHANGED lazy
  BY ReaderQuiet
<1>2. blocks' = blocks /\ disk' = disk
  BY <1>1 DEF Quiet, file
<1>3. ReaderSnapshot'
  <2>1. CASE UNCHANGED reader
    BY <1>1, <2>1, ReadersQuiet
  <2>2. CASE reader' = [reader EXCEPT ![x] = NoReader]
    <3>1. NoReader.state = "closed"
      BY DEF NoReader
    <3> QED
      BY <1>2, <2>2, <3>1, ReaderStep
  <2>3. ASSUME NEW r \in Realms, NEW kid \in KeyIds, open_input(x, r, kid)
        PROVE  ReaderSnapshot'
    <3> DEFINE h == [state |-> "opening", pos |-> blocks[marker_pos].pos,
                     index |-> EmptyIndex, snap |-> committed, stale |-> FALSE]
    <3>1. reader' = [reader EXCEPT ![x] = h] /\ locate_index(r, kid) = "ok"
      BY <2>3 DEF open_input
    <3>2. /\ read_index(h.pos) = "ok"
          /\ Describes(blocks, blocks[h.pos].map, h.snap, disk)
      BY <3>1, LocateSound
    <3>3. h.state = "opening"
      OBVIOUS
    <3> HIDE DEF h
    <3> QED
      BY <1>2, <3>1, <3>2, <3>3, ReaderStep
  <2>4. CASE open_input_index(x)
    <3> DEFINE h == [state |-> "open", pos |-> 0, index |-> blocks[reader[x].pos].map,
                     snap |-> reader[x].snap, stale |-> reader[x].stale]
    <3>1. reader' = [reader EXCEPT ![x] = h] /\ reader[x].state = "opening"
      BY <2>4 DEF open_input_index
    <3>2. ~h.stale => Describes(blocks, h.index, h.snap, disk)
      BY <3>1 DEF IInv, ReaderSnapshot
    <3>3. h.state = "open"
      OBVIOUS
    <3> HIDE DEF h
    <3> QED
      BY <1>2, <3>1, <3>2, <3>3, ReaderStep
  <2>5. ASSUME NEW k \in Keys, read_entry_error(x, k)
        PROVE  ReaderSnapshot'
    <3>1. PICK s \in {"open", "failed"} : reader' = [reader EXCEPT ![x] =
             [state |-> s, pos |-> 0, index |-> reader[x].index,
              snap |-> reader[x].snap, stale |-> reader[x].stale]]
      BY <2>5 DEF read_entry_error
    <3> DEFINE h == [state |-> s, pos |-> 0, index |-> reader[x].index,
                     snap |-> reader[x].snap, stale |-> reader[x].stale]
    <3>2. ~h.stale => Describes(blocks, h.index, h.snap, disk)
      BY <2>5 DEF IInv, ReaderSnapshot, read_entry_error
    <3>3. h.state # "opening" /\ reader' = [reader EXCEPT ![x] = h]
      BY <3>1
    <3> HIDE DEF h
    <3> QED
      BY <1>2, <3>2, <3>3, ReaderStep
  <2> QED
    BY <2>1, <2>2, <2>3, <2>4, <2>5 DEF Reader, open_input_error, open_input_index_error,
       read_entry, read_entry_failed, read_missing, close_input
<1> QED
  BY <1>1, <1>3, QuietSound, LazyQuiet DEF IInv

(***************************************************************************)
(* Every way a session ends is a stop.                                     *)
(***************************************************************************)
LEMMA GoneFacts ==
    gone => /\ wstate' = "closed" /\ lazy' = NoLazy
            /\ UNCHANGED <<committed, keyid, reader>>
BY DEF gone, members_gone

LEMMA DestructorInv ==
    ASSUME IInv, TypeOK', Destructor
    PROVE  IInv'
<1>0. len \in Nat /\ disk \in Nat /\ disk <= len /\ WellFormed(blocks)
  BY FileWellFormed, Positions DEF IInv, TypeOK
<1>l. \A p \in DOMAIN blocks : HeaderSize <= p /\ p + blocks[p].size <= len
  BY DEF IInv, FileInv, Layout, EndOf
<1>1. ASSUME NEW n \in IndexSizes, write_index(n) PROVE IInv'
  BY <1>1, WriteIndexInv
<1>2. CASE close_stream
  <2>1. Stops(len)
    BY <1>2, GoneFacts, FlushStops DEF close_stream
  <2> QED
    BY <1>0, <1>2, <2>1, GoneFacts, EndInv DEF close_stream
<1>3. ASSUME NEW c \in 0..MaxLen, close_stream_fails(c) PROVE IInv'
  <2>1. c \in Nat /\ c >= disk /\ published' = FALSE
    BY <1>0, <1>3, SizeAssumption DEF close_stream_fails
  <2>2. Stops(c)
    BY <1>3, <2>1, GoneFacts, CutStops DEF close_stream_fails
  <2> QED
    BY <1>3, <2>1, <2>2, GoneFacts, EndInv DEF close_stream_fails
<1>4. CASE destroy_unchanged
  <2>1. Stops(len)
    BY <1>4, GoneFacts, FlushStops DEF destroy_unchanged
  <2> QED
    BY <1>0, <1>4, <2>1, GoneFacts, EndInv DEF destroy_unchanged
<1>5. ASSUME NEW c \in 0..MaxLen, destroy_failed(c) PROVE IInv'
  <2>1. c \in Nat /\ c >= disk /\ disk = len /\ published' = FALSE
    BY <1>0, <1>5, SizeAssumption DEF destroy_failed, IInv, FileInv, NothingBuffered
  <2>2. blocks' = blocks /\ len' = c /\ disk' = c
    BY <1>5 DEF destroy_failed
  <2>3. \A p \in DOMAIN blocks : p + blocks[p].size <= c
    BY <1>0, <1>l, <2>1, BlockSize
  <2>4. Stops(c)
    BY <1>5, <1>l, <2>1, <2>2, <2>3, GoneFacts DEF destroy_failed, Stops, Keeps
  <2> QED
    BY <1>5, <2>1, <2>4, GoneFacts, EndInv DEF destroy_failed
<1>6. CASE terminate_failed
  <2>1. disk = len /\ published' = FALSE
    BY <1>6 DEF terminate_failed, IInv, FileInv, NothingBuffered
  <2>2. Stops(len)
    BY <1>0, <1>6, <1>l, <2>1, GoneFacts DEF terminate_failed, file, Stops, Keeps
  <2> QED
    BY <1>0, <1>6, <2>1, <2>2, GoneFacts, EndInv DEF terminate_failed
<1>7. ASSUME NEW n \in IndexSizes, NEW c \in 0..MaxLen, terminate_writing(n, c) PROVE IInv'
  <2> DEFINE f == WithBlock(blocks, len, IndexBlock(index, n))
  <2>1. c \in Nat /\ c >= disk /\ published' = FALSE /\ wstate = "open"
    BY <1>0, <1>7, SizeAssumption DEF terminate_writing
  <2>2. blocks' = Prefix(f, c) /\ len' = c /\ disk' = c
    BY <1>7 DEF terminate_writing
  <2>3. /\ DOMAIN f = DOMAIN blocks \cup {len}
        /\ f[len].type = "index"
        /\ \A p \in DOMAIN blocks : f[p] = blocks[p]
    <3>1. \A p \in DOMAIN blocks : p # len
      BY <1>0, <1>l, BlockSize
    <3> QED
      BY <3>1 DEF WithBlock, IndexBlock
  <2> HIDE DEF f
  <2>4. /\ \A p \in DOMAIN blocks' : p \in DOMAIN f /\ blocks'[p] = f[p] /\ p + f[p].size <= c
        /\ \A p \in DOMAIN f : p + f[p].size <= c => p \in DOMAIN blocks' /\ blocks'[p] = f[p]
    BY <2>2 DEF Prefix
  <2>5. HeaderSize <= len
    BY <2>1 DEF IInv, FileInv, HeaderWritten
  <2>6. Keeps(blocks, blocks', c)
    BY <2>3, <2>4 DEF Keeps
  <2>7. \A p \in DOMAIN blocks' :
          /\ HeaderSize <= p
          /\ p + blocks'[p].size <= c
          /\ \/ p \in DOMAIN blocks /\ blocks'[p] = blocks[p]
             \/ blocks'[p].type = "index"
    BY <1>l, <2>3, <2>4, <2>5
  <2>8. Stops(c)
    BY <1>7, <2>1, <2>2, <2>6, <2>7, GoneFacts DEF terminate_writing, Stops
  <2> QED
    BY <1>7, <2>1, <2>8, GoneFacts, EndInv DEF terminate_writing
<1> QED
  BY <1>1, <1>2, <1>3, <1>4, <1>5, <1>6, <1>7 DEF Destructor

LEMMA CrashInv ==
    ASSUME IInv, TypeOK', NEW c \in 0..MaxLen, crash(c)
    PROVE  IInv'
<1>1. c \in Nat /\ c >= disk
  BY Positions, SizeAssumption DEF crash, IInv, TypeOK
<1>2. Stops(c)
  BY <1>1, GoneFacts, CutStops DEF crash
<1> QED
  BY <1>1, <1>2, GoneFacts, EndInv DEF crash

(***************************************************************************)
(* The invariant and what follows from it.                                 *)
(***************************************************************************)
LEMMA WriterInv ==
    ASSUME IInv, TypeOK', Writer
    PROVE  IInv'
<1>1. ASSUME NEW r \in Realms, NEW kid \in KeyIds, open_output_error(r, kid) PROVE IInv'
  <2>1. Quiet /\ UNCHANGED <<lazy, reader>>
    BY <1>1 DEF open_output_error, Quiet, handle, history, file
  <2> QED
    BY <2>1, QuietSound, LazyQuiet, ReadersQuiet DEF IInv
<1>2. CASE force_again
  <2>1. Quiet /\ UNCHANGED <<lazy, reader>>
    BY <1>2 DEF force_again, Quiet, handle, history, file
  <2> QED
    BY <2>1, QuietSound, LazyQuiet, ReadersQuiet DEF IInv
<1>3. 0..MaxLen \subseteq Nat
  BY SizeAssumption
<1> QED
  BY <1>1, <1>2, <1>3, OpenNewInv, OpenExistingInv, InsertInv, FailInv, OverflowInv,
     LookupInv, ForceInv, DestructorInv, CrashInv DEF Writer

LEMMA Inductive == IInv /\ TypeOK' /\ [Next]_vars => IInv'
<1> SUFFICES ASSUME IInv, TypeOK', [Next]_vars PROVE IInv'
  OBVIOUS
<1>1. CASE Writer
  BY <1>1, WriterInv
<1>2. ASSUME NEW x \in Readers, Reader(x) PROVE IInv'
  BY <1>2, ReaderInv
<1>3. CASE UNCHANGED vars
  <2>1. Quiet /\ UNCHANGED <<lazy, reader>>
    BY <1>3, StutterQuiet
  <2> QED
    BY <2>1, QuietSound, LazyQuiet, ReadersQuiet DEF IInv
<1> QED
  BY <1>1, <1>2, <1>3 DEF Next

LEMMA InitIInv == Init => IInv
<1> SUFFICES ASSUME Init PROVE IInv
  OBVIOUS
<1>1. TypeOK
  BY TypeCorrectInit
<1>2. DOMAIN blocks = {}
  BY NoBlocksFacts DEF Init
<1>3. wstate = "closed" /\ published = FALSE /\ len = 0 /\ disk = 0 /\ lazy = NoLazy
  BY DEF Init
<1>4. FileInv /\ SessionInv /\ PublishedInv /\ KeyInv
  BY <1>2, <1>3 DEF FileInv, Layout, MarkerSizes, NothingBuffered, HeaderWritten, SessionInv,
     CutSound, TailChanged, ReadYourWrites, PublishedInv, KeyInv, OneKeyType, IsA
<1>5. LazyInv
  BY <1>3 DEF LazyInv, LazySnapshot, NoLazy
<1>6. ReaderSnapshot
  BY DEF Init, ReaderSnapshot, NoReader
<1> QED
  BY <1>1, <1>4, <1>5, <1>6 DEF IInv

\* The invariant holds throughout.
THEOREM Invariance == Spec => []IInv
<1>1. IInv /\ TypeOK' /\ [Next]_vars => IInv'
  BY Inductive
<1> QED
  BY <1>1, InitIInv, TypeCorrect, PTL DEF Spec

\* Crash safety: whatever opens is exactly what the last session to write an index
\* had inserted, with every block on the device.
THEOREM CrashSafety == Spec => []OpenSound
<1>1. IInv => OpenSound
  <2> SUFFICES ASSUME IInv, NEW r \in Realms, NEW kid \in KeyIds, open_outcome(r, kid) = "ok"
               PROVE  Describes(blocks, stored_index, committed, disk)
    BY DEF OpenSound
  <2>1. locate_index(r, kid) = "ok"
    BY DEF open_outcome
  <2> QED
    BY <2>1, LocateSound DEF stored_index
<1> QED
  BY <1>1, Invariance, PTL

\* Durability: once the destructor's bytes are out, the file opens with the same
\* realm and key type.
THEOREM Durability == Spec => []Durable
<1>1. IInv => Durable
  <2> SUFFICES ASSUME IInv, published PROVE open_outcome(header, keyid) = "ok"
    BY DEF Durable
  <2>0. disk \in Nat /\ MarkerSize \in Nat \ {0} /\ HeaderSize \in Nat
    BY Positions, SizeAssumption DEF IInv, TypeOK
  <2>1. IsA("marker", marker_pos) /\ blocks[marker_pos].keyid = keyid
    BY DEF IInv, PublishedInv, MarkerAt, marker_pos, IsA
  <2>2. HeaderSize <= marker_pos
    BY <2>1 DEF IInv, FileInv, Layout, IsA
  <2>3. locate_index(header, keyid) = "ok"
    BY <2>0, <2>1, <2>2 DEF locate_index, read_marker, marker_pos
  <2> QED
    BY <2>3, LocateSound DEF open_outcome
<1> QED
  BY <1>1, Invariance, PTL

\* An output handle reads back what it inserted: after any inserts, flushes, lazy
\* reads and reopenings, every entry of its index is the offset of the block that
\* holds the key's last value, whether it is still buffered or not.
THEOREM OwnInserts == Spec => []ReadYourWrites
<1>1. IInv => ReadYourWrites
  BY DEF IInv, SessionInv
<1> QED
  BY <1>1, Invariance, PTL

\* What a lazy_value reads is the value its key had when it was looked up, although
\* the key may be replaced before the read.
THEOREM LazyValuesKeep == Spec => []LazySnapshot
<1>1. IInv => LazySnapshot
  BY DEF IInv, LazyInv
<1> QED
  BY <1>1, Invariance, PTL

\* An input handle keeps the contents that were published when it found the marker,
\* whatever is appended, cut off or published by others while it opens and after.
THEOREM ReadersKeep == Spec => []ReaderSnapshot
<1>1. IInv => ReaderSnapshot
  BY DEF IInv
<1> QED
  BY <1>1, Invariance, PTL

\* All markers of a file have the same key id, since a program with another key type
\* is refused when it opens the file for output.
THEOREM KeyTypeKept == Spec => []OneKeyType
<1>1. IInv => OneKeyType
  BY DEF IInv, KeyInv
<1> QED
  BY <1>1, Invariance, PTL

(***************************************************************************)
(* What a step does to the bytes on the device.                            *)
(***************************************************************************)
KeepsDevice == disk <= disk' /\ Keeps(blocks, blocks', disk)

\* Leaving the file alone, or writing out some of the buffer, keeps them.
LEMMA SameBlocksKeep ==
    ASSUME FileTypeOK, UNCHANGED blocks, disk' \in Nat, disk <= disk'
    PROVE  KeepsDevice
BY DEF KeepsDevice, Keeps

\* A cut takes away buffered bytes only.
LEMMA CutKeeps ==
    ASSUME IInv, NEW f, NEW c \in Nat, c >= disk, blocks' = Prefix(f, c), disk' = c,
           \A p \in DOMAIN blocks : p \in DOMAIN f /\ f[p] = blocks[p]
    PROVE  KeepsDevice
<1>1. WellFormed(blocks) /\ disk \in Nat
  BY FileWellFormed, Positions DEF IInv, TypeOK
<1>2. ASSUME NEW p \in DOMAIN blocks, p + blocks[p].size <= disk
      PROVE  p \in DOMAIN f /\ f[p] = blocks[p] /\ p + f[p].size <= c
  <2>1. p \in Nat /\ blocks[p].size \in Nat
    BY <1>1, BlockSize
  <2> QED
    BY <1>1, <1>2, <2>1
<1> QED
  BY <1>1, <1>2, PrefixFacts DEF KeepsDevice, Keeps

\* Every step but opening to overwrite keeps what is on the device.
LEMMA AppendStep ==
    ASSUME IInv, TypeOK', Next
    PROVE  \/ wstate = "closed" /\ wstate' = "open" /\ len' = HeaderSize
           \/ KeepsDevice
<1>0. /\ FileTypeOK /\ WellFormed(blocks)
      /\ len \in Nat /\ disk \in Nat /\ disk <= len /\ disk' \in Nat
  BY FileWellFormed, Positions DEF IInv, TypeOK, FileTypeOK
<1>1. \A p \in DOMAIN blocks : p < len
  BY <1>0, BlockSize DEF IInv, FileInv, Layout, EndOf
<1>2. CASE \E x \in Readers : Reader(x)
  BY <1>0, <1>2, ReaderQuiet, SameBlocksKeep DEF Quiet, file
<1>3. ASSUME NEW r \in Realms, NEW kid \in KeyIds, NEW overwrite \in BOOLEAN,
             open_output_new(r, kid, overwrite)
      PROVE  wstate = "closed" /\ wstate' = "open" /\ len' = HeaderSize
  BY <1>3 DEF open_output_new, write_header
<1>4. ASSUME NEW r \in Realms, NEW kid \in KeyIds,
             open_output_existing(r, kid) \/ open_output_error(r, kid)
      PROVE  KeepsDevice
  BY <1>0, <1>4, SameBlocksKeep DEF open_output_existing, open_output_error, file
<1>5. ASSUME NEW k \in Keys, NEW v \in Values, NEW n \in DataSizes, insert(k, v, n)
      PROVE  KeepsDevice
  <2>1. DataBlock(v, n) \in EncodedBlock
    BY BlockTypes, SizeAssumption
  <2> QED
    BY <1>0, <1>5, <2>1, AppendKeeps DEF insert, KeepsDevice, Keeps
<1>6. ASSUME NEW n \in DataSizes, NEW c \in 0..MaxLen, insert_fails(n, c)
      PROVE  KeepsDevice
  BY <1>0, <1>6, CutKeeps, SizeAssumption DEF insert_fails, CutAt
<1>7. ASSUME NEW c \in 0..MaxLen, overflow(c) \/ force_fails(c) \/ crash(c)
      PROVE  KeepsDevice
  <2>1. CASE overflow(c)
    BY <1>0, <2>1, SameBlocksKeep DEF overflow, FlushTo
  <2>2. CASE force_fails(c) \/ crash(c)
    BY <1>0, <2>2, CutKeeps, SizeAssumption DEF force_fails, crash, CutAt
  <2> QED
    BY <1>7, <2>1, <2>2
<1>8. CASE force \/ force_again \/ \E k \in Keys : lookup(k)
  BY <1>0, <1>8, SameBlocksKeep DEF force, force_again, lookup, FlushTo, file
<1>9. CASE Destructor
  <2>1. ASSUME NEW n \in IndexSizes, write_index(n) PROVE KeepsDevice
    <3>1. n \in Nat \ {0}
      BY SizeAssumption
    <3>2. \A p \in DOMAIN blocks : p \in DOMAIN blocks' /\ blocks'[p] = blocks[p]
      BY <1>0, <1>1, <2>1, <3>1, BlockSize DEF write_index, WithBlock
    <3> QED
      BY <1>0, <2>1, <3>2 DEF write_index, KeepsDevice, Keeps
  <2>2. CASE close_stream \/ destroy_unchanged \/ terminate_failed
    BY <1>0, <2>2, SameBlocksKeep DEF close_stream, destroy_unchanged, terminate_failed,
       FlushTo, file
  <2>3. ASSUME NEW c \in 0..MaxLen, close_stream_fails(c) \/ destroy_failed(c)
        PROVE  KeepsDevice
    BY <1>0, <2>3, CutKeeps, SameBlocksKeep, SizeAssumption
       DEF close_stream_fails, destroy_failed, CutAt
  <2>4. ASSUME NEW n \in IndexSizes, NEW c \in 0..MaxLen, terminate_writing(n, c)
        PROVE  KeepsDevice
    <3> DEFINE f == WithBlock(blocks, len, IndexBlock(index, n))
    <3>1. \A p \in DOMAIN blocks : p \in DOMAIN f /\ f[p] = blocks[p]
      BY <1>0, <1>1, BlockSize DEF WithBlock
    <3>2. c \in Nat /\ c >= disk /\ blocks' = Prefix(f, c) /\ disk' = c
      BY <1>0, <2>4, SizeAssumption DEF terminate_writing
    <3> HIDE DEF f
    <3> QED
      BY <3>1, <3>2, CutKeeps
  <2> QED
    BY <1>9, <2>1, <2>2, <2>3, <2>4 DEF Destructor
<1> QED
  BY <1>2, <1>3, <1>4, <1>5, <1>6, <1>7, <1>8, <1>9 DEF Next, Writer

\* Append-only files: no step of any handle, no crash and no failed write takes
\* away or changes a block that is on the device; only opening to overwrite does.
THEOREM AppendingOnly == Spec => AppendOnly
<1> DEFINE Kept == \/ wstate = "closed" /\ wstate' = "open" /\ len' = HeaderSize
                   \/ \A p \in DOMAIN blocks :
                        Readable(p) => Readable(p)' /\ blocks'[p] = blocks[p]
<1>1. IInv /\ TypeOK' /\ Next => Kept
  <2> SUFFICES ASSUME IInv, TypeOK', KeepsDevice, NEW p \in DOMAIN blocks, Readable(p)
               PROVE  Readable(p)' /\ blocks'[p] = blocks[p]
    BY AppendStep
  <2>1. /\ p \in Nat /\ blocks[p].size \in Nat
        /\ disk \in Nat /\ disk' \in Nat /\ disk <= disk'
    BY FileWellFormed, BlockSize, Positions DEF IInv, TypeOK, FileTypeOK, KeepsDevice
  <2>2. p + blocks[p].size <= disk
    BY DEF Readable, EndOf
  <2>3. p \in DOMAIN blocks' /\ blocks'[p] = blocks[p]
    BY <2>2 DEF KeepsDevice, Keeps
  <2> QED
    BY <2>1, <2>2, <2>3 DEF Readable, EndOf
<1>2. IInv /\ TypeOK' /\ [Next]_vars => [Kept]_vars
  BY <1>1
<1> HIDE DEF Kept
<1>3. Spec => [][Kept]_vars
  BY <1>2, Invariance, TypeCorrect, PTL DEF Spec
<1> QED
  BY <1>3 DEF AppendOnly, Kept

-----------------------------------------------------------------------------
(***************************************************************************)
(* IndexedFile implements IndexedStore: through every crash, failed write    *)
(* and torn block, what opening the file shows changes only as the abstract  *)
(* store's contents may.                                                     *)
(***************************************************************************)

(***************************************************************************)
(* What a file shows depends on the marker at the end of the device alone.  *)
(***************************************************************************)
\* A marker ends where the device ends.
Ends == \E m \in DOMAIN blocks : blocks[m].type = "marker" /\ EndOf(m) = disk

\* Markers carry the key id of some program.
MarkerKeys == \A m \in DOMAIN blocks : blocks[m].type = "marker" => blocks[m].keyid \in KeyIds

\* All markers an open session finds have left the buffer: a cut can expose none of
\* them again.
MarkersOut ==
    wstate = "open" => \A m \in DOMAIN blocks : blocks[m].type = "marker" => EndOf(m) <= disk

RInv == MarkerKeys /\ MarkersOut

\* A step that writes no marker and forgets no commit.
Carries ==
    /\ disk <= disk'
    /\ committed' = committed
    /\ \A m \in DOMAIN blocks' : blocks'[m].type = "marker" =>
         m \in DOMAIN blocks /\ blocks'[m] = blocks[m]

\* The parts of the invariants that the arithmetic below rests on.
LEMMA Bounds ==
    ASSUME IInv
    PROVE  /\ disk \in Nat /\ len \in Nat /\ disk <= len
           /\ HeaderSize \in Nat \ {0} /\ MarkerSize \in Nat \ {0}
           /\ DOMAIN blocks \subseteq Nat
           /\ \A m \in DOMAIN blocks : /\ blocks[m].size \in Nat \ {0} /\ m < len
                                       /\ EndOf(m) \in Nat /\ EndOf(m) <= len
                                       /\ HeaderSize <= m
           /\ \A m \in DOMAIN blocks : blocks[m].type = "marker" => blocks[m].size = MarkerSize
<1>1. WellFormed(blocks) /\ disk \in Nat /\ len \in Nat /\ disk <= len
  BY FileWellFormed, Positions DEF IInv, TypeOK
<1>2. HeaderSize \in Nat \ {0} /\ MarkerSize \in Nat \ {0}
  BY SizeAssumption
<1>3. \A m \in DOMAIN blocks : m \in Nat /\ blocks[m].size \in Nat \ {0}
  BY <1>1, BlockSize
<1>4. \A m \in DOMAIN blocks : HeaderSize <= m /\ EndOf(m) <= len
  BY DEF IInv, FileInv, Layout
<1>5. \A m \in DOMAIN blocks : blocks[m].type = "marker" => blocks[m].size = MarkerSize
  BY DEF IInv, FileInv, MarkerSizes
<1> QED
  BY <1>1, <1>2, <1>3, <1>4, <1>5 DEF EndOf

\* The file opens, for the right program, exactly when a marker ends it.
LEMMA OpensIffEnds ==
    ASSUME IInv, RInv PROVE opens <=> Ends
<1>0. /\ disk \in Nat /\ HeaderSize \in Nat \ {0} /\ MarkerSize \in Nat \ {0}
      /\ DOMAIN blocks \subseteq Nat
      /\ \A m \in DOMAIN blocks : HeaderSize <= m
      /\ \A m \in DOMAIN blocks : blocks[m].type = "marker" => blocks[m].size = MarkerSize
  BY Bounds
<1>1. ASSUME opens PROVE Ends
  <2>1. PICK r \in Realms, kid \in KeyIds : open_outcome(r, kid) = "ok"
    BY <1>1 DEF opens
  <2>2. locate_index(r, kid) = "ok"
    BY <2>1 DEF open_outcome
  <2>3. marker_pos \in DOMAIN blocks /\ blocks[marker_pos].type = "marker"
    BY <2>2, LocateSound
  <2> QED
    BY <1>0, <2>3 DEF Ends, EndOf, marker_pos
<1>2. ASSUME Ends PROVE opens
  <2>1. PICK m \in DOMAIN blocks : blocks[m].type = "marker" /\ EndOf(m) = disk
    BY <1>2 DEF Ends
  <2>2. m = marker_pos /\ marker_pos >= 0 /\ HeaderSize <= disk
    BY <1>0, <2>1 DEF EndOf, marker_pos
  <2>3. blocks[m].keyid \in KeyIds /\ header \in Realms
    BY <2>1 DEF RInv, MarkerKeys, IInv, TypeOK, FileTypeOK
  <2>4. locate_index(header, blocks[m].keyid) = "ok"
    BY <1>0, <2>1, <2>2 DEF locate_index, read_marker, IsA
  <2>5. read_index(blocks[marker_pos].pos) = "ok"
    BY <2>4, LocateSound
  <2>6. open_outcome(header, blocks[m].keyid) = "ok"
    BY <2>4, <2>5 DEF open_outcome
  <2> QED
    BY <2>3, <2>6 DEF opens
<1> QED
  BY <1>1, <1>2

\* What is visible is the committed map or nothing.
LEMMA VisibleIs ==
    ASSUME IInv, RInv
    PROVE  /\ committed \in ValueMap
           /\ Ends => visible = committed
           /\ ~Ends => visible = Broken
<1>1. committed \in ValueMap
  BY DEF IInv, TypeOK
<1>2. ASSUME Ends PROVE visible = committed
  <2>1. opens
    BY <1>2, OpensIffEnds
  <2>2. PICK r \in Realms, kid \in KeyIds : open_outcome(r, kid) = "ok"
    BY <2>1 DEF opens
  <2>3. locate_index(r, kid) = "ok"
    BY <2>2 DEF open_outcome
  <2>4. Describes(blocks, stored_index, committed, disk)
    BY <2>3, LocateSound DEF stored_index
  <2>5. \A k \in Keys : committed[k] = IF stored_index[k] = 0 THEN NoValue
                                       ELSE delayed_read(stored_index[k], disk)
    <3> SUFFICES ASSUME NEW k \in Keys
                 PROVE  committed[k] = IF stored_index[k] = 0 THEN NoValue
                                       ELSE delayed_read(stored_index[k], disk)
      OBVIOUS
    <3>1. CASE stored_index[k] = 0
      <4>1. stored_index[k] \notin DOMAIN blocks
        BY <3>1, Bounds
      <4> QED
        BY <2>4, <3>1, <4>1 DEF Describes
    <3>2. CASE stored_index[k] # 0
      BY <2>4, <3>2 DEF Describes, delayed_read, IsA, EndOf
    <3> QED
      BY <3>1, <3>2
  <2>6. committed = [k \in Keys |-> committed[k]]
    BY <1>1 DEF ValueMap
  <2>7. committed = [k \in Keys |-> IF stored_index[k] = 0 THEN NoValue
                                    ELSE delayed_read(stored_index[k], disk)]
    BY <2>5, <2>6
  <2> QED
    BY <2>1, <2>7 DEF visible
<1>3. ASSUME ~Ends PROVE visible = Broken
  BY <1>3, OpensIffEnds DEF visible
<1> QED
  BY <1>1, <1>2, <1>3

\* The same of the state a step leads to.
LEMMA VisibleNext ==
    (IInv /\ RInv => (Ends => visible = committed) /\ (~Ends => visible = Broken))'
<1>1. IInv /\ RInv => (Ends => visible = committed) /\ (~Ends => visible = Broken)
  BY VisibleIs
<1> QED
  BY <1>1, PTL

\* Outside the destructor's last phase every marker is on the device.
LEMMA AllOut ==
    ASSUME IInv, RInv, wstate # "closing", NEW m \in DOMAIN blocks, blocks[m].type = "marker"
    PROVE  EndOf(m) <= disk
<1>1. CASE wstate = "open"
  BY <1>1 DEF RInv, MarkersOut
<1>2. CASE wstate \in {"closed", "failed"}
  BY <1>2, Bounds DEF IInv, FileInv, NothingBuffered
<1> QED
  BY <1>1, <1>2 DEF IInv, TypeOK

\* So a step that writes no marker shows what was shown, or nothing; from the last
\* phase on, what it may show is the committed map.
LEMMA CarriedVisible ==
    ASSUME IInv, RInv, IInv', RInv', Carries
    PROVE  /\ visible' \in {committed, Broken}
           /\ wstate # "closing" => visible' \in {visible, Broken}
<1>1. visible' \in {committed, Broken} /\ (~Ends' => visible' = Broken)
      /\ (Ends' => visible' = committed)
  <2>1. /\ Ends' => visible' = committed'
        /\ ~Ends' => visible' = Broken
    BY VisibleNext
  <2> QED
    BY <2>1 DEF Carries
<1>2. ASSUME wstate # "closing", Ends' PROVE Ends
  <2>1. PICK m \in DOMAIN blocks' : blocks'[m].type = "marker" /\ EndOf(m)' = disk'
    BY <1>2 DEF Ends
  <2>2. m \in DOMAIN blocks /\ blocks[m].type = "marker" /\ EndOf(m) = disk'
    BY <2>1 DEF Carries, EndOf
  <2>3. EndOf(m) <= disk
    BY <1>2, <2>2, AllOut
  <2>4. EndOf(m) \in Nat /\ disk \in Nat /\ disk <= disk'
    BY <2>2, Bounds DEF Carries
  <2> QED
    BY <2>2, <2>3, <2>4 DEF Ends
<1> QED
  BY <1>1, <1>2, VisibleIs

(***************************************************************************)
(* The steps, by what they do to the file and to the session.               *)
(***************************************************************************)
\* Neither the file nor the session changes.
Idle == UNCHANGED <<file, wstate, session, committed>>

\* The session goes on: bytes are written out, or lost in a failed write.
Continues ==
    /\ Carries
    /\ wstate \in {"open", "failed"} /\ wstate' \in {"open", "failed"}
    /\ wstate' = "open" => wstate = "open"
    /\ session' = session

\* The session is over.
Finishes == Carries /\ wstate # "closed" /\ wstate' = "closed"

\* The destructor has written the index, and more of the buffer is written out.
Drains == Carries /\ wstate = "closing" /\ wstate' = "closing"

Puts(k, v) ==
    /\ Carries
    /\ wstate = "open" /\ wstate' = "open"
    /\ session' = [session EXCEPT ![k] = v]

Steps ==
    \/ Idle \/ Continues \/ Finishes \/ Drains
    \/ \E k \in Keys, v \in Values : Puts(k, v)
    \/ \E r \in Realms, kid \in KeyIds, overwrite \in BOOLEAN : open_output_new(r, kid, overwrite)
    \/ \E r \in Realms, kid \in KeyIds : open_output_existing(r, kid)
    \/ \E n \in IndexSizes : write_index(n)

\* Cutting the file, or writing out bytes, brings no marker into it.
LEMMA SameBlocksCarry ==
    ASSUME blocks' = blocks, disk <= disk', committed' = committed PROVE Carries
BY DEF Carries

LEMMA CutCarries ==
    ASSUME NEW f, NEW c, blocks' = Prefix(f, c), disk <= disk', committed' = committed,
           \A m \in DOMAIN f : f[m].type = "marker" => m \in DOMAIN blocks /\ f[m] = blocks[m]
    PROVE  Carries
BY PrefixFacts DEF Carries

LEMMA AppendCarries ==
    ASSUME IInv, NEW b, b.type # "marker",
           disk <= disk', committed' = committed, blocks' = WithBlock(blocks, len, b)
    PROVE  Carries
BY Bounds DEF Carries, WithBlock

LEMMA Sorted ==
    ASSUME IInv, Next PROVE Steps
<1>0. /\ disk \in Nat /\ len \in Nat /\ disk <= len /\ MaxLen \in Nat
      /\ \A p \in DOMAIN blocks : p < len
  BY Bounds, SizeAssumption
<1>1. ASSUME NEW x \in Readers, Reader(x) PROVE Idle
  BY <1>1, ReaderQuiet DEF Quiet, Idle, history
<1>2. ASSUME NEW r \in Realms, NEW kid \in KeyIds, open_output_error(r, kid) PROVE Idle
  BY <1>2 DEF open_output_error, Idle, handle, history
<1>3. ASSUME NEW k \in Keys, NEW v \in Values, NEW n \in DataSizes, insert(k, v, n)
      PROVE  Puts(k, v)
  <2>1. DataBlock(v, n).type # "marker"
    BY DEF DataBlock
  <2>2. /\ disk <= disk' /\ committed' = committed
        /\ blocks' = WithBlock(blocks, len, DataBlock(v, n))
    BY <1>0, <1>3 DEF insert, remembered_append
  <2>3. Carries
    BY <2>1, <2>2, AppendCarries
  <2> QED
    BY <1>3, <2>3 DEF Puts, insert
<1>4. ASSUME NEW n \in DataSizes, NEW c \in 0..MaxLen, insert_fails(n, c) PROVE Continues
  <2>1. Carries
    BY <1>0, <1>4, CutCarries, SizeAssumption DEF insert_fails, CutAt
  <2> QED
    BY <1>4, <2>1 DEF insert_fails, Continues
<1>5. ASSUME NEW c \in 0..MaxLen, overflow(c) PROVE Continues \/ Drains
  <2>1. Carries
    BY <1>0, <1>5, SameBlocksCarry DEF overflow, FlushTo, history
  <2>2. wstate \in {"open", "closing"} /\ wstate' = wstate /\ session' = session
    BY <1>5 DEF overflow, handle, history
  <2> QED
    BY <2>1, <2>2 DEF Continues, Drains
<1>6. ASSUME NEW k \in Keys, lookup(k) PROVE Idle
  BY <1>6 DEF lookup, Idle, handle, history, file
<1>7. CASE force
  <2>1. Carries
    BY <1>0, <1>7, SameBlocksCarry DEF force, FlushTo, history
  <2> QED
    BY <1>7, <2>1 DEF force, Continues, history, Steps
<1>8. ASSUME NEW c \in 0..MaxLen, force_fails(c) PROVE Continues
  <2>1. Carries
    BY <1>0, <1>8, CutCarries, SizeAssumption DEF force_fails, CutAt
  <2> QED
    BY <1>8, <2>1 DEF force_fails, Continues
<1>9. CASE force_again
  BY <1>9 DEF force_again, Idle, handle, history, Steps
<1>10. CASE Destructor
  <2>1. CASE close_stream \/ destroy_unchanged \/ terminate_failed
    <3>1. Carries
      BY <1>0, <2>1, SameBlocksCarry
         DEF close_stream, destroy_unchanged, terminate_failed, FlushTo, gone, file
    <3> QED
      BY <2>1, <3>1 DEF close_stream, destroy_unchanged, terminate_failed, gone, Finishes, Steps
  <2>2. ASSUME NEW c \in 0..MaxLen, close_stream_fails(c) \/ destroy_failed(c) PROVE Finishes
    <3>1. Carries
      BY <1>0, <2>2, CutCarries, SameBlocksCarry DEF close_stream_fails, destroy_failed, CutAt, gone
    <3> QED
      BY <2>2, <3>1 DEF close_stream_fails, destroy_failed, gone, Finishes
  <2>3. ASSUME NEW n \in IndexSizes, NEW c \in 0..MaxLen, terminate_writing(n, c) PROVE Finishes
    <3> DEFINE f == WithBlock(blocks, len, IndexBlock(index, n))
    <3>1. \A m \in DOMAIN f : f[m].type = "marker" => m \in DOMAIN blocks /\ f[m] = blocks[m]
      BY DEF WithBlock, IndexBlock
    <3>2. blocks' = Prefix(f, c) /\ disk <= disk' /\ committed' = committed
      BY <1>0, <2>3, SizeAssumption DEF terminate_writing, gone
    <3> HIDE DEF f
    <3>3. Carries
      BY <3>1, <3>2, CutCarries
    <3> QED
      BY <2>3, <3>3 DEF terminate_writing, gone, Finishes
  <2> QED
    BY <1>10, <2>1, <2>2, <2>3 DEF Destructor, Steps
<1>11. ASSUME NEW c \in 0..MaxLen, crash(c) PROVE Finishes
  <2>1. Carries
    BY <1>0, <1>11, CutCarries DEF crash, CutAt, gone
  <2> QED
    BY <1>11, <2>1 DEF crash, gone, Finishes
<1> QED
  BY <1>1, <1>2, <1>3, <1>4, <1>5, <1>6, <1>7, <1>8, <1>9, <1>10, <1>11
     DEF Next, Writer, Steps

(***************************************************************************)
(* The rest of the invariant is inductive.                                  *)
(***************************************************************************)
LEMMA NewMarkers ==
    ASSUME IInv, RInv, IInv', Steps PROVE RInv'
<1>1. CASE Carries /\ (wstate' = "open" => wstate = "open")
  <2>1. MarkerKeys'
    BY <1>1 DEF Carries, RInv, MarkerKeys
  <2>2. MarkersOut'
    <3> SUFFICES ASSUME wstate' = "open", NEW m \in DOMAIN blocks', blocks'[m].type = "marker"
                 PROVE  EndOf(m)' <= disk'
      BY DEF MarkersOut
    <3>1. m \in DOMAIN blocks /\ blocks'[m] = blocks[m]
      BY <1>1 DEF Carries
    <3>2. EndOf(m) <= disk /\ EndOf(m)' = EndOf(m)
      BY <1>1, <3>1 DEF RInv, MarkersOut, EndOf
    <3>3. EndOf(m) \in Nat /\ disk \in Nat /\ disk' \in Nat /\ disk <= disk'
      BY <1>1, <3>1, Bounds, Positions DEF Carries, IInv, TypeOK, FileTypeOK
    <3> QED
      BY <3>2, <3>3
  <2> QED
    BY <2>1, <2>2 DEF RInv
<1>2. CASE Idle
  BY <1>2 DEF Idle, file, RInv, MarkerKeys, MarkersOut, EndOf
<1>3. ASSUME NEW r \in Realms, NEW kid \in KeyIds, NEW overwrite \in BOOLEAN,
             open_output_new(r, kid, overwrite)
      PROVE  RInv'
  BY <1>3, NoBlocksFacts DEF open_output_new, write_header, RInv, MarkerKeys, MarkersOut
<1>4. ASSUME NEW r \in Realms, NEW kid \in KeyIds, open_output_existing(r, kid) PROVE RInv'
  <2>1. \A m \in DOMAIN blocks : blocks[m].type = "marker" => EndOf(m) <= disk
    BY <1>4, AllOut DEF open_output_existing
  <2> QED
    BY <1>4, <2>1 DEF open_output_existing, file, RInv, MarkerKeys, MarkersOut, EndOf
<1>5. ASSUME NEW n \in IndexSizes, write_index(n) PROVE RInv'
  <2>1. /\ DOMAIN blocks' = DOMAIN blocks \cup {len, len + n}
        /\ blocks'[len] = IndexBlock(index, n)
        /\ blocks'[len + n] = index_position_marker(len, keyid)
        /\ \A p \in DOMAIN blocks : p < len => blocks'[p] = blocks[p]
    BY <1>5, WriteIndexBlocks, TypeParts DEF IInv
  <2>2. keyid \in KeyIds
    BY DEF IInv, TypeOK
  <2>3. MarkerKeys'
    BY <2>1, <2>2, Bounds DEF RInv, MarkerKeys, IndexBlock, index_position_marker
  <2> QED
    BY <1>5, <2>3 DEF write_index, RInv, MarkersOut
<1> QED
  BY <1>1, <1>2, <1>3, <1>4, <1>5 DEF Steps, Continues, Finishes, Drains, Puts

\* Before the first session there are no blocks.
LEMMA InitRInv == Init => RInv
BY NoBlocksFacts DEF Init, RInv, MarkerKeys, MarkersOut

\* Markers are on the device as soon as a session starts, and carry a key id that
\* some program uses.
THEOREM MarkersInvariance == Spec => []RInv
<1>1. IInv /\ RInv /\ IInv' /\ [Next]_vars => RInv'
  <2> SUFFICES ASSUME IInv, RInv, IInv', [Next]_vars PROVE RInv'
    OBVIOUS
  <2>1. CASE Next
    BY <2>1, Sorted, NewMarkers
  <2>2. CASE UNCHANGED vars
    BY <2>2, NewMarkers DEF vars, handle, history, Steps, Idle
  <2> QED
    BY <2>1, <2>2
<1> QED
  BY <1>1, InitRInv, Invariance, PTL DEF Spec

(***************************************************************************)
(* The refinement, step by step.                                            *)
(***************************************************************************)
\* A file that does not exist shows nothing.
LEMMA InitStore == Init => Store!Init
<1> SUFFICES ASSUME Init PROVE visible = Broken /\ draft = NoSession
  BY DEF Store!Init
<1>1. IInv /\ RInv
  BY InitIInv, InitRInv
<1>2. ~Ends
  BY NoBlocksFacts DEF Init, Ends
<1> QED
  BY <1>1, <1>2, VisibleIs DEF Init, draft

\* The draft is a map while there is a session.
LEMMA DraftIs ==
    ASSUME IInv
    PROVE  /\ wstate = "closed" => draft = NoSession
           /\ wstate \in {"open", "failed"} => draft = session /\ draft \in ValueMap
           /\ wstate = "closing" => draft = committed /\ draft \in ValueMap
           /\ wstate # "closed" => draft # NoSession
BY StoreAssumption DEF IInv, TypeOK, draft

LEMMA StoreStep ==
    ASSUME IInv, RInv, IInv', RInv', Steps
    PROVE  Store!Next \/ UNCHANGED <<visible, draft>>
<1>0. wstate \in {"closed", "open", "failed", "closing"} /\ wstate' \in {"closed", "open", "failed", "closing"}
  BY DEF IInv, TypeOK
<1>1. CASE Idle
  BY <1>1 DEF Idle, file, visible, draft, opens, stored_index, delayed_read, open_outcome,
              locate_index, read_marker, read_index, marker_pos, IsA, EndOf
<1>2. CASE Continues
  <2>1. draft' = draft /\ draft # NoSession
    BY <1>2, DraftIs DEF Continues, draft
  <2>2. visible' \in {visible, Broken}
    BY <1>2, CarriedVisible DEF Continues
  <2> QED
    BY <2>1, <2>2 DEF Store!Next, Store!Spoil
<1>3. CASE Finishes
  <2>1. draft' = NoSession /\ draft # NoSession
    BY <1>3, DraftIs DEF Finishes, draft
  <2>2. visible' \in {visible, Broken, draft}
    BY <1>3, CarriedVisible, DraftIs DEF Finishes
  <2> QED
    BY <2>1, <2>2 DEF Store!Next, Store!End
<1>4. CASE Drains
  <2>1. draft' = draft /\ draft # NoSession /\ draft = committed
    BY <1>4, DraftIs DEF Drains, draft, Carries
  <2>2. visible' \in {committed, Broken}
    BY <1>4, CarriedVisible DEF Drains
  <2> QED
    BY <2>1, <2>2 DEF Store!Next, Store!Spoil, Store!Commit
<1>5. ASSUME NEW k \in Keys, NEW v \in Values, Puts(k, v) PROVE Store!Next
  <2>1. draft' = [draft EXCEPT ![k] = v] /\ draft # NoSession
    BY <1>5, DraftIs DEF Puts, draft
  <2>2. visible' \in {visible, Broken}
    BY <1>5, CarriedVisible DEF Puts
  <2> QED
    BY <2>1, <2>2 DEF Store!Next, Store!Put
<1>6. ASSUME NEW r \in Realms, NEW kid \in KeyIds, NEW overwrite \in BOOLEAN,
             open_output_new(r, kid, overwrite)
      PROVE  Store!Next
  <2>1. draft = NoSession /\ draft' = [k \in Keys |-> NoValue]
    BY <1>6 DEF open_output_new, draft, EmptyMap
  <2>2. ~Ends'
    BY <1>6, NoBlocksFacts DEF open_output_new, write_header, Ends
  <2>3. visible' = Broken
    BY <2>2, VisibleNext
  <2> QED
    BY <2>1, <2>3 DEF Store!Next, Store!Create
<1>7. ASSUME NEW r \in Realms, NEW kid \in KeyIds, open_output_existing(r, kid)
      PROVE  Store!Next
  <2>1. opens
    BY <1>7 DEF open_output_existing, opens
  <2>2. visible = committed /\ visible # Broken
    BY <2>1, OpensIffEnds, VisibleIs, StoreAssumption
  <2>3. visible' = visible
    BY <1>7 DEF open_output_existing, file, visible, opens, stored_index, delayed_read,
                open_outcome, locate_index, read_marker, read_index, marker_pos, IsA, EndOf
  <2>4. draft = NoSession /\ draft' = committed
    BY <1>7 DEF open_output_existing, draft
  <2> QED
    BY <2>2, <2>3, <2>4 DEF Store!Next, Store!Begin
<1>8. ASSUME NEW n \in IndexSizes, write_index(n) PROVE Store!Next
  <2>1. draft' = draft /\ draft # NoSession
    BY <1>8, DraftIs DEF write_index, draft
  <2>2. ~Ends'
    <3>1. /\ DOMAIN blocks' = DOMAIN blocks \cup {len, len + n}
          /\ blocks'[len] = IndexBlock(index, n)
          /\ blocks'[len + n] = index_position_marker(len, keyid)
          /\ \A p \in DOMAIN blocks : p < len => blocks'[p] = blocks[p]
      BY <1>8, WriteIndexBlocks, TypeParts DEF IInv
    <3>2. \A m \in DOMAIN blocks : blocks[m].type = "marker" => EndOf(m) # len
      BY <1>8 DEF write_index, IInv, SessionInv, TailChanged
    <3>3. n \in Nat \ {0} /\ len \in Nat /\ MarkerSize \in Nat \ {0} /\ disk' = len
      BY <1>8, Bounds, SizeAssumption DEF write_index
    <3>4. ASSUME NEW m \in DOMAIN blocks', blocks'[m].type = "marker", EndOf(m)' = disk'
          PROVE  FALSE
      <4>1. CASE m \in DOMAIN blocks
        BY <3>1, <3>2, <3>3, <3>4, <4>1, Bounds DEF EndOf
      <4>2. CASE m = len
        BY <3>1, <3>4, <4>2 DEF IndexBlock
      <4>3. CASE m = len + n
        BY <3>1, <3>3, <3>4, <4>3 DEF index_position_marker, EndOf
      <4> QED
        BY <3>1, <4>1, <4>2, <4>3
    <3> QED
      BY <3>4 DEF Ends
  <2>3. visible' = Broken
    BY <2>2, VisibleNext
  <2> QED
    BY <2>1, <2>3 DEF Store!Next, Store!Spoil
<1> QED
  BY <1>1, <1>2, <1>3, <1>4, <1>5, <1>6, <1>7, <1>8 DEF Steps

\* The file implements the store: opening it shows one session's complete map, the
\* next session's complete map or nothing, whatever is lost, torn or cut off in
\* inserting, writing the index and destroying handles.
THEOREM Refinement == Spec => ImplementsStore
<1>1. IInv /\ RInv /\ IInv' /\ RInv' /\ [Next]_vars => [Store!Next]_<<visible, draft>>
  <2> SUFFICES ASSUME IInv, RInv, IInv', RInv', [Next]_vars
               PROVE  Store!Next \/ UNCHANGED <<visible, draft>>
    OBVIOUS
  <2>1. CASE Next
    BY <2>1, Sorted, StoreStep
  <2>2. CASE UNCHANGED vars
    BY <2>2, StoreStep DEF vars, handle, history, Steps, Idle
  <2> QED
    BY <2>1, <2>2
<1> QED
  BY <1>1, InitStore, Invariance, MarkersInvariance, PTL DEF Spec, ImplementsStore, Store!Spec
===============================================================================
