# Bamboo Shoot 3 in TLA+

Bamboo Shoot 3 stores C++ objects in files. This directory holds TLA+ models of
its stateful parts, the TLC runs that check them, and TLAPS proofs. Paths below
are relative to the repository unless they name a module.

## Inventory

| part | where | state | operations | hard because |
|---|---|---|---|---|
| indexed files | `include/bs3/pbsf/indexed-file.hh` | the stream, the index (key to offset), `need_write_index`; on the device, blocks, index and marker | open for output (new, existing), `insert`, lookup, lazy read, destruction; open for input | everything is published by a destructor; crashes and failed writes in between; readers in other programs; offsets captured and used later |
| handles and iterators of indexed files | the same, and `utils/lazy-value.hh` | which handle has the stream and the index; each iterator's position and the pair it holds | move, iteration both ways, `find`, `lower_bound`, `upper_bound`, `as` | keys inserted under an iterator, a handle moved under it, a block decoded through copies |
| sequential files | `include/bs3/pbsf/range-api.hh`, `data-block.hh`, `parse_iterator` in `pbss/pbss.hh` | a shared stream, iterators holding a block read ahead and its decoded value | open, `read_one_type`, `write_iterator`, `++`, `*`, copying iterators | several ranges on one stream; errors in the middle of skipping; torn files that are appended to |
| block format | `pbsf/defs.hh`, `file-header.hh`, `realm.hh`, `data-block.hh` | none | header check, `write_block`, `lookup_id` | blocks have no end marks |
| block encodings | `src/pbsf/data-block.cc`, `crc-32.cc`, `lzo-wrap.cc`, `zstd-wrap.cc` | the preferred encoding, read from the environment once | `encode_block`, `decode_block`, `crc32c` | the fallback to identity at equal sizes, sizes converted between `int`, `unsigned` and `size_t`, content moved out by decoding, chunked checksums |
| serialization | `include/bs3/pbss/` | none | `serialize`, `parse`, the size functions, for integers, containers, tuples and tagged structs | sizes must agree with what is written; versions of a struct with different members |
| optional | `utils/optional.hh` | a flag and a union | construction, assignment, `emplace`, `swap`, comparisons | a `T` whose constructors and assignments throw |
| ranges and iterators | `utils/iter-util.hh`, `range-util.hh`, `range.hh` | positions, a cached value, a function object, in each iterator | `map`, `map_skipping`, `map_ephemeral`, `filter`, `zip`, `map_indexed`, `reduce`, writers | values cached in iterators, copies of iterators and writers, ends that are not in step, wrapping integers |
| `pbsic` | `util/pbsic/pbsic.pl` | none | generates declarations | |

The library starts no threads. What runs concurrently are programs that open the
same file, each through its own `std::fstream` with its own buffer; what fails
are the program (a crash) and the device (a write that is refused). The parts
call each other downwards: files use blocks, blocks use encodings and
serialization, and sequential files are built from the iterator adaptors.

What makes each part correct:

* indexed files: a file that opens shows one session's complete map, never a
  mixture; what a session inserted is there after a clean end; handles and lazy
  values keep meaning what they meant when they were obtained; files are only
  ever appended to.
* sequential files: a range yields blocks that were written, of its type, and
  does not end before the file does.
* encodings and serialization: decoding inverts encoding; a size function returns
  the length of the serialization; a reader of one version understands a writer
  of another.
* iterators and pairs: iterating misses no key, a pair gives what its key had,
  moving a handle loses nothing.
* utilities: an optional's flag tells the truth whatever throws; an adaptor gives
  what is left of its range, once and in order; writers deliver without gaps;
  zipped ranges are read in step.

## Modules

| module | models |
|---|---|
| `BlockFile` | the file, its blocks and the write buffer |
| `IndexedFile` | output and input handles of an indexed file, on top of `BlockFile` |
| `IndexedStore` | what an indexed file promises, without bytes |
| `IndexedFileProofs` | the theorems about `IndexedFile`, and that it implements `IndexedStore` |
| `SequentialFile` | output handle, input handle and iterators of a sequential file |
| `SequentialFileProofs` | the theorems about `SequentialFile` |
| `VarUint` | integers of variable length: writing, reading, sizes |
| `Serializer` | on top of `VarUint`: types and values, sizes, writing them into a buffer |
| `SerializerProofs` | the theorems about `VarUint` and `Serializer` |
| `Serialization` | on top of `Serializer`: reading values with another version of their type |
| `IndexIteration` | the container interface of an indexed output file: moving the handle, iterators, pairs |
| `IndexIterationProofs` | the theorems about `IndexIteration` |
| `BlockCodec` | encoding and decoding the content of a block |
| `Crc32c` | both implementations of the checksum, loop by loop |
| `BlockCodecProofs` | the theorems about `BlockCodec` and `Crc32c` |
| `Optional` | `pbsu::optional` and its holder |
| `OptionalProofs` | the theorems about `Optional` |
| `RangeAdaptors` | mapping, skipping, ephemeral and filtering iterators; `copy`, `reduce` |
| `OutputIterators` | transforming, filtering, multiplexing and spreading writers |
| `ZipRanges` | `zip`, `map_indexed`, `integral_iterator`, ranges of integers |
| `RangeProofs` | the theorems about `RangeAdaptors` and `ZipRanges` |
| `NaturalRecursion` | lemmas: induction over the natural numbers, and what it says of recursive functions |
| `MCIndexedFile`, `MCIndexIteration`, `MCSequentialFile`, `MCSerialization`, `MCZipRanges` | instances for TLC (symmetry sets, types and values) |
| `MCBlockCodec` | `BlockCodec` and `Crc32c` side by side: a checksum is computed, then blocks are encoded if it was one of an empty buffer |
| `MCUtilities` | `Optional`, `RangeAdaptors` and `OutputIterators` side by side; a behaviour uses one of them |

### BlockFile and IndexedFile

A block is a record (kind, value, index, position, size) at a byte offset. Its
bytes are not modelled: a block is only ever read through the offset it starts
at. The assumption this makes is that bytes between two block starts never parse
as a marker or an index with a matching checksum.

`len` is the end of the file as the writing stream sees it, `disk` how much has
left the stream's buffer. Bytes leave it in order, at any time (`overflow`), and
always before a seek, so `insert` sets `disk` to the old end. A crash or a failed
write leaves any prefix between the two, cut at any byte.

| action | code |
|---|---|
| `open_output_new`, `open_output_existing`, `open_output_error` | `open_indexed_output_file`; `open_outcome` is `check_file` and `read_current_index` with their checks in order |
| `insert`, `insert_fails` | `indexed_ofile::insert`; the exception leaves index and flag alone and the stream failed |
| `lookup`, `force`, `force_fails`, `force_again` | `operator[]`, then dereferencing the `lazy_value` |
| `write_index`, `close_stream`, `close_stream_fails`, `destroy_unchanged`, `destroy_failed`, `terminate_failed`, `terminate_writing` | the destructor of the handle, then of its stream. Writing throws out of a `noexcept` destructor (`terminate`); the final flush by `~filebuf` drops its error (`lost`) |
| `crash` | the program dies with bytes in its buffer |
| `open_input`, `open_input_index` and their errors | `open_indexed_input_file`, in two steps, between which a writer may run |
| `read_entry` and its errors, `read_missing`, `close_input` | lookup and lazy read through an input handle |

`session`, `committed` and `published`, and the fields `expect`, `snap`, `stale`,
are history: no guard reads them. `result` is the outcome of the last call.
Iterating a handle's map is in `IndexIteration`. There is one output handle at a
time: the code does nothing to coordinate two, and nothing in the repository says
what should happen.

### IndexIteration

Bytes are left to `IndexedFile`: a block is its value and its offset its number.
A handle is alive or not, has the stream or not, and has `need_write_index` and
its index. `Move` is the defaulted move constructor: the flag is copied, stream
and index go. The nodes of a `std::map` move with it, so iterators follow, but an
iterator at the end of the old map is lost. `Destroy` is the destructor; a null
stream that it uses sets `crashed`. `Placed` has one case for each of `begin`,
`rbegin`, `lower_bound`, `upper_bound` and `find`. `Increment`, `Decrement`,
`Deref` and `Copy` are the operators of `iter`; dereferencing makes the pair anew,
with a `lazy_value` that has read nothing. `As` forces it and calls `as`, which
checks the type first and then decodes, taking the content of an uncompressed
block away. `due`, `want` and `used` are history: the keys an iterator has still
to pass, what its pair had to give, and whether it has been given.

Three things a reader of this module may want to know. What a reverse iterator
stands on changes when a key is inserted just below the position it keeps, as
with any `std::reverse_iterator`. The value of an uncompressed block can be taken
by `as` once (`doc/pbsf.md:132` says so of the pair). And `write_iterator` keeps a
pointer to its handle, which does not follow a move; writing through it after one
is not modelled.

### SequentialFile

The file is a sequence of items: the header, whole blocks known by their type,
and `"torn"`, what a crash left of a block. Opening for append looks at the header
only, so blocks can follow a torn piece; a reader that reads across one has lost
its place (`sync`) and parses blocks nobody wrote, of any type and length, whose
checksum does not match when they are decoded. The stream keeps `eofbit` and
`failbit`, and throws on every later read (`rstate`).

An iterator is `mapping_iterator` over `filtering_iterator` over
`parse_iterator`. `read_one_type` and `increment` start advancing it;
`parse_block`, `parse_end` and `parse_fails` are one `parse_iterator::operator++`
each, so that the writer can run between two of them; `dereference` decodes,
which moves the content out of a block stored uncompressed. Iterators can be
copied at any time, as `begin()` and `it++` do.

Left out here: overwriting a file somebody is reading (`IndexedFile` has it),
reading through an output handle, and the overloads on a stream the caller owns,
which differ only in who opens it.

### Serializer and Serialization

A type is a record of its kind and parts, a value a number, a sequence or a
function from tags to values. `serialize`, `aot_size`, `fixed_size` and `parse`
are functions over them, named and split as in the code; templates selected by
`SFINAE` become the cases of a `CASE`. The types of a program (`Types`, each with
the types it is made of, which are nested less deep: `Depth`), the values of each
(`Values`) and the order of the elements in a container that has one (`Order`) are
parameters. `Serializer` writes: `aot_size` and `serialize` are recursive functions
of an object, which is a type and a value of it, in terms of the objects it is made
of (`Inner`). `Serialization` adds the parsers. Bytes are real: `serialize` returns the
sequence of them, scaled down together with the 7 bits of payload of a variable
length integer (`Radix`). The integers have a module of their own, `VarUint`: the
loops of the code are recursive functions there, and what does not fit into
`size_t` is lost as the code loses it. Kinds are primitives, integers of variable length,
sequences, sets (which order their elements and drop equal ones), tuples and
structs. Field headers are built as the compiler builds them, packed into words
of `PackWidth` bytes (`static_vuint_serialization`, `string_constant`). A parse returns a value and a position; position 0 is
`early_eof_error`. A position past the end is kept, as `char_range_reader` keeps
it, and only noticed by the next read.

A behaviour is one transfer: `serialize_to_buffer` by the writer's version, into a
buffer of `capacity` bytes, possibly `truncate` (`WriterSpec`, which is all that
`Serializer` knows), then `parse_from_buffer` by the reader's. `Project` is the
reference definition: the members both versions know, and defaults for the rest.
A length of 2^63 or more, which only misread input contains, is a number like
others here; the code converts it to a negative offset or throws.

### BlockCodec and Crc32c

A buffer is its size and what its bytes are: raw data, a compressed form of it
behind the size its wrapper wrote, or neither. The compressors are external, and
choose the size of what they return; the wrappers are translated with each
conversion between `int`, `unsigned` and `size_t`, for which `UnsignedRange`
stands for 2^32. `Encode` reads the environment the first time it needs to,
`Decode` moves the content out of an uncompressed block, `Alter` is a file whose
bytes changed, `ReadForeign` a block of a newer program.

`Crc32c` follows `crc32c_sse` (`HeadBytes`, `AlignedWords`, `TailBytes`) and
`crc32c_generic` (`Generic`, with the table of the source) byte by byte. A word is
the set of its bits that are 1: exclusive or is then the symmetric difference of
`FiniteSetsExt`, and a shift subtracts from each element. The table is written as in
the source, a pair of halves for each entry, as TLC's integers have 32 bits with a
sign. The reference is division by the polynomial, bit by bit; the processor's
instructions are taken to do that, one byte or eight at a time. `TableAssumption`
says that each of the 256 entries of the table is the division of its index. It has
no parameters: it is a fact about the source, which TLC decides in every run of
`codec` and the proofs start from.

### Optional

An object has its flag, whether it is alive, and the cell of its union, which is
followed apart from the flag: constructing over a live `T` or destroying one that
is not there leaves it `Broken`. Every operation is an action with its outcomes:
done, or thrown out of `T`, which may leave a target of an assignment in any state
and a source moved from or not. `vsNullopt`, `vsOptional` and `vsValue` are the
comparison operators, in both orders of the operands.

### RangeAdaptors, OutputIterators, ZipRanges

`RangeAdaptors`: iterators over one container, made, copied, read and advanced by
a program in any order. Each has a position, the value it caches, and `fn`, the
elements its own copy of the function was applied to. A predicate may throw in the
middle of a stretch of rejected elements (`IncrementThrows`); the iterator is then
not used again, and the properties say where it stands: before the end, on the first
element the predicate has not answered for, with no accepted one missed. A mapper
that throws leaves its iterator as it was.

`OutputIterators`: a writer is a tree that holds its inner writers by value; each
class's assignment and increment is an operator. A program writes to one writer,
with `*w = v; ++w` or with `*w++ = v`, lvalues or rvalues. `Flow` is the reference:
the list each buffer ought to get. The functions of `transformed_writer` take their
argument by reference to const.

`ZipRanges`: a zip iterator is one position for each range, and at its end when
they all are at theirs. `index` and `fromEnd` are what the user of an iterator knows:
how many tuples from the beginning it is, and whether it came back from the end.
Integers have `2 * Half` values, and differences are
signed of the same width; in a debug build the conversions between the two throw.

## Runs

| run | checks | bounds |
|---|---|---|
| `sessions` | `TypeOK`, `ReadYourWrites`, `LazySnapshot`, `OpenSound`, `Durable`, `ReaderSnapshot`, `OneKeyType`, `AppendOnly` | one key, two values, two realms, two key types, one input handle; data blocks and the marker have two bytes, so that cuts fall inside and between blocks; 11 bytes hold two complete sessions |
| `store` | `Publication` (liveness), `ImplementsStore` (refinement) | two keys, two values, 11 bytes; no symmetry |
| `sequential_contents` | `SequentialSameContents`, violated | |
| `ranges` | `TypeOK`, `NothingInvented`, `OwnType`, `EndMeansAll` | two types, two realms, two iterators, a header and four blocks |
| `ranges_thrown` | `OwnTypeAlways`, violated | one iterator |
| `compatibility` | `TypeOK`, `SizeExact`, `Compatible`, `OptimisticAgrees`, `PrefixFails` | five families of types, all pairs of versions in each; values at the limits of bytes and lengths |
| `nested_growth` | `CompatibleAlways`, violated | the same |
| `iteration` | `TypeOK`, `Complete`, `ReadsRight`, `NothingLost` | three keys, two values of different types, two handles, two iterators, two blocks |
| `handle_move` | `WritesToItsFile`, violated | two handles |
| `codec` | `TypeOK`, `RoundTrip`, `NeverWrong`, `MarkerKept`, `ChecksumOfPrefix`, `InsideBuffer`, `ComesToEnd` (liveness) | encodings: every size up to `UnsignedRange` = 16 and beyond it, every encoding and environment; checksums: every alignment, lengths 0 to 18 (`MaxCount`), which are two words and the bytes on both sides, two contents |
| `utilities` | `FlagMatchesCell`, `CompareAgrees`, `Contract`, `RestIsGiven`, `InOrderOnce`, `Delivered` | see below |
| `zips` | `TypeOK`, `InStep`, `ComparesAsIndex`, `WrapsBack` | zips of two and three ranges of equal and unequal lengths, an empty one, and `map_indexed`, with integers of 4 bits, in a debug build; the proofs hold without, too |

Sizes are scaled down (a header of 1 byte, a marker of 2); the properties do not
depend on them, and the proofs hold for any. `MaxLen` and `MaxItems` are the
capacity of the device, and bound the runs. They are large enough for a session
to be published, and for another to build on it and be cut at every byte. Values
and keys are interchangeable in the code, so runs of invariants use symmetry.

For serialization, a byte has 4 bits (`Radix` 8), `size_t` 8 (`UIntLimit` 256: the
last byte of its longest encoding is only partly used, as with 64 bits), and
structs of more than one member are parsed optimistically (`Threshold` 1, 8 in the
code). Lengths then take a second byte from 8 on, so that small types lie on both
sides of the limit. The families are: every selection and order of three members;
nested structs, alone and in containers; containers and tuples; sets of structs;
nested structs of fixed size.

In `utilities`, three optionals of a type with three values, with throwing; two
iterators over five elements, of which two apart from each other are accepted, so
that rejected ones begin, separate and end the container; writers nested up to
four deep and four writes. The parts share no state, so a behaviour uses one of
them and leaves the others alone.

In `codec`, `FrameAssumption` says what the code relies on: a compressed marker,
with the size its wrapper writes, is longer than the marker itself (10 bytes).
Values of 2^32 - 1 bytes less the error codes of zstd and more are outside
`RoundTrip` (`Representable`), see below.

Fairness: `FairSpec` asks only that the destructor of a handle eventually runs
and goes on to its end (`WF_vars(Destructor)`): a handle is destroyed when its
scope is left. Nothing is assumed of inserts, flushes or readers, and a crash, a
termination or a failed device may still come first; `Publication` names these
outcomes. For `Crc32c`, `WF(Checksum)` in `MCBlockCodec` says that a call that has
begun runs to its end: it is sequential code that waits for nothing, and what is
in question is that its loops, which stop on equality of addresses, meet their
ends.

What the runs show, beyond the proofs: `Publication` says that no insert is
forgotten silently except in the one case the code cannot see, an error in the
final flush. `ImplementsStore` says that the visible contents of a file jump from
one complete map to the next. A file can also become unreadable: from the first
bytes of a session until its end the last marker is not at the end of the file,
so a crash in a session costs the whole index, not just the session
(`IndexedStore`'s `Spoil`).

`Complete` and `NothingLost` say that inserting and moving under iterators is safe;
`ReadsRight` that a wrong `as` spoils nothing. `RoundTrip` covers sizes whose `int`
is negative: the conversions cancel out. `FlagMatchesCell` and `Contract` hold
although every constructor and assignment may throw. `Delivered`, `RestIsGiven`,
`InStep` and `ComparesAsIndex` hold with the exceptions they name, which are the
code's and are listed below: they are as narrow as the behaviour that forces them,
an output, the first value of a `reduce`, a pair of iterators.

### Findings

* `sequential_contents`: `doc/pbsf.md:96` says "All indexed files can be used as
  sequential files with the same contents (but without keys, of course)". After a
  key has been inserted twice, a sequential reader also meets the superseded
  block.
* `ranges_thrown`: `doc/pbsf.md:87` says that `read_one_type` will "read values of
  `Type` from the file, skipping mismatched types". When `++` skips a block of
  another type and then throws because the file is cut short, the iterator holds
  the skipped block, and dereferencing it decodes that block as `Type`.
* `nested_growth`: `doc/serialization.md:12` promises "forward/backward compatibility
  for custom structs". A reader drops as many bytes for the length of a member of
  fixed size as its own version of the member needs. When the member is a nested
  struct with fixed members only, and versions lie on the two sides of 127 bytes,
  each misreads the other. `Compatible` holds where these widths agree
  (`LengthsAgree`), whatever else has changed.
* `handle_move`: `indexed-file.hh:133` says that the index is "needed if file is
  new, or changed". The moved-from handle keeps `need_write_index`, and its
  destructor writes through the stream it no longer has.

### Exceptions the properties name

Behaviours met while modelling, where a property holds only because it leaves
them out:

* `optional::swap` (`optional.hh:321`): when only this side holds a value, the
  other is constructed from the optional, not from its value. For a `T` that can
  be made of an optional, such as `bool`, the other gets the result of that
  (`FromOptional`); for most it does not compile. `Contract` speaks of the values
  in the other cases.
* `*i++` over `map` (`iter-util.hh:294`): the copy is made before the value is
  cached, so the function is applied twice, once in each copy. `InOrderOnce` says
  of each copy that it applies its function once.
* `reduce` without an initial value (`range-util.hh:384`) takes a reference to the
  first value, advances the iterator, and then moves from the reference. Over
  `map` the value is gone by then; over a container the element is moved away, and
  the next `reduce` finds it so. `FoldsRest`, in `RestIsGiven`, says that no other
  value is affected.
* `multiplex_writer` (`iter-util.hh:130`) forwards one rvalue to all its outputs:
  the first that keeps it leaves the others a value that was moved from. `Delivered`
  says nothing of those others (`Deprived`).
* `*w++ = v` over a `filtering_writer` over a pointer (`iter-util.hh:93`) assigns
  through a copy, which alone knows the new position. `Delivered` says that such a
  pointer has the last value only (`Stuck`).
* `--` from the end of a zip (`range-util.hh:219`) starts from the ends of all the
  ranges, which are not in step if their lengths differ. The iterator then stands at
  one distance from all the ends, and not on one element of each range (`InStep`).
  Compared with one that came from the beginning it can be less, equal or greater
  whatever their indices are, and `ComparesAsIndex` says nothing of the two.
* The distance of two zip iterators (`range-util.hh:285`) is that in the first range.
  Up to the end, or an iterator that came back from it, and for the size of a
  zip, it is the number of tuples only if the first range is the shortest (the other
  exception of `ComparesAsIndex`).
* `zstd_compress` (`zstd-wrap.cc:36`) takes the code of a failed compression for a
  size. It is larger than the data, and so the data is kept as it is, unless the
  data is about as long as 2^32 bytes or longer (`Representable`).

## Proofs

| module | theorem | says |
|---|---|---|
| `IndexedFileProofs` | `TypeCorrect` | `Spec => []TypeOK` |
| | `Invariance` | `Spec => []IInv` |
| | `CrashSafety` | `Spec => []OpenSound` |
| | `Durability` | `Spec => []Durable` |
| | `OwnInserts` | `Spec => []ReadYourWrites` |
| | `LazyValuesKeep` | `Spec => []LazySnapshot` |
| | `ReadersKeep` | `Spec => []ReaderSnapshot` |
| | `KeyTypeKept` | `Spec => []OneKeyType` |
| | `AppendingOnly` | `Spec => AppendOnly` |
| | `MarkersInvariance` | `Spec => []RInv` |
| | `Refinement` | `Spec => ImplementsStore` |
| `SequentialFileProofs` | `RangesInvariance` | `Spec => []IInv` |
| | `RangesTyped` | `Spec => []TypeOK` |
| | `ValuesWereWritten` | `Spec => []NothingInvented` |
| | `ValuesHaveTheType` | `Spec => []OwnType` |
| | `EndsComplete` | `Spec => []EndMeansAll` |
| `IndexIterationProofs` | `IterationInvariance` | `Spec => []IInv` |
| | `IterationTyped` | `Spec => []TypeOK` |
| | `IteratesAll` | `Spec => []Complete` |
| | `ReadsTheRightValue` | `Spec => []ReadsRight` |
| | `MovesLoseNothing` | `Spec => []NothingLost`, which speaks of programs that have not crashed |
| `BlockCodecProofs` | `CodecInvariance` | `Spec => []IInv` |
| | `CodecTyped` | `Spec => []TypeOK` |
| | `BlocksRoundTrip` | `Spec => []RoundTrip` |
| | `DecodingNeverWrong` | `Spec => []NeverWrong` |
| | `MarkerStored` | `Spec => []MarkerKept` |
| | `ChecksumInvariance` | `ChecksumSpec => []ChecksumInv` |
| | `ChecksumsAgree` | `ChecksumSpec => []ChecksumOfPrefix` |
| | `ReadsInside` | `ChecksumSpec => []InsideBuffer` |
| | `ChecksumWhole` | `ChecksumSpec => []ReturnsWhole`: what is returned is the checksum of the whole buffer |
| `SerializerProofs` | `SizeIsLength` | `aot_vuint_size(n)` and `static_vuint_size(n)` are `Len(write_var_uint(n))` |
| | `StaticSame` | `static_vuint_serialization(n) = write_var_uint(n)` |
| | `ReadsBack` | reading `before \o write_var_uint(n) \o after` behind `before` gives `n`, and ends before `after` |
| | `CutFails` | reading `before` and a part of `write_var_uint(n)` gives `Eof` |
| | `ConstantSame` | `string_constant[chars] = chars` |
| | `AotSizeIsLength` | `serialize[x]` are bytes, `aot_size[x]` of them, for every object |
| | `WriterTypeOK` | `WriterSpec => []TypeOK` |
| | `WriterSizeExact` | `WriterSpec => []SizeExact` |
| `OptionalProofs` | `SoundAlways` | `Spec => []IInv` |
| | `FlagTruth` | `Spec => [](TypeOK /\ FlagMatchesCell)` |
| | `ContractKept` | `Spec => Contract` |
| | `ComparisonsAgree` | `Spec => []CompareAgrees` |
| `RangeProofs` | `ZipInvariance` | `Spec => []ZipInv` |
| | `ZipTyped` | `Spec => []TypeOK` |
| | `ZipsInStep` | `Spec => []InStep` |
| | `ZipsCompare` | `Spec => []ComparesAsIndex` |
| | `IntegersWrapBack` | `Spec => []WrapsBack` |
| | `AdaptorsInvariance` | `AdaptorsSpec => []AdaptorsInv` |
| | `AdaptorsGiveRest` | `AdaptorsSpec => []RestIsGiven` |
| | `AppliedInOrder` | `AdaptorsSpec => []InOrderOnce` |

In each module `IInv` is the inductive invariant (`RInv` for the refinement,
`ZipInv`, `AdaptorsInv`, `ChecksumInv`); the induction has a lemma for each action,
or for each kind of step. TLC checked each of them on the instance its module is run
with, before the proofs relied on it. The theorems about `Crc32c`, `RangeAdaptors` and
`Serializer` are about these components alone (`ChecksumSpec`, `AdaptorsSpec`,
`WriterSpec`), whose variables nothing else in `MCBlockCodec`, `MCUtilities` and
`Serialization` changes.

### Recursion

A loop of the code is a recursive function here, and a recursive function is
`CHOOSE f : f = [...]`: before anything can be said of it, such an `f` has to exist.
The library's theorems for that take an operator as a parameter, which the provers
cannot instantiate. `NaturalRecursion` has the same with a set in the place of the
property (`AllOf`: a set of natural numbers with 0 and every successor is all of
them, from the least element outside it) and a function in the place of the
operator (`Iterated`, and `IteratedEach` where the number of the step matters;
`Descending` where a value comes from that of any smaller number). The prefixes of
what is sought exist by induction, agree where they overlap, and are put together.
`Steps` is the same for a loop of known length. `DepthRecursion` is for functions on
any set whose members have a depth, in terms of members that are less deep
(`LooksDown`): depth by depth, the function is extended to what is that deep.

### Indexed files

For any keys, values, realms, key types, readers and block sizes, from
`SizeAssumption` (sizes are positive) and `ValueAssumption`.

`OpenSound` speaks about the marker at the end of the device, and the end moves:
a crash can make any byte between `disk` and `len` the end. So `IInv` says it of
every marker that a cut could expose (`CutSound`: each marker that ends at or
after `disk` points at an index that describes `committed`), that a session with
blocks in the buffer has noted that it must write an index (`TailChanged`), that
nothing is buffered once the stream is closed or has failed (`NothingBuffered`),
and that a published index has its marker at the very end with the handle's key
id (`PublishedInv`). `Layout` (blocks lie between the header and the end) makes
appends disjoint from what is there. The induction has one lemma for each kind of
step: appending, writing the index, ending by a cut (all failures and crashes are
one case, `Stops`), flushing, and steps that leave the file alone. Readers are
covered by one fact: what is on the device is kept (`Keeps`), so what an index
describes stays described (`DescribesKept`).

### The refinement

`Store` is `IndexedStore` with `visible`, what opening the file would show, for
its contents, and `draft`, the map of the open session. `visible`
is computed from the bytes: `open_outcome`, then the index, then every block it
points at. The proof first gets rid of all that: under `IInv`, `visible` is
`committed` if a marker ends exactly at `disk`, and `Broken` if none does
(`VisibleIs`). What is left is how the end of the device moves relative to the
markers, for which `RInv` is needed: while a session is open, every marker is
already on the device (`MarkersOut`). A step of an open session can therefore only
hide a marker by appending behind it (the store's `Spoil`), and never bring an old
one back. Steps are sorted first by what they do to the file (`Sorted`), and each
sort is mapped to a step of the store or a stutter (`StoreStep`). The store commits
at the byte that completes the marker on the device, whether a full buffer or the
destructor of the stream puts it there. `StoreAssumption` says that the two names
of the abstract states, `Broken` and `NoSession`, are no maps.

### Sequential files

For any types, realms, iterators and length of the file, from `NameAssumption`
(names of types are not those of the other items). Two facts carry the proof.
`Keeps`: while somebody reads, writers leave the items that are out alone, and
once a piece of the next item is out there is more to come; so what a reader has
passed stays what it was. `PlaceInv`: a reader in its place (`sync`) has offered or
skipped every block up to `pos`; one that has lost it has passed a torn piece with
something after it, and offered or skipped every block before that piece. From the
first follows that what an iterator holds remains a block that was written, from
both that an end is honest (`EndOf`). `Sound(i)` lists the states of an iterator;
it says why `OwnType` needs its exception: an iterator has a block of another type
while it is being advanced, and keeps it when the advance throws.

### Iterating indexed files

For any handles, iterators, number of blocks, values (numbers) and keys (positive
numbers with a greatest one), from `IterationAssumption`. `OwnerInv`: one
handle at most has the stream, and its index is what was inserted; with no such
handle, the file has it; and a handle whose entries are not in the file knows.
That makes a move harmless, although it copies the flag. `StandInv`: an iterator
belongs to the handle that has the stream, and the keys it has still to pass are in
the map and on the right side of where it stands, which inserts keep, as they
remove nothing. `PairInv`: the block a pair points at is the value the key had at
the dereference, and blocks are never changed. The first and last keys of the map
exist because the order of the numbers is well-founded (`MinOf`, `MaxOf`).

### Block encodings

For any width of the integers, sizes of the headers, values and environments, and
whatever sizes the compressors choose, from `CodecAssumption` and, for `MarkerKept`,
`FrameAssumption`. `BlockInv` says that a whole block is what `encode_block` made of
the data: raw, a form that is no longer than the data, or what a failed zstd left
behind; and that a block in a known encoding whose bytes have changed differs from
its checksum. The lemma about conversions is `ThroughInt`: a size that fits
`unsigned` survives `int` and back, and is no smaller as a `size_t` when the `int`
was negative.

### Optional

For any set of optionals, any values of `T` (natural numbers, so that they are
ordered), any value left by a move or made of an optional, and with or without
throwing, from `ValuesAssumption`. Here `IInv` is `TypeOK` and `FlagMatchesCell`
put together as a set of sound records, so that each operation of the holder is
shown once to lead from sound records to sound ones; there is one lemma for each
operation, which gives the invariant and the contract of the step together.

### Zips and integers

For any number and lengths of ranges, any iterators, integers with any even number
of values, with and without `NDEBUG`, from `ZipAssumption`. `ZipInv` is `InStep` with
the types: the `Place` of an index, measured from the beginning or from the ends, is
within every range (`PlaceIs`), moving forward and back leads from place to place
(`PlusIs`, `MinusIs`), and the shortest range, which has as many elements as there
are tuples, is used up exactly at the end. Two places measured alike, or one of
which is the end, compare in every range as their indices (`ComparesPair`).
`WrapsIs` is arithmetic modulo the width.

### Iterator adaptors

For any number of elements, any predicate, iterators and kinds, from
`AdaptorsAssumption`. `AdaptorsInv` says of each iterator that has not thrown what its
position, its cached value and the list of applications have to do with each other
(`SoundMap`, `SoundSkip`, `SoundFilter`), and of one that has, where it stands
(`Stopped`). `RestIsGiven` and `InOrderOnce` speak of
what the loops of `copy` and `reduce` would come to from here. `Loop` repeats
`Round` until the position is the end; with `Iterated` it is a sequence of states,
each a sound iterator further on, and what has been written so far together with
what is left is the same after each (`Lists`). The elements that a filter accepts
are found by their least position, as in `forward_skip`. `reduce` without an initial
value reads one element before its loop; that this is the first of what `copy`
reads follows from the fact that a set is listed in one way (`ListedOnce`).

### Checksums

For any content, start and length, from `ChecksumAssumption` and `TableAssumption`.
The division of a word by the polynomial is linear: dividing the exclusive or of two
words gives the exclusive or of what dividing them gives (`DivideBit` to
`DivideByte`). A word is its low byte and the rest; the rest is only shifted out,
and the low byte is what the table knows. So a step of the table is a step of the
division (`TableStep`), and an instruction for eight bytes is eight for one byte each
(`OfEightBytes`). `ChecksumInv` says that the accumulator is the division of the
bytes read so far, and which loop may stand at which address (`Within`): the words
begin at a multiple of eight and no further than `aligned_end`, another one, so that
the test for equality that ends them is not missed. That no address outside the
buffer is read follows.

### Integers of variable length

For any number, any `Radix` from 2 on and any `UIntLimit`, from `WidthAssumption`. The
induction is over the quotient (`DigitInduction`), as the loops are. Reading is the
harder direction: `Accumulated` says, for any state of the loop with the value `v` and
the weight `u` of the next digit, that reading the bytes of `n` makes it `v + n * u`,
provided that this is below `UIntLimit`. With less than that, nothing is cut off by
the width of the type on the way (`NothingLost`), although the weight after the last
digit may be. Where reading stops is the first byte without the continuation bit,
which is the last of what was written (`Written`).

### Writing objects

For any types, values, orders, `Radix`, `UIntLimit` and `PackWidth`, from
`TypesAssumption` (a type is made of types that are nested less deep, and a tag is a
byte), `ValuesAssumption` (a value is made of values of the parts of its type) and
`WidthAssumption`. `aot_size[x]` is `AotOf(x, sizes)` where `sizes` are the sizes of
what `x` is made of, and `serialize[x]` is `WriteOf(x, ss)` likewise; that there are
such functions, and only one of each, is by recursion and induction over the depth
of the type (`AotSizes`, `Serializations`, and `FixedSizes` for `fixed_size`).
`ExactFromParts` is the step of the last induction: the size is exact if it is for
every part. What makes it work:

* sequences one after the other are as long as the sum of their lengths
  (`JoinedLength`), and a sum of equal sizes is a product (`SumOfSame`), which the
  code computes where the elements have a fixed size;
* the length before a member is as wide as `member_aot_size` takes it to be, whether
  the compiler or the program writes it (`HeaderIs`, from `SizeIsLength`, `StaticSame`
  and `ConstantSame`): where the type has a fixed size, `aot_size` is that size;
* the fixed size of a tuple or a struct is what `aot_size` computes from the members
  at run time (`FixedParts`, `StructNat`).

`Transfer` is the inductive invariant of `WriterSpec`: once written, the buffer is the
serialization and its capacity is the size.

### Only model-checked

* `Publication` and `ComesToEnd`: liveness under fairness is out of the prover's
  reach.
* `Serialization` (`Compatible`, `OptimisticAgrees`, `PrefixFails`): the parsers
  recurse over types and bytes at once and call each other. What is proved of reading
  are the integers of variable length.
* `OutputIterators` (`Delivered`): its operators recurse over the tree of writers, which
  is changed while they do.

## Plan

1. Done: all modules above; the proofs of every invariant and action property of
   all of them but `Serialization` and `OutputIterators`, and of the refinement.
2. `Serialization`: the parsers as recursive functions over the depth of types, as the
   writers are, and `PrefixFails` and `Compatible` by induction over it.
3. Reading through an output handle of a sequential file, and what it leaves in
   the stream's state.

## Not modelled

* The compressors (external libraries); `lz4-wrap.cc` and `gipfeli-wrap.cc` are not
  part of the build.
* `pbsic`, a generator that prints declarations and keeps no state.
* `functional.hh`, `tuple-util.hh`, `type-traits.hh`, `bp-14.hh`: composition at
  compile time. What can be wrong there are value categories and overloads, which
  the compiler decides; `pick` and `static_foldr` are modelled where they are used.
* `std::array` in serialization: as many elements are read as the input says, a
  FIXME of the code. The copy of whole arrays of primitives, which writes the same
  bytes.
* Two output handles on one file at once, and reading through the output handle of
  a sequential file: nothing in the repository says what they should do.
* Examples, benchmarks, tests and vendored code.
