------------------------------ MODULE BlockCodec ------------------------------
(***************************************************************************)
(* How the content of a block is compressed and read back                  *)
(* (src/pbsf/data-block.cc, zstd-wrap.cc, lzo-wrap.cc).  A buffer is its   *)
(* size and what its bytes are: the raw data of a value, a compressed form *)
(* of it behind the size the wrapper wrote, or bytes that are neither.     *)
(* The compressors are external: they choose the size of what they return. *)
(* Raw data is named by its size.  The widths of the C++ types are kept:   *)
(* int and unsigned have 2^W values, size_t 2^(2W).                        *)
(***************************************************************************)
EXTENDS Integers

CONSTANTS
    Sizes,          \* the sizes of the values a program writes
    UnsignedRange,  \* 2^W: the number of values of unsigned and of int
    ZstdError,      \* -ZstdError is the code for a destination that is too small
    MinFrame,       \* no compressed form is shorter
    ZstdHeader,     \* sizeof(zstd_block_size_t), an int
    LzoHeader,      \* sizeof(lzo_block_size_t), a size_t
    MarkerSize,     \* size of a serialized index_position_marker
    Encodings,      \* the encodings a caller of encode_block may ask for
    Environments    \* what PBSF_COMPRESSION may be set to

IDENTITY == "identity"
LZO == "lzo"
ZSTD == "zstd"
Default == "default"        \* encode_block called without an encoding
Foreign == "foreign"        \* an encoding this program does not know

SizeRange == UnsignedRange * UnsignedRange

ASSUME CodecAssumption ==
    /\ Sizes \subseteq Nat /\ MarkerSize \in Nat /\ MinFrame \in Nat
    /\ ZstdHeader \in Nat /\ LzoHeader \in Nat /\ ZstdError \in Nat \ {0}
    /\ UnsignedRange \in Nat /\ ZstdError < UnsignedRange

\* A compressed form of the marker is longer than the marker itself.
ASSUME FrameAssumption ==
    ZstdHeader + MinFrame > MarkerSize /\ LzoHeader + MinFrame > MarkerSize

VARIABLES
    env,        \* PBSF_COMPRESSION
    choice,     \* the static variable of env_preferred_encoding, or "unread"
    raw,        \* the value that was last encoded
    block,      \* the EncodedBlock made of it
    whole,      \* are the bytes of its content those that were encoded?
    got         \* what decoding it gave
vars == <<env, choice, raw, block, whole, got>>

Known == {IDENTITY, LZO, ZSTD}
Buffer(form, of, head, size) == [form |-> form, of |-> of, head |-> head, size |-> size]
Raw(n) == Buffer("raw", n, 0, n)
Gone == Buffer("raw", 0, 0, 0)              \* an empty buffer, moved from or not
Failed(why) == [ok |-> FALSE, why |-> why, data |-> Gone]
Read(data) == [ok |-> TRUE, why |-> "", data |-> data]

TypeOK ==
    /\ choice \in Known \cup {"unread"}
    /\ raw \in Sizes
    /\ block.encoding \in Known \cup {"none", Foreign}
    /\ block.content.size \in Nat /\ block.content.of \in Nat
    /\ whole \in BOOLEAN /\ got.ok \in BOOLEAN

-----------------------------------------------------------------------------
\* Conversions between int, unsigned and size_t.

ToUnsigned(n) == n % UnsignedRange
ToInt(n) == IF ToUnsigned(n) < UnsignedRange \div 2 THEN ToUnsigned(n)
            ELSE ToUnsigned(n) - UnsignedRange
ToSize(n) == n % SizeRange

\* External: the capacity zstd asks for, and the frames it may produce.
ZSTD_compressBound(n) == ToSize(n + n \div 4 + 2)
Frames(n) == MinFrame .. n + n \div 4 + 2 + MinFrame

\* An equal checksum means equal bytes: crc32c tells apart what went wrong here.
crc32c(b) == b

-----------------------------------------------------------------------------
\* The wrappers.  Each gives the set of buffers it may return.

zstd_compress(src) ==
    LET input_size == ToInt(src.size)
        capacity == ToUnsigned(ZSTD_compressBound(ToSize(input_size)))
    IN  {IF k <= capacity
         THEN Buffer("zstd", src.of, input_size, ZstdHeader + k)
         ELSE Buffer("error", src.of, input_size, ZstdHeader + ToUnsigned(-ZstdError)) :
            k \in Frames(src.size)}

zstd_decompress(src) ==
    CASE src.form # "zstd" \/ src.of > ToSize(src.head) -> Failed("malformed")
      [] src.form = "zstd" /\ src.of <= ToSize(src.head)
            /\ src.of > ToUnsigned(src.head) -> Failed("overrun")
      [] OTHER -> Read(Buffer("raw", src.of, 0, ToUnsigned(src.head)))

\* The destination is large enough for whatever lzo makes of the source.
lzo_compress(src) ==
    {Buffer("lzo", src.of, src.size, LzoHeader + k) : k \in Frames(src.size)}

lzo_decompress(src) ==
    IF src.form # "lzo" \/ src.of # src.head THEN Failed("malformed")
    ELSE Read(Buffer("raw", src.of, 0, src.head))

-----------------------------------------------------------------------------
\* data-block.cc.

\* A wrong version: the variable is taken for the name of an encoding as it is.
PreferredAsIs(e) == e
Preferred(e) == IF e \in Known THEN e ELSE ZSTD

Block(encoding, content) ==
    [encoding |-> encoding, checksum |-> crc32c(content), content |-> content]

\* A wrong version: the compressed form is kept whatever its size.
keep_compressed(encoding, compressed, src) == Block(encoding, compressed)

keep_shorter(encoding, compressed, src) ==
    IF compressed.size > src.size THEN Block(IDENTITY, src)
    ELSE Block(encoding, compressed)

encode_block(src, encoding) ==
    CASE encoding = IDENTITY -> {Block(IDENTITY, src)}
      [] encoding = LZO -> {keep_shorter(LZO, c, src) : c \in lzo_compress(src)}
      [] OTHER -> {keep_shorter(ZSTD, c, src) : c \in zstd_compress(src)}

\* A wrong version: the content is decoded before its checksum is looked at.
decode_block_unchecked(b) ==
    CASE b.encoding = IDENTITY -> Read(b.content)
      [] b.encoding = LZO -> lzo_decompress(b.content)
      [] b.encoding = ZSTD -> zstd_decompress(b.content)
      [] OTHER -> Failed("unknown_encoding")

decode_block(b) ==
    IF b.checksum # crc32c(b.content) THEN Failed("bad_checksum")
    ELSE CASE b.encoding = IDENTITY -> Read(b.content)
           [] b.encoding = LZO -> lzo_decompress(b.content)
           [] b.encoding = ZSTD -> zstd_decompress(b.content)
           [] OTHER -> Failed("unknown_encoding")

-----------------------------------------------------------------------------
SetEnv(e) ==
    /\ env' = e
    /\ UNCHANGED <<choice, raw, block, whole, got>>

\* The environment is read once, by the first call that leaves the choice open.
env_preferred_encoding(encoding) ==
    IF encoding # Default \/ choice # "unread" THEN choice ELSE Preferred(env)

Encode(n, encoding) ==
    /\ choice' = env_preferred_encoding(encoding)
    /\ raw' = n
    /\ block' \in encode_block(Raw(n), IF encoding = Default THEN choice' ELSE encoding)
    /\ whole' = TRUE /\ got' = Failed("not read")
    /\ UNCHANGED env

\* The block passes through a file that alters bytes of its content.
Alter ==
    /\ block.encoding # "none" /\ block.content.size > 0
    /\ block' = [block EXCEPT !.content.form = "altered"]
    /\ whole' = FALSE
    /\ UNCHANGED <<env, choice, raw, got>>

\* A block in an encoding of another program's is read in place of this one.
ReadForeign ==
    /\ block' = Block(Foreign, Raw(raw))
    /\ whole' = FALSE /\ got' = Failed("not read")
    /\ UNCHANGED <<env, choice, raw>>

\* The content of an identity block is moved out of the block.
Decode ==
    /\ block.encoding # "none"
    /\ got' = decode_block(block)
    /\ block' = IF got'.ok /\ block.encoding = IDENTITY
                THEN [block EXCEPT !.content = Gone] ELSE block
    /\ whole' = (whole /\ block' = block)
    /\ UNCHANGED <<env, choice, raw>>

Init ==
    /\ env \in Environments /\ choice = "unread"
    /\ raw \in Sizes /\ block = [encoding |-> "none", checksum |-> Gone, content |-> Gone]
    /\ whole = TRUE /\ got = Failed("not read")

Next ==
    \/ \E e \in Environments : SetEnv(e)
    \/ \E n \in Sizes, encoding \in Encodings : Encode(n, encoding)
    \/ Alter \/ ReadForeign \/ Decode

Spec == Init /\ [][Next]_vars

-----------------------------------------------------------------------------
\* The sizes for which the code for a failed compression, taken as a size, is
\* longer than the data.
Representable(n) == n < ZstdHeader + ToUnsigned(-ZstdError) /\ n < UnsignedRange

\* Whatever the compressor made of the data, and whichever encoding was asked
\* for, a block whose bytes are whole decodes to the data it was made of: a
\* failed compression is never what is stored.
RoundTrip ==
    block.encoding # "none" /\ whole /\ Representable(raw) =>
        decode_block(block) = Read(Raw(raw))

\* What is decoded is never other data: an altered block, and a block whose
\* content an earlier decoding took away, is refused.
NeverWrong == got.ok /\ Representable(raw) => got.data = Raw(raw)

\* A marker is stored as it is, at its own size, whatever the preferred encoding,
\* so that it is found by counting back from the end of the file.
MarkerKept ==
    block.encoding # "none" /\ whole /\ raw = MarkerSize /\ Representable(raw) =>
        block.encoding = IDENTITY /\ block.content = Raw(MarkerSize)

=============================================================================
