--------------------------- MODULE BlockCodecProofs ---------------------------
(***************************************************************************)
(* Proofs about BlockCodec, for every width of the C++ integers, every size  *)
(* of the headers the wrappers write, every set of values, encodings and     *)
(* environments, and whatever sizes the compressors choose; and about        *)
(* Crc32c, for buffers of any length at any address, whatever they hold.     *)
(***************************************************************************)
EXTENDS BlockCodec, Crc32c, NaturalRecursion

(***************************************************************************)
(* Conversions between int, unsigned and size_t.                            *)
(***************************************************************************)
LEMMA Widths ==
    /\ UnsignedRange \in Nat /\ UnsignedRange > 1
    /\ SizeRange \in Nat /\ SizeRange >= UnsignedRange
<1>1. UnsignedRange \in Nat /\ UnsignedRange > 1
  BY CodecAssumption
<1>2. \A u \in Nat : u > 1 => u * u \in Nat /\ u * u >= u
  OBVIOUS
<1> QED
  BY <1>1, <1>2 DEF SizeRange

LEMMA UnsignedInRange ==
    ASSUME NEW n \in Int PROVE ToUnsigned(n) \in 0 .. UnsignedRange - 1
BY Widths DEF ToUnsigned

\* A size that fits unsigned survives the way through int, and the int taken for a
\* size_t is no smaller, although the int may be negative.
LEMMA ThroughInt ==
    ASSUME NEW n \in Nat, n < UnsignedRange
    PROVE  /\ ToInt(n) \in Int
           /\ ToUnsigned(ToInt(n)) = n
           /\ ToSize(ToInt(n)) >= n
<1>1. UnsignedRange \in Nat /\ UnsignedRange > 1
  BY Widths
<1>2. ToUnsigned(n) = n
  BY <1>1 DEF ToUnsigned
<1>3. ToInt(n) \in {n, n - UnsignedRange}
  BY <1>2 DEF ToInt
<1>4. n % UnsignedRange = n /\ (n - UnsignedRange) % UnsignedRange = n
  BY <1>1
<1>5. \A u \in Nat : u > 1 /\ n < u => n % (u * u) = n /\ (n - u) % (u * u) = u * u + n - u
                                       /\ u * u >= u
  OBVIOUS
<1>6. ToSize(n) >= n /\ ToSize(n - UnsignedRange) >= n
  <2>1. n % SizeRange = n
    BY <1>1, <1>5 DEF SizeRange
  <2>2. (n - UnsignedRange) % SizeRange = SizeRange + n - UnsignedRange
    BY <1>1, <1>5 DEF SizeRange
  <2> QED
    BY <1>1, <2>1, <2>2, Widths DEF ToSize
<1> QED
  BY <1>1, <1>3, <1>4, <1>6 DEF ToUnsigned

LEMMA ErrorCode == ToUnsigned(-ZstdError) \in Nat
BY UnsignedInRange, CodecAssumption, Widths

LEMMA FrameSizes ==
    ASSUME NEW n \in Nat, NEW k \in Frames(n) PROVE k \in Nat /\ k >= MinFrame
BY CodecAssumption DEF Frames

(***************************************************************************)
(* The inductive invariant.                                                 *)
(***************************************************************************)
Forms == {"raw", "zstd", "error", "lzo", "altered"}
Buffers == [form : Forms, of : Nat, head : Int, size : Nat]

\* What encode_block makes of the data of size n: the data as it is, or a form of
\* it that is no longer, and that may be what a failed compression left.
Encoded(n, b) ==
    /\ b.checksum = b.content
    /\ \/ b.encoding = IDENTITY /\ b.content = Raw(n)
       \/ /\ b.encoding = LZO
          /\ \E k \in Nat : /\ k >= MinFrame /\ LzoHeader + k <= n
                            /\ b.content = Buffer("lzo", n, n, LzoHeader + k)
       \/ /\ b.encoding = ZSTD
          /\ \E k \in Nat : /\ k >= MinFrame /\ ZstdHeader + k <= n
                            /\ b.content = Buffer("zstd", n, ToInt(n), ZstdHeader + k)
       \/ /\ b.encoding = ZSTD
          /\ ZstdHeader + ToUnsigned(-ZstdError) <= n

BlockType == [encoding : Known \cup {"none", Foreign}, checksum : Buffers, content : Buffers]

\* While the bytes are whole the block is what encode_block made; if they are not,
\* the checksum of a block in a known encoding tells.
BlockInv ==
    /\ block \in BlockType
    /\ block.checksum.form # "altered"
    /\ whole /\ block.encoding # "none" => Encoded(raw, block)
    /\ ~whole => block.encoding # "none"
    /\ ~whole /\ block.encoding \in Known => block.checksum # block.content

IInv == TypeOK /\ BlockInv /\ NeverWrong

(***************************************************************************)
(* Encoding and decoding.                                                   *)
(***************************************************************************)
LEMMA BufferTypes ==
    /\ Gone \in Buffers
    /\ \A n \in Nat : Raw(n) \in Buffers
    /\ \A f \in Forms, n \in Nat, h \in Int, k \in Nat :
         Buffer(f, n, h, k) \in Buffers /\ Buffer(f, n, h, k).size = k
BY DEF Gone, Raw, Buffer, Buffers, Forms

LEMMA IntInt == ASSUME NEW n \in Nat PROVE ToInt(n) \in Int
<1>1. ToUnsigned(n) \in Int
  BY UnsignedInRange
<1> QED
  BY <1>1, Widths DEF ToInt

\* The forms lzo and zstd return.
LEMMA LzoReturns ==
    ASSUME NEW n \in Nat, NEW c \in lzo_compress(Raw(n))
    PROVE  /\ c \in Buffers
           /\ \E k \in Nat : k >= MinFrame /\ c = Buffer("lzo", n, n, LzoHeader + k)
<1>1. Raw(n).size = n /\ Raw(n).of = n
  BY DEF Raw, Buffer
<1>2. PICK k \in Frames(n) : c = Buffer("lzo", n, n, LzoHeader + k)
  BY <1>1 DEF lzo_compress
<1>3. k \in Nat /\ k >= MinFrame
  BY FrameSizes
<1>4. LzoHeader + k \in Nat /\ "lzo" \in Forms
  BY <1>3, CodecAssumption DEF Forms
<1> QED
  BY <1>2, <1>3, <1>4, BufferTypes

LEMMA ZstdReturns ==
    ASSUME NEW n \in Nat, NEW c \in zstd_compress(Raw(n))
    PROVE  /\ c \in Buffers
           /\ \/ \E k \in Nat : k >= MinFrame /\ c = Buffer("zstd", n, ToInt(n), ZstdHeader + k)
              \/ c = Buffer("error", n, ToInt(n), ZstdHeader + ToUnsigned(-ZstdError))
<1>1. Raw(n).size = n /\ Raw(n).of = n
  BY DEF Raw, Buffer
<1>2. PICK k \in Frames(n) :
         \/ c = Buffer("zstd", n, ToInt(n), ZstdHeader + k)
         \/ c = Buffer("error", n, ToInt(n), ZstdHeader + ToUnsigned(-ZstdError))
  BY <1>1 DEF zstd_compress
<1>3. k \in Nat /\ k >= MinFrame
  BY FrameSizes
<1>4. /\ ZstdHeader + k \in Nat /\ ZstdHeader + ToUnsigned(-ZstdError) \in Nat
      /\ "zstd" \in Forms /\ "error" \in Forms
  BY <1>3, CodecAssumption, ErrorCode DEF Forms
<1>5. c \in Buffers
  BY <1>2, <1>4, BufferTypes, IntInt
<1> QED
  BY <1>2, <1>3, <1>5

\* Whatever encoding is asked for, encode_block gives a block that records its data.
LEMMA EncodeGives ==
    ASSUME NEW n \in Nat, NEW e, NEW b \in encode_block(Raw(n), e)
    PROVE  b \in BlockType /\ b.encoding \in Known /\ b.checksum.form # "altered" /\ Encoded(n, b)
<1>0. /\ Raw(n) \in Buffers /\ Raw(n).form = "raw" /\ Raw(n).size = n
      /\ IDENTITY \in Known /\ LZO \in Known /\ ZSTD \in Known
  BY BufferTypes DEF Raw, Buffer, Known
<1>1. CASE b = Block(IDENTITY, Raw(n))
  BY <1>0, <1>1 DEF Block, crc32c, BlockType, Encoded
<1>2. ASSUME NEW c \in lzo_compress(Raw(n)), b = keep_shorter(LZO, c, Raw(n))
      PROVE  b \in BlockType /\ b.encoding \in Known /\ b.checksum.form # "altered" /\ Encoded(n, b)
  <2>1. PICK k \in Nat : k >= MinFrame /\ c = Buffer("lzo", n, n, LzoHeader + k)
    BY LzoReturns
  <2>2. c \in Buffers /\ c.size = LzoHeader + k /\ c.form = "lzo"
    BY <2>1, LzoReturns DEF Buffer
  <2>3. CASE c.size > n
    BY <1>0, <1>1, <1>2, <2>3 DEF keep_shorter
  <2>4. CASE ~(c.size > n)
    <3>1. b = Block(LZO, c) /\ LzoHeader + k <= n
      BY <1>0, <1>2, <2>2, <2>4, CodecAssumption DEF keep_shorter
    <3>2. b.encoding = LZO /\ b.checksum = c /\ b.content = c /\ b \in BlockType
      BY <1>0, <2>2, <3>1 DEF Block, crc32c, BlockType
    <3> QED
      BY <1>0, <2>1, <2>2, <3>1, <3>2 DEF Encoded
  <2> QED
    BY <2>3, <2>4
<1>3. ASSUME NEW c \in zstd_compress(Raw(n)), b = keep_shorter(ZSTD, c, Raw(n))
      PROVE  b \in BlockType /\ b.encoding \in Known /\ b.checksum.form # "altered" /\ Encoded(n, b)
  <2>1. CASE c.size > n
    BY <1>0, <1>1, <1>3, <2>1 DEF keep_shorter
  <2>2. CASE ~(c.size > n)
    <3>1. b = Block(ZSTD, c) /\ c \in Buffers
      BY <1>0, <1>3, <2>2, ZstdReturns DEF keep_shorter
    <3>2. b.encoding = ZSTD /\ b.checksum = c /\ b.content = c /\ b \in BlockType
      BY <1>0, <3>1 DEF Block, crc32c, BlockType
    <3>3. CASE \E k \in Nat : k >= MinFrame /\ c = Buffer("zstd", n, ToInt(n), ZstdHeader + k)
      <4>1. PICK k \in Nat : k >= MinFrame /\ c = Buffer("zstd", n, ToInt(n), ZstdHeader + k)
        BY <3>3
      <4>2. c.size = ZstdHeader + k /\ c.form = "zstd"
        BY <4>1 DEF Buffer
      <4>3. ZstdHeader + k <= n
        BY <2>2, <4>2, CodecAssumption
      <4> QED
        BY <1>0, <3>2, <4>1, <4>2, <4>3 DEF Encoded
    <3>4. CASE c = Buffer("error", n, ToInt(n), ZstdHeader + ToUnsigned(-ZstdError))
      <4>1. c.size = ZstdHeader + ToUnsigned(-ZstdError) /\ c.form = "error"
        BY <3>4 DEF Buffer
      <4>2. ZstdHeader + ToUnsigned(-ZstdError) <= n
        BY <2>2, <4>1, ErrorCode, CodecAssumption
      <4> QED
        BY <1>0, <3>2, <4>1, <4>2 DEF Encoded
    <3> QED
      BY <1>3, <3>3, <3>4, ZstdReturns
  <2> QED
    BY <2>1, <2>2
<1>4. \/ b = Block(IDENTITY, Raw(n))
      \/ \E c \in lzo_compress(Raw(n)) : b = keep_shorter(LZO, c, Raw(n))
      \/ \E c \in zstd_compress(Raw(n)) : b = keep_shorter(ZSTD, c, Raw(n))
  <2>1. CASE e = IDENTITY
    BY <2>1 DEF encode_block
  <2>2. CASE e = LZO
    BY <2>2 DEF encode_block, IDENTITY, LZO
  <2>3. CASE e # IDENTITY /\ e # LZO
    BY <2>3 DEF encode_block
  <2> QED
    BY <2>1, <2>2, <2>3
<1> QED
  BY <1>1, <1>2, <1>3, <1>4

\* What encode_block makes of data of a size that can be represented decodes to it.
LEMMA DecodeGives ==
    ASSUME NEW n \in Nat, Representable(n), NEW b, Encoded(n, b)
    PROVE  decode_block(b) = Read(Raw(n))
<1>0. b.checksum = crc32c(b.content) /\ n < UnsignedRange
      /\ ~(ZstdHeader + ToUnsigned(-ZstdError) <= n)
  <2>1. n \in Int /\ ZstdHeader + ToUnsigned(-ZstdError) \in Int
    BY ErrorCode, CodecAssumption
  <2> QED
    BY <2>1 DEF Encoded, crc32c, Representable
<1>1. CASE b.encoding = IDENTITY /\ b.content = Raw(n)
  BY <1>0, <1>1 DEF decode_block, IDENTITY, LZO, ZSTD
<1>2. ASSUME b.encoding = LZO, NEW k \in Nat, b.content = Buffer("lzo", n, n, LzoHeader + k)
      PROVE  decode_block(b) = Read(Raw(n))
  <2>1. decode_block(b) = lzo_decompress(b.content)
    BY <1>0, <1>2 DEF decode_block, IDENTITY, LZO, ZSTD
  <2>2. b.content.form = "lzo" /\ b.content.of = n /\ b.content.head = n
    BY <1>2 DEF Buffer
  <2> QED
    BY <2>1, <2>2 DEF lzo_decompress, Raw
<1>3. ASSUME b.encoding = ZSTD, NEW k \in Nat,
             b.content = Buffer("zstd", n, ToInt(n), ZstdHeader + k)
      PROVE  decode_block(b) = Read(Raw(n))
  <2>1. decode_block(b) = zstd_decompress(b.content)
    BY <1>0, <1>3 DEF decode_block, IDENTITY, LZO, ZSTD
  <2>2. b.content.form = "zstd" /\ b.content.of = n /\ b.content.head = ToInt(n)
    BY <1>3 DEF Buffer
  <2>3. ToUnsigned(ToInt(n)) = n /\ ~(n > ToSize(ToInt(n))) /\ ~(n > n)
    <3>1. ToUnsigned(ToInt(n)) = n /\ ToSize(ToInt(n)) >= n
      BY <1>0, ThroughInt
    <3>2. ToSize(ToInt(n)) \in Int
      BY Widths, IntInt DEF ToSize
    <3> QED
      BY <3>1, <3>2
  <2> QED
    BY <2>1, <2>2, <2>3 DEF zstd_decompress, Raw
<1> QED
  BY <1>0, <1>1, <1>2, <1>3 DEF Encoded

\* A block whose checksum does not match, or in an unknown encoding, gives nothing.
LEMMA DecodeRefuses ==
    ASSUME NEW b
    PROVE  /\ b.checksum # b.content => decode_block(b).ok = FALSE
           /\ b.encoding \notin Known => decode_block(b).ok = FALSE
<1>1. \A why : Failed(why).ok = FALSE
  BY DEF Failed
<1>2. ASSUME b.checksum # b.content PROVE decode_block(b) = Failed("bad_checksum")
  BY <1>2 DEF decode_block, crc32c
<1>3. ASSUME b.encoding \notin Known, b.checksum = b.content
      PROVE  decode_block(b) = Failed("unknown_encoding")
  <2>1. b.encoding # IDENTITY /\ b.encoding # LZO /\ b.encoding # ZSTD
    BY <1>3 DEF Known
  <2> QED
    BY <1>3, <2>1 DEF decode_block, crc32c
<1> QED
  BY <1>1, <1>2, <1>3

LEMMA DecodeTyped == ASSUME NEW b PROVE decode_block(b).ok \in BOOLEAN
<1>1. /\ \A why : Failed(why).ok \in BOOLEAN
      /\ \A d : Read(d).ok \in BOOLEAN
  BY DEF Failed, Read
<1>2. lzo_decompress(b.content).ok \in BOOLEAN
  BY <1>1 DEF lzo_decompress
<1>3. zstd_decompress(b.content).ok \in BOOLEAN
  <2> DEFINE c == b.content
             P == c.form # "zstd" \/ c.of > ToSize(c.head)
             Q == c.form = "zstd" /\ c.of <= ToSize(c.head) /\ c.of > ToUnsigned(c.head)
  <2>1. zstd_decompress(c) \in {Failed("malformed"), Failed("overrun"),
                                Read(Buffer("raw", c.of, 0, ToUnsigned(c.head)))}
    <3>1. CASE P /\ ~Q
      BY <3>1 DEF zstd_decompress
    <3>2. CASE ~P /\ Q
      BY <3>2 DEF zstd_decompress
    <3>3. CASE ~P /\ ~Q
      BY <3>3 DEF zstd_decompress
    <3>4. CASE P /\ Q
      BY <3>4 DEF zstd_decompress
    <3> QED
      BY <3>1, <3>2, <3>3, <3>4
  <2> QED
    BY <1>1, <2>1
<1>4. b.encoding = IDENTITY \/ b.encoding = LZO \/ b.encoding = ZSTD \/ b.encoding \notin Known
  BY DEF Known
<1>5. CASE b.checksum # b.content \/ b.encoding \notin Known
  BY <1>5, DecodeRefuses
<1>6. CASE b.checksum = b.content /\ b.encoding = IDENTITY
  BY <1>1, <1>6 DEF decode_block, crc32c, IDENTITY, LZO, ZSTD
<1>7. CASE b.checksum = b.content /\ b.encoding = LZO
  BY <1>2, <1>7 DEF decode_block, crc32c, IDENTITY, LZO, ZSTD
<1>8. CASE b.checksum = b.content /\ b.encoding = ZSTD
  BY <1>3, <1>8 DEF decode_block, crc32c, IDENTITY, LZO, ZSTD
<1> QED
  BY <1>4, <1>5, <1>6, <1>7, <1>8

(***************************************************************************)
(* The steps.                                                               *)
(***************************************************************************)
\* TypeOK says less of a block than BlockInv does.
LEMMA BlockTyped ==
    ASSUME NEW b \in BlockType
    PROVE  /\ b.encoding \in Known \cup {"none", Foreign}
           /\ b.content \in Buffers /\ b.checksum \in Buffers
           /\ b.content.size \in Nat /\ b.content.of \in Nat
BY DEF BlockType, Buffers

LEMMA EncodeStep ==
    ASSUME IInv, NEW n \in Sizes, NEW encoding \in Encodings, Encode(n, encoding)
    PROVE  IInv'
<1>1. n \in Nat
  BY CodecAssumption
<1>2. /\ block' \in BlockType /\ block'.encoding \in Known
      /\ block'.checksum.form # "altered" /\ Encoded(n, block')
  BY <1>1, EncodeGives DEF Encode
<1>3. whole' = TRUE /\ raw' = n /\ got' = Failed("not read") /\ got'.ok = FALSE
  BY DEF Encode, Failed
<1>4. choice' \in Known \cup {"unread"}
  <2>1. choice \in Known \cup {"unread"}
    BY DEF IInv, TypeOK
  <2>2. Preferred(env) \in Known
    BY DEF Preferred, Known
  <2> QED
    BY <2>1, <2>2 DEF Encode, env_preferred_encoding
<1>5. BlockInv'
  BY <1>2, <1>3 DEF BlockInv
<1>6. TypeOK'
  BY <1>2, <1>3, <1>4, BlockTyped DEF TypeOK
<1>7. NeverWrong'
  BY <1>3 DEF NeverWrong
<1> QED
  BY <1>5, <1>6, <1>7 DEF IInv

LEMMA AlterStep ==
    ASSUME IInv, Alter PROVE IInv'
<1>1. /\ block \in BlockType /\ block.encoding # "none" /\ block.checksum.form # "altered"
      /\ block' = [block EXCEPT !.content = [block.content EXCEPT !.form = "altered"]]
      /\ whole' = FALSE
  BY DEF IInv, BlockInv, Alter
<1>2. [block.content EXCEPT !.form = "altered"] \in Buffers
      /\ [block.content EXCEPT !.form = "altered"].form = "altered"
  BY <1>1, BlockTyped DEF Buffers, Forms
<1>3. /\ block' \in BlockType /\ block'.encoding = block.encoding
      /\ block'.checksum = block.checksum /\ block'.content.form = "altered"
  BY <1>1, <1>2 DEF BlockType
<1>4. BlockInv'
  BY <1>1, <1>3 DEF BlockInv
<1>5. TypeOK'
  BY <1>1, <1>3, BlockTyped DEF TypeOK, IInv, Alter
<1> QED
  BY <1>4, <1>5 DEF IInv, NeverWrong, Alter

LEMMA ForeignStep ==
    ASSUME IInv, ReadForeign PROVE IInv'
<1>1. raw \in Nat
  BY CodecAssumption DEF IInv, TypeOK
<1>2. Raw(raw) \in Buffers /\ Raw(raw).form = "raw"
  BY <1>1, BufferTypes DEF Raw, Buffer
<1>3. /\ block' = [encoding |-> Foreign, checksum |-> Raw(raw), content |-> Raw(raw)]
      /\ whole' = FALSE /\ got' = Failed("not read") /\ got'.ok = FALSE
      /\ raw' = raw /\ choice' = choice
  BY DEF ReadForeign, Block, crc32c, Failed
<1>4. Foreign \notin Known /\ Foreign # "none"
  BY DEF Foreign, Known, IDENTITY, LZO, ZSTD
<1>5. block' \in BlockType /\ block'.encoding = Foreign /\ block'.checksum.form # "altered"
  BY <1>2, <1>3 DEF BlockType
<1>6. BlockInv'
  BY <1>3, <1>4, <1>5 DEF BlockInv
<1>7. TypeOK'
  BY <1>3, <1>5, BlockTyped DEF TypeOK, IInv
<1> QED
  BY <1>3, <1>6, <1>7 DEF IInv, NeverWrong

LEMMA DecodeStep ==
    ASSUME IInv, Decode PROVE IInv'
<1>0. /\ raw \in Nat /\ raw' = raw /\ choice' = choice /\ got' = decode_block(block)
      /\ block.encoding # "none" /\ block \in BlockType /\ block.checksum.form # "altered"
      /\ whole \in BOOLEAN
  BY CodecAssumption DEF IInv, TypeOK, BlockInv, Decode
<1>1. got'.ok \in BOOLEAN
  BY <1>0, DecodeTyped
<1>2. NeverWrong'
  <2> SUFFICES ASSUME got'.ok, Representable(raw) PROVE got'.data = Raw(raw)
    BY <1>0 DEF NeverWrong, Representable
  <2>1. block.checksum = block.content /\ block.encoding \in Known
    BY <1>0, DecodeRefuses
  <2>2. whole
    BY <2>1 DEF IInv, BlockInv
  <2>3. decode_block(block) = Read(Raw(raw))
    BY <1>0, <2>2, DecodeGives DEF IInv, BlockInv
  <2>4. got' = Read(Raw(raw))
    BY <1>0, <2>3
  <2>5. Read(Raw(raw)).data = Raw(raw)
    BY DEF Read
  <2> QED
    BY <2>4, <2>5
<1>3. CASE block' = block
  <2>1. whole' = whole
    BY <1>0, <1>3 DEF Decode
  <2>2. BlockInv' /\ TypeOK'
    BY <1>0, <1>1, <1>3, <2>1 DEF IInv, BlockInv, TypeOK
  <2> QED
    BY <1>2, <2>2 DEF IInv
<1>4. CASE block' # block
  <2>1. /\ got'.ok /\ block.encoding = IDENTITY
        /\ block' = [block EXCEPT !.content = Gone] /\ whole' = FALSE
    BY <1>0, <1>4 DEF Decode
  <2>2. block.checksum = block.content
    BY <1>0, <2>1, DecodeRefuses
  <2>3. block.content # Gone
    BY <1>0, <1>4, <2>1 DEF BlockType
  <2>4. /\ block' \in BlockType /\ block'.encoding = IDENTITY
        /\ block'.checksum = block.checksum /\ block'.content = Gone
    BY <1>0, <2>1, BufferTypes DEF BlockType
  <2>5. IDENTITY # "none"
    BY DEF IDENTITY
  <2>6. BlockInv'
    BY <1>0, <2>1, <2>2, <2>3, <2>4, <2>5 DEF BlockInv
  <2>7. TypeOK'
    BY <1>0, <1>1, <2>1, <2>4, BlockTyped DEF IInv, TypeOK
  <2> QED
    BY <1>2, <2>6, <2>7 DEF IInv
<1> QED
  BY <1>3, <1>4

LEMMA InitIInv == Init => IInv
<1> SUFFICES ASSUME Init PROVE IInv
  OBVIOUS
<1>1. /\ block = [encoding |-> "none", checksum |-> Gone, content |-> Gone]
      /\ whole = TRUE /\ got = Failed("not read") /\ got.ok = FALSE
      /\ raw \in Sizes /\ choice = "unread"
  BY DEF Init, Failed
<1>2. Gone \in Buffers /\ Gone.form = "raw"
  BY BufferTypes DEF Gone, Buffer
<1>3. block \in BlockType /\ block.encoding = "none" /\ block.checksum.form # "altered"
  BY <1>1, <1>2 DEF BlockType
<1>4. BlockInv
  BY <1>1, <1>3 DEF BlockInv
<1>5. TypeOK
  BY <1>1, <1>3, BlockTyped DEF TypeOK
<1> QED
  BY <1>1, <1>4, <1>5 DEF IInv, NeverWrong

\* The invariant holds throughout: while a block is whole it is what encode_block
\* made of the data, and otherwise its checksum gives it away.
THEOREM CodecInvariance == Spec => []IInv
<1>1. IInv /\ [Next]_vars => IInv'
  <2> SUFFICES ASSUME IInv, [Next]_vars PROVE IInv'
    OBVIOUS
  <2>1. ASSUME NEW e \in Environments, SetEnv(e) PROVE IInv'
    BY <2>1 DEF SetEnv, IInv, TypeOK, BlockInv, NeverWrong
  <2>2. CASE UNCHANGED vars
    BY <2>2 DEF vars, IInv, TypeOK, BlockInv, NeverWrong
  <2> QED
    BY <2>1, <2>2, EncodeStep, AlterStep, ForeignStep, DecodeStep DEF Next
<1> QED
  BY <1>1, InitIInv, PTL DEF Spec

\* Blocks, buffers and the choice of an encoding are well formed.
THEOREM CodecTyped == Spec => []TypeOK
<1>1. IInv => TypeOK
  BY DEF IInv
<1> QED
  BY <1>1, CodecInvariance, PTL

\* A whole block decodes to the data it was made of, for every encoding, every
\* width of int, and every size the compressor may choose.
THEOREM BlocksRoundTrip == Spec => []RoundTrip
<1>1. IInv => RoundTrip
  <2> SUFFICES ASSUME IInv, block.encoding # "none", whole, Representable(raw)
               PROVE  decode_block(block) = Read(Raw(raw))
    BY DEF RoundTrip
  <2>1. raw \in Nat /\ Encoded(raw, block)
    BY CodecAssumption DEF IInv, TypeOK, BlockInv
  <2> QED
    BY <2>1, DecodeGives
<1> QED
  BY <1>1, CodecInvariance, PTL

\* Decoding never gives other data: altered blocks, foreign blocks, and blocks whose
\* content was moved out before are refused.
THEOREM DecodingNeverWrong == Spec => []NeverWrong
<1>1. IInv => NeverWrong
  BY DEF IInv
<1> QED
  BY <1>1, CodecInvariance, PTL

\* The marker of an indexed file is stored as it is under every preferred encoding,
\* because no compressed form of it is as short (FrameAssumption).
THEOREM MarkerStored == Spec => []MarkerKept
<1>1. IInv => MarkerKept
  <2> SUFFICES ASSUME IInv, block.encoding # "none", whole, raw = MarkerSize, Representable(raw)
               PROVE  block.encoding = IDENTITY /\ block.content = Raw(MarkerSize)
    BY DEF MarkerKept
  <2>1. Encoded(raw, block)
    BY DEF IInv, BlockInv
  <2>2. /\ raw \in Nat /\ ZstdHeader \in Nat /\ LzoHeader \in Nat /\ MinFrame \in Nat
        /\ ZstdHeader + MinFrame > raw /\ LzoHeader + MinFrame > raw
    BY CodecAssumption, FrameAssumption
  <2>3. \A k \in Nat : k >= MinFrame => ~(LzoHeader + k <= raw) /\ ~(ZstdHeader + k <= raw)
    BY <2>2
  <2>4. ~(ZstdHeader + ToUnsigned(-ZstdError) <= raw)
    BY <2>2, ErrorCode DEF Representable
  <2> QED
    BY <2>1, <2>3, <2>4 DEF Encoded
<1> QED
  BY <1>1, CodecInvariance, PTL

-----------------------------------------------------------------------------
(***************************************************************************)
(* Words as sets of bits.                                                  *)
(***************************************************************************)
LEMMA ShiftedXor ==
    ASSUME NEW a, NEW b, NEW n \in Nat
    PROVE  Shifted(SymDiff(a, b), n) = SymDiff(Shifted(a, n), Shifted(b, n))
BY DEF Shifted, SymDiff

LEMMA ShiftedTwice ==
    ASSUME NEW a \in Word, NEW m \in Nat, NEW n \in Nat
    PROVE  Shifted(Shifted(a, m), n) = Shifted(a, m + n)
BY DEF Shifted, Word

LEMMA XorLaws ==
    ASSUME NEW a, NEW b, NEW c
    PROVE  /\ SymDiff(SymDiff(a, c), SymDiff(b, c)) = SymDiff(a, b)
           /\ SymDiff(SymDiff(a, c), b) = SymDiff(SymDiff(a, b), c)
           /\ SymDiff(a, SymDiff(b, c)) = SymDiff(SymDiff(a, b), c)
BY DEF SymDiff

LEMMA WordsTyped ==
    /\ Ones \in Word /\ Polynomial \in Word
    /\ \A a : \A n \in Nat : Shifted(a, n) \in Word
    /\ \A a, b \in Word : SymDiff(a, b) \in Word
    /\ Octet \subseteq Word
<1>1. Polynomial \in Word
  <2>1. \A n : BitsOf(n) \subseteq 0 .. 15
    BY DEF BitsOf
  <2> HIDE DEF BitsOf
  <2>2. \A h, l : FromHalves(h, l) \in SUBSET (0 .. 31)
    BY <2>1 DEF FromHalves
  <2> QED
    BY <2>2 DEF Polynomial, Word
<1> QED
  BY <1>1 DEF Ones, Word, Octet, Shifted, SymDiff

(***************************************************************************)
(* Division is linear, and the table has the division of every byte: so    *)
(* a step by the table is a step by division.                              *)
(***************************************************************************)
LEMMA DivideBitIs ==
    ASSUME NEW a \in Word
    PROVE  /\ DivideBit[a] = IF 0 \in a THEN SymDiff(Shifted(a, 1), Polynomial) ELSE Shifted(a, 1)
           /\ DivideBit[a] \in Word
BY WordsTyped DEF DivideBit

LEMMA DivideBitLinear ==
    ASSUME NEW a \in Word, NEW b \in Word
    PROVE  DivideBit[SymDiff(a, b)] = SymDiff(DivideBit[a], DivideBit[b])
<1> DEFINE x == Shifted(a, 1)
           y == Shifted(b, 1)
           z == Shifted(SymDiff(a, b), 1)
<1>1. z = SymDiff(x, y)
  BY ShiftedXor
<1>2. /\ DivideBit[a] = IF 0 \in a THEN SymDiff(x, Polynomial) ELSE x
      /\ DivideBit[b] = IF 0 \in b THEN SymDiff(y, Polynomial) ELSE y
      /\ DivideBit[SymDiff(a, b)] = IF 0 \in SymDiff(a, b) THEN SymDiff(z, Polynomial) ELSE z
  BY DivideBitIs, WordsTyped
<1>3. 0 \in SymDiff(a, b) <=> (0 \in a /\ 0 \notin b) \/ (0 \in b /\ 0 \notin a)
  BY DEF SymDiff
<1> HIDE DEF x, y, z
<1>4. /\ SymDiff(SymDiff(x, Polynomial), SymDiff(y, Polynomial)) = SymDiff(x, y)
      /\ SymDiff(SymDiff(x, Polynomial), y) = SymDiff(SymDiff(x, y), Polynomial)
      /\ SymDiff(x, SymDiff(y, Polynomial)) = SymDiff(SymDiff(x, y), Polynomial)
  BY XorLaws
<1> QED
  BY <1>1, <1>2, <1>3, <1>4

LEMMA DivideByteLinear ==
    ASSUME NEW a \in Word, NEW b \in Word
    PROVE  DivideByte(SymDiff(a, b)) = SymDiff(DivideByte(a), DivideByte(b))
<1>1. \A c, d \in Word : /\ DivideTwo(c) \in Word
                         /\ DivideTwo(SymDiff(c, d)) = SymDiff(DivideTwo(c), DivideTwo(d))
  BY DivideBitIs, DivideBitLinear, Zenon DEF DivideTwo
<1>2. \A c, d \in Word : /\ DivideFour(c) \in Word
                         /\ DivideFour(SymDiff(c, d)) = SymDiff(DivideFour(c), DivideFour(d))
  BY <1>1, Zenon DEF DivideFour
<1> QED
  BY <1>2, Zenon DEF DivideByte

LEMMA DivideByteTyped == ASSUME NEW a \in Word PROVE DivideByte(a) \in Word
<1>1. \A c \in Word : DivideTwo(c) \in Word
  BY DivideBitIs, Zenon DEF DivideTwo
<1> QED
  BY <1>1, Zenon DEF DivideFour, DivideByte

\* As long as the lowest bit is zero, division only shifts.
LEMMA DivideShifts ==
    ASSUME NEW a \in Word, a \cap 0 .. 7 = {}
    PROVE  DivideByte(a) = Shifted(a, 8)
<1>1. ASSUME NEW n \in 0 .. 7 PROVE DivideBit[Shifted(a, n)] = Shifted(a, n + 1)
  <2>1. 0 \notin Shifted(a, n)
    BY DEF Shifted
  <2>2. n \in Nat /\ 1 \in Nat /\ Shifted(a, n) \in Word
    BY WordsTyped
  <2>3. Shifted(Shifted(a, n), 1) = Shifted(a, n + 1)
    BY <2>2, ShiftedTwice
  <2>4. DivideBit[Shifted(a, n)] =
          IF 0 \in Shifted(a, n) THEN SymDiff(Shifted(Shifted(a, n), 1), Polynomial)
          ELSE Shifted(Shifted(a, n), 1)
    BY <2>2, DivideBitIs
  <2> QED
    BY <2>1, <2>3, <2>4
<1>2. Shifted(a, 0) = a
  <2>1. a \subseteq 0 .. 31 /\ \A k \in 0 .. 31 : k + 0 = k
    BY DEF Word
  <2> QED
    BY <2>1, Zenon DEF Shifted
<1>3. /\ DivideBit[Shifted(a, 0)] = Shifted(a, 1) /\ DivideBit[Shifted(a, 1)] = Shifted(a, 2)
      /\ DivideBit[Shifted(a, 2)] = Shifted(a, 3) /\ DivideBit[Shifted(a, 3)] = Shifted(a, 4)
      /\ DivideBit[Shifted(a, 4)] = Shifted(a, 5) /\ DivideBit[Shifted(a, 5)] = Shifted(a, 6)
      /\ DivideBit[Shifted(a, 6)] = Shifted(a, 7) /\ DivideBit[Shifted(a, 7)] = Shifted(a, 8)
  BY <1>1
<1> QED
  BY <1>2, <1>3, Zenon DEF DivideTwo, DivideFour, DivideByte

LEMMA TableStep ==
    ASSUME NEW a \in Word, NEW byte \in Octet
    PROVE  table_step(a, byte) = mm_crc32_u8[<<a, byte>>]
<1> DEFINE x == SymDiff(a, byte)
           low == x \cap 0 .. 7
           high == x \ 0 .. 7
<1>1. x \in Word /\ low \in Octet /\ low \in Word /\ high \in Word /\ high \cap 0 .. 7 = {}
  BY WordsTyped DEF Word, Octet
<1>2. x = SymDiff(high, low)
  BY DEF SymDiff
<1>3. Shifted(high, 8) = Shifted(a, 8)
  <2>1. ASSUME NEW k \in 0 .. 31 PROVE k + 8 \in high <=> k + 8 \in a
    <3>1. k + 8 \notin 0 .. 7 /\ k + 8 \notin byte
      BY DEF Octet
    <3> QED
      BY <3>1 DEF SymDiff
  <2> HIDE DEF high
  <2> QED
    BY <2>1, Zenon DEF Shifted
<1>4. mm_crc32_u8[<<a, byte>>] = DivideByte(x)
  <2>1. <<a, byte>> \in Word \X Octet
    OBVIOUS
  <2> QED
    BY <2>1 DEF mm_crc32_u8
<1>5. table_step(a, byte) = SymDiff(table(low), Shifted(a, 8))
  BY DEF table_step
<1> HIDE DEF x, low, high
<1>6. DivideByte(x) = SymDiff(Shifted(a, 8), table(low))
  BY <1>1, <1>2, <1>3, DivideByteLinear, DivideShifts, TableAssumption
<1>7. SymDiff(Shifted(a, 8), table(low)) = SymDiff(table(low), Shifted(a, 8))
  BY DEF SymDiff
<1> QED
  BY <1>4, <1>5, <1>6, <1>7

(***************************************************************************)
(* The checksum of a stretch of bytes, one byte after the other.           *)
(***************************************************************************)
Holds(m, i, n) == \A k \in Nat : k < n => m[i + k] \in Octet

Accumulates(w, m, i, a) ==
    /\ w \in [Nat -> Word] /\ w[0] = a
    /\ \A k \in Nat : m[i + k] \in Octet => w[k + 1] = mm_crc32_u8[<<w[k], m[i + k]>>]
    /\ \A n \in Nat : Holds(m, i, n) => OfBytes(m, i, n, a) = w[n]

LEMMA StepTyped ==
    ASSUME NEW a \in Word, NEW byte \in Octet PROVE mm_crc32_u8[<<a, byte>>] \in Word
<1>1. <<a, byte>> \in Word \X Octet
  OBVIOUS
<1>2. mm_crc32_u8[<<a, byte>>] = DivideByte(SymDiff(a, byte))
  BY <1>1 DEF mm_crc32_u8
<1>3. SymDiff(a, byte) \in Word
  BY WordsTyped
<1> QED
  BY <1>2, <1>3, DivideByteTyped

LEMMA OfBytesIs ==
    ASSUME NEW m, NEW i \in Nat, NEW a \in Word
    PROVE  \E w : Accumulates(w, m, i, a)
<1> DEFINE Byte_(k) == IF m[i + k] \in Octet THEN m[i + k] ELSE {}
           f == [p \in Nat \X Word |-> mm_crc32_u8[<<p[2], Byte_(p[1])>>]]
<1>1. \A k : Byte_(k) \in Octet
  BY DEF Octet
<1> HIDE DEF Byte_
<1>2. f \in [Nat \X Word -> Word]
  BY <1>1, StepTyped
<1>3. PICK w : IteratesEach(w, Word, f, a)
  <2> HIDE DEF f
  <2>1. MapsEach(f, Word)
    BY <1>2 DEF MapsEach
  <2> QED
    BY <2>1, IteratedEach
<1>4. w \in [Nat -> Word] /\ w[0] = a /\ \A k \in Nat : w[k + 1] = mm_crc32_u8[<<w[k], Byte_(k)>>]
  <2>1. w \in [Nat -> Word] /\ w[0] = a /\ \A k \in Nat : w[k + 1] = f[<<k, w[k]>>]
    <3> HIDE DEF f
    <3> QED
      BY <1>3 DEF IteratesEach
  <2>2. ASSUME NEW k \in Nat PROVE w[k + 1] = mm_crc32_u8[<<w[k], Byte_(k)>>]
    <3>1. <<k, w[k]>> \in Nat \X Word
      BY <2>1
    <3>2. f[<<k, w[k]>>] = mm_crc32_u8[<<w[k], Byte_(k)>>]
      BY <3>1
    <3> QED
      BY <2>1, <3>2
  <2> QED
    BY <2>1, <2>2
<1> HIDE DEF f
<1>5. ASSUME NEW k \in Nat, m[i + k] \in Octet PROVE w[k + 1] = mm_crc32_u8[<<w[k], m[i + k]>>]
  BY <1>4, <1>5 DEF Byte_
<1>6. ASSUME NEW n \in Nat, Holds(m, i, n) PROVE OfBytes(m, i, n, a) = w[n]
  <2> DEFINE Body(g) == [k \in 0 .. n |->
                           IF k = 0 THEN a ELSE mm_crc32_u8[<<g[k - 1], m[i + k - 1]>>]]
             of == CHOOSE g : g = Body(g)
             v == [k \in 0 .. n |-> w[k]]
  <2>1. v = Body(v)
    <3>1. ASSUME NEW k \in 0 .. n, k # 0 PROVE w[k] = mm_crc32_u8[<<v[k - 1], m[i + k - 1]>>]
      <4>1. k - 1 \in Nat /\ k - 1 \in 0 .. n /\ k - 1 < n /\ (k - 1) + 1 = k
            /\ i + (k - 1) = i + k - 1
        BY <3>1
      <4>2. m[i + (k - 1)] \in Octet
        BY <1>6, <4>1 DEF Holds
      <4>3. w[(k - 1) + 1] = mm_crc32_u8[<<w[k - 1], m[i + (k - 1)]>>]
        BY <1>5, <4>1, <4>2
      <4>4. v[k - 1] = w[k - 1]
        BY <4>1
      <4> HIDE DEF v
      <4> QED
        BY <4>1, <4>3, <4>4
    <3> QED
      BY <1>4, <3>1
  <2>2. of = Body(of)
    <3> HIDE DEF Body, v
    <3> QED
      BY <2>1
  <2>3. OfBytes(m, i, n, a) = of[n]
    BY Zenon DEF OfBytes
  <2> HIDE DEF of
  <2> DEFINE Same == {k \in Nat : k <= n => of[k] = w[k]}
  <2>4. 0 \in Same
    <3>1. 0 \in 0 .. n
      OBVIOUS
    <3> QED
      BY <1>4, <2>2, <3>1
  <2>5. ASSUME NEW k \in Same PROVE k + 1 \in Same
    <3>1. SUFFICES ASSUME k + 1 <= n PROVE of[k + 1] = w[k + 1]
      BY <2>5
    <3>2. /\ k \in Nat /\ k < n /\ k + 1 \in 0 .. n /\ k + 1 # 0 /\ (k + 1) - 1 = k
          /\ i + (k + 1) - 1 = i + k
      BY <2>5, <3>1
    <3>3. of[k] = w[k]
      BY <2>5, <3>2
    <3>4. of[k + 1] = mm_crc32_u8[<<of[(k + 1) - 1], m[i + (k + 1) - 1]>>]
      BY <2>2, <3>2
    <3>5. m[i + k] \in Octet
      BY <1>6, <3>2 DEF Holds
    <3> QED
      BY <1>5, <3>2, <3>3, <3>4, <3>5
  <2>6. Same = Nat
    <3>1. Same \in SUBSET Nat
      OBVIOUS
    <3> HIDE DEF Same
    <3> QED
      BY <2>4, <2>5, <3>1, AllOf
  <2>7. n \in Same
    BY <2>6
  <2> QED
    BY <2>3, <2>7
<1>7. Accumulates(w, m, i, a)
  BY <1>4, <1>5, <1>6 DEF Accumulates
<1> QED
  BY <1>7

\* One byte more, and eight.
LEMMA OfBytesNext ==
    ASSUME NEW m, NEW i \in Nat, NEW n \in Nat, NEW a \in Word, Holds(m, i, n + 1)
    PROVE  /\ OfBytes(m, i, n, a) \in Word
           /\ OfBytes(m, i, n + 1, a) = mm_crc32_u8[<<OfBytes(m, i, n, a), m[i + n]>>]
<1>1. PICK w : Accumulates(w, m, i, a)
  BY OfBytesIs
<1>2. Holds(m, i, n) /\ m[i + n] \in Octet /\ n + 1 \in Nat
  BY DEF Holds
<1> QED
  BY <1>1, <1>2 DEF Accumulates

LEMMA OfNoBytes ==
    ASSUME NEW m, NEW i \in Nat, NEW a \in Word PROVE OfBytes(m, i, 0, a) = a
<1>1. PICK w : Accumulates(w, m, i, a)
  BY OfBytesIs
<1>2. Holds(m, i, 0)
  BY DEF Holds
<1> QED
  BY <1>1, <1>2 DEF Accumulates

LEMMA OfEightBytes ==
    ASSUME NEW m, NEW i \in Nat, NEW n \in Nat, NEW a \in Word, Holds(m, i, n + 8)
    PROVE  OfBytes(m, i, n + 8, a) = OfBytes(m, i + n, 8, OfBytes(m, i, n, a))
<1> DEFINE p(k) == OfBytes(m, i, n + k, a)
           q(k) == OfBytes(m, i + n, k, OfBytes(m, i, n, a))
<1>1. \A k \in Nat : k <= 8 => Holds(m, i, n + k) /\ Holds(m, i + n, k)
  <2>1. ASSUME NEW k \in Nat, k <= 8, NEW j \in Nat, j < n + k PROVE m[i + j] \in Octet
    BY <2>1 DEF Holds
  <2>2. ASSUME NEW k \in Nat, k <= 8, NEW j \in Nat, j < k PROVE m[(i + n) + j] \in Octet
    <3>1. n + j \in Nat /\ n + j < n + 8 /\ i + (n + j) = (i + n) + j
      BY <2>2
    <3> QED
      BY <3>1 DEF Holds
  <2> QED
    BY <2>1, <2>2 DEF Holds
<1>2. OfBytes(m, i, n, a) \in Word
  <2>1. Holds(m, i, n + 1)
    BY <1>1
  <2> QED
    BY <2>1, OfBytesNext
<1>3. p(0) = q(0)
  BY <1>2, OfNoBytes
<1>4. ASSUME NEW k \in 0 .. 7, p(k) = q(k) PROVE p(k + 1) = q(k + 1)
  <2>1. /\ k \in Nat /\ n + k \in Nat /\ i + n \in Nat /\ n + (k + 1) = (n + k) + 1
        /\ i + (n + k) = (i + n) + k
    OBVIOUS
  <2>2. Holds(m, i, (n + k) + 1) /\ Holds(m, i + n, k + 1)
    <3>1. k + 1 \in Nat /\ k + 1 <= 8
      OBVIOUS
    <3> QED
      BY <1>1, <2>1, <3>1
  <2>3. OfBytes(m, i, (n + k) + 1, a) = mm_crc32_u8[<<OfBytes(m, i, n + k, a), m[i + (n + k)]>>]
    BY <2>1, <2>2, OfBytesNext
  <2>4. q(k + 1) = mm_crc32_u8[<<q(k), m[(i + n) + k]>>]
    BY <1>2, <2>1, <2>2, OfBytesNext
  <2> QED
    BY <1>4, <2>1, <2>3, <2>4
<1> HIDE DEF p, q
<1>5. p(8) = q(8)
  <2>1. /\ p(0) = q(0) => p(1) = q(1)
        /\ p(1) = q(1) => p(2) = q(2)
        /\ p(2) = q(2) => p(3) = q(3)
        /\ p(3) = q(3) => p(4) = q(4)
        /\ p(4) = q(4) => p(5) = q(5)
        /\ p(5) = q(5) => p(6) = q(6)
        /\ p(6) = q(6) => p(7) = q(7)
        /\ p(7) = q(7) => p(8) = q(8)
    BY <1>4
  <2> QED
    BY <1>3, <2>1
<1> QED
  BY <1>5 DEF p, q

(***************************************************************************)
(* The loops.                                                              *)
(***************************************************************************)
\* Where each loop is, and that it has not passed the address at which it stops.
Within ==
    /\ path = "generic" => phase \in {"head", "done"}
    /\ path = "sse" /\ phase = "head" => first <= head_end
    /\ phase = "words" => aligned_begin <= last /\ first % 8 = 0 /\ first <= aligned_end
    /\ phase = "tail" => aligned_end <= first
    /\ phase = "done" => first = last

Buffered ==
    /\ path \in {"sse", "generic"} /\ content \in DOMAIN Contents
    /\ str \in Starts /\ count \in 0 .. MaxCount
    /\ phase \in {"head", "words", "tail", "done"}
    /\ first \in str .. last /\ acc \in Word

ChecksumInv == Buffered /\ Within /\ ChecksumOfPrefix

LEMMA Addresses ==
    ASSUME Buffered
    PROVE  /\ str \in Nat /\ count \in Nat /\ first \in Nat /\ last \in Nat
           /\ last = str + count /\ str <= first /\ first <= last
           /\ Ones \in Word /\ acc \in Word
BY ChecksumAssumption, WordsTyped DEF Buffered, last

LEMMA Aligned ==
    ASSUME NEW p \in Nat
    PROVE  /\ align_ceil(p) \in Nat /\ align_ceil(p) % 8 = 0 /\ p <= align_ceil(p)
           /\ align_floor(p) \in Nat /\ align_floor(p) % 8 = 0 /\ align_floor(p) <= p
           /\ \A q \in Nat : q % 8 = 0 /\ q <= p => q <= align_floor(p)
BY DEF align_ceil, align_floor

\* All the bytes of a buffer are in memory.
LEMMA InMemory ==
    ASSUME Buffered, NEW n \in Nat, str + n <= last
    PROVE  Holds(Contents[content], str, n)
<1> SUFFICES ASSUME NEW k \in Nat, k < n PROVE Contents[content][str + k] \in Octet
  BY DEF Holds
<1>1. str + k \in str .. str + MaxCount - 1
  BY Addresses, ChecksumAssumption DEF Buffered
<1>2. str + k \in Memory
  BY <1>1 DEF Memory, Buffered
<1>3. Contents[content] \in [Memory -> Octet]
  BY ChecksumAssumption DEF Buffered
<1> QED
  BY <1>2, <1>3

\* Reading n bytes more.
LEMMA ReadOn ==
    ASSUME ChecksumInv, phase # "done", NEW n \in {1, 8}, first + n <= last,
           n = 1 => acc' = mm_crc32_u8[<<acc, Byte(first)>>],
           n = 8 => acc' = mm_crc32_u64(acc, first),
           first' = first + n, phase' = phase, UNCHANGED <<path, str, count, content>>
    PROVE  Buffered' /\ ChecksumOfPrefix'
<1> DEFINE m == Contents[content]
           d == first - str
<1>1. /\ str \in Nat /\ count \in Nat /\ first \in Nat /\ last \in Nat /\ last = str + count
      /\ str <= first /\ first <= last /\ Ones \in Word /\ acc \in Word
  BY Addresses DEF ChecksumInv
<1>2. /\ d \in Nat /\ d + n \in Nat /\ str + d = first /\ str + (d + n) <= last
      /\ first' - str = d + n
  BY <1>1
<1>3. acc = OfBytes(m, str, d, Ones)
  BY DEF ChecksumInv, ChecksumOfPrefix
<1>4. Holds(m, str, d + n)
  BY <1>2, InMemory DEF ChecksumInv
<1>5. acc' \in Word /\ acc' = OfBytes(m, str, d + n, Ones)
  <2>1. CASE n = 1
    <3>1. OfBytes(m, str, d + 1, Ones) = mm_crc32_u8[<<acc, m[str + d]>>]
      <4> HIDE DEF m, d
      <4> QED
        BY <1>1, <1>2, <1>3, <1>4, <2>1, OfBytesNext
    <3>2. m[str + d] \in Octet
      <4> HIDE DEF m, d
      <4>1. d < d + n
        BY <1>2, <2>1
      <4> QED
        BY <1>2, <1>4, <4>1 DEF Holds
    <3>3. Byte(first) = m[str + d]
      BY <1>2 DEF Byte
    <3>4. mm_crc32_u8[<<acc, m[str + d]>>] \in Word
      BY <1>1, <3>2, StepTyped
    <3> QED
      BY <2>1, <3>1, <3>3, <3>4
  <2>2. CASE n = 8
    <3> HIDE DEF m, d
    <3>1. OfBytes(m, str, d + 8, Ones) = OfBytes(m, str + d, 8, acc)
      BY <1>1, <1>2, <1>3, <1>4, <2>2, OfEightBytes
    <3>2. acc' = OfBytes(m, str + d, 8, acc)
      BY <1>2, <2>2 DEF mm_crc32_u64, m
    <3>3. OfBytes(m, str, d + 8, Ones) \in Word
      <4>1. PICK w : Accumulates(w, m, str, Ones)
        BY <1>1, OfBytesIs
      <4> QED
        BY <1>2, <1>4, <2>2, <4>1 DEF Accumulates
    <3> QED
      BY <2>2, <3>1, <3>2, <3>3
  <2> QED
    BY <2>1, <2>2
<1>6. Buffered'
  BY <1>1, <1>5 DEF ChecksumInv, Buffered, last
<1>7. ChecksumOfPrefix'
  BY <1>2, <1>5 DEF ChecksumOfPrefix, ChecksumInv
<1> QED
  BY <1>6, <1>7

\* Going from one loop to the next one, and returning.
LEMMA EnterNext ==
    ASSUME ChecksumInv, phase # "done", NEW p \in {"words", "tail"}, Enter(p, first),
           UNCHANGED <<path, str, count, content>>
    PROVE  Buffered' /\ ChecksumOfPrefix'
BY DEF ChecksumInv, Buffered, ChecksumOfPrefix, Enter, last

LEMMA Returns ==
    ASSUME ChecksumInv, phase # "done", first = last, Return,
           UNCHANGED <<path, str, count, content>>
    PROVE  ChecksumInv'
<1>1. Inverted(acc) \in Word
  BY DEF Inverted, Word, Ones
<1> QED
  BY <1>1 DEF ChecksumInv, Buffered, Within, ChecksumOfPrefix, Return, last

LEMMA HeadStep ==
    ASSUME ChecksumInv, HeadBytes, UNCHANGED <<path, str, count, content>>
    PROVE  ChecksumInv'
<1>1. /\ str \in Nat /\ first \in Nat /\ last \in Nat /\ first <= last
      /\ path = "sse" /\ phase = "head" /\ first <= head_end
  BY Addresses DEF ChecksumInv, HeadBytes, Within
<1>2. /\ aligned_begin \in Nat /\ aligned_begin % 8 = 0 /\ aligned_end \in Nat
      /\ (aligned_begin <= last => aligned_begin <= aligned_end)
      /\ head_end = IF aligned_begin > last THEN last ELSE aligned_begin
  BY <1>1, Aligned DEF aligned_begin, aligned_end, head_end
<1>3. last' = last /\ aligned_begin' = aligned_begin /\ aligned_end' = aligned_end
      /\ head_end' = head_end
  BY DEF last, aligned_begin, aligned_end, head_end
<1>4. CASE first # head_end
  <2>1. first + 1 <= last /\ first + 1 <= head_end
    BY <1>1, <1>2, <1>4
  <2>2. acc' = mm_crc32_u8[<<acc, Byte(first)>>] /\ first' = first + 1 /\ phase' = phase
    BY <1>4 DEF HeadBytes
  <2>3. Buffered' /\ ChecksumOfPrefix'
    BY <1>1, <2>1, <2>2, ReadOn
  <2>4. Within'
    BY <1>1, <1>3, <2>1, <2>2 DEF Within
  <2> QED
    BY <2>3, <2>4 DEF ChecksumInv
<1>5. CASE first = head_end /\ aligned_begin > last
  <2>1. first = last /\ Return
    BY <1>2, <1>5 DEF HeadBytes
  <2> QED
    BY <1>1, <2>1, Returns
<1>6. CASE first = head_end /\ ~(aligned_begin > last)
  <2>1. first = aligned_begin /\ aligned_begin <= last /\ Enter("words", first)
    BY <1>1, <1>2, <1>6 DEF HeadBytes
  <2>2. Buffered' /\ ChecksumOfPrefix'
    BY <1>1, <2>1, EnterNext
  <2>3. Within'
    BY <1>1, <1>2, <1>3, <2>1 DEF Within, Enter
  <2> QED
    BY <2>2, <2>3 DEF ChecksumInv
<1> QED
  BY <1>4, <1>5, <1>6

LEMMA WordsInside ==
    ASSUME ChecksumInv, phase = "words", first # aligned_end
    PROVE  first + 8 <= aligned_end /\ first + 8 <= last /\ (first + 8) % 8 = 0
<1>1. /\ first \in Nat /\ last \in Nat /\ first % 8 = 0 /\ first <= aligned_end
  BY Addresses DEF ChecksumInv, Within
<1>2. aligned_end \in Nat /\ aligned_end % 8 = 0 /\ aligned_end <= last
  BY <1>1, Aligned DEF aligned_end
<1> QED
  BY <1>1, <1>2

LEMMA WordsStep ==
    ASSUME ChecksumInv, AlignedWords, UNCHANGED <<path, str, count, content>>
    PROVE  ChecksumInv'
<1>1. /\ str \in Nat /\ first \in Nat /\ last \in Nat /\ phase = "words" /\ path = "sse"
  BY Addresses DEF ChecksumInv, AlignedWords, Within, Buffered
<1>2. last' = last /\ aligned_begin' = aligned_begin /\ aligned_end' = aligned_end
      /\ head_end' = head_end
  BY DEF last, aligned_begin, aligned_end, head_end
<1>3. CASE first # aligned_end
  <2>1. first + 8 <= aligned_end /\ first + 8 <= last /\ (first + 8) % 8 = 0
    BY <1>1, <1>3, WordsInside
  <2>2. acc' = mm_crc32_u64(acc, first) /\ first' = first + 8 /\ phase' = phase
    BY <1>3 DEF AlignedWords
  <2>3. Buffered' /\ ChecksumOfPrefix'
    BY <1>1, <2>1, <2>2, ReadOn
  <2>4. Within'
    BY <1>1, <1>2, <2>1, <2>2 DEF Within, ChecksumInv
  <2> QED
    BY <2>3, <2>4 DEF ChecksumInv
<1>4. CASE first = aligned_end
  <2>1. Enter("tail", first)
    BY <1>4 DEF AlignedWords
  <2>2. Buffered' /\ ChecksumOfPrefix'
    BY <1>1, <2>1, EnterNext
  <2>3. Within'
    BY <1>1, <1>2, <1>4, <2>1 DEF Within, Enter
  <2> QED
    BY <2>2, <2>3 DEF ChecksumInv
<1> QED
  BY <1>3, <1>4

\* The two loops that go byte by byte to the end of the buffer.
LEMMA LastBytes ==
    ASSUME ChecksumInv, TailBytes \/ Generic, UNCHANGED <<path, str, count, content>>
    PROVE  ChecksumInv'
<1>1. /\ str \in Nat /\ first \in Nat /\ last \in Nat /\ first <= last /\ acc \in Word
      /\ phase # "done" /\ (phase = "tail" \/ path = "generic")
      /\ phase = "tail" => aligned_end <= first /\ aligned_end \in Nat
  BY Addresses, Aligned DEF ChecksumInv, TailBytes, Generic, Within, aligned_end
<1>2. last' = last /\ aligned_end' = aligned_end
  BY DEF last, aligned_end
<1>3. CASE first # last
  <2>1. first + 1 <= last
    BY <1>1, <1>3
  <2>2. first' = first + 1 /\ phase' = phase
    BY <1>3 DEF TailBytes, Generic
  <2>3. acc' = mm_crc32_u8[<<acc, Byte(first)>>]
    <3>1. Byte(first) \in Octet
      <4>1. first - str \in Nat /\ str + (first - str) = first /\ first - str + 1 \in Nat
            /\ str + (first - str + 1) <= last /\ first - str < first - str + 1
        BY <2>1, Addresses DEF ChecksumInv
      <4>2. Holds(Contents[content], str, first - str + 1)
        BY <4>1, InMemory DEF ChecksumInv
      <4> QED
        BY <4>1, <4>2 DEF Holds, Byte
    <3>2. table_step(acc, Byte(first)) = mm_crc32_u8[<<acc, Byte(first)>>]
      BY <1>1, <3>1, TableStep
    <3> QED
      BY <1>3, <3>2 DEF TailBytes, Generic
  <2>4. Buffered' /\ ChecksumOfPrefix'
    BY <1>1, <2>1, <2>2, <2>3, ReadOn
  <2>5. Within'
    BY <1>1, <1>2, <2>1, <2>2 DEF Within, ChecksumInv, Buffered
  <2> QED
    BY <2>4, <2>5 DEF ChecksumInv
<1>4. CASE first = last
  <2>1. Return
    BY <1>4 DEF TailBytes, Generic
  <2> QED
    BY <1>1, <1>4, <2>1, Returns
<1> QED
  BY <1>3, <1>4

LEMMA ChecksumStarts == ChecksumInit => ChecksumInv
<1> SUFFICES ASSUME ChecksumInit PROVE ChecksumInv
  OBVIOUS
<1>1. str \in Nat /\ count \in Nat /\ Ones \in Word /\ last = str + count
  BY ChecksumAssumption, WordsTyped DEF ChecksumInit, last
<1>2. Buffered
  BY <1>1 DEF ChecksumInit, Buffered
<1>3. str <= align_ceil(str)
  BY <1>1, Aligned
<1>4. Within
  BY <1>1, <1>3 DEF ChecksumInit, Within, head_end, aligned_begin
<1>5. OfBytes(Contents[content], str, 0, Ones) = Ones
  BY <1>1, OfNoBytes
<1>6. first - str = 0
  BY <1>1 DEF ChecksumInit
<1>7. ChecksumOfPrefix
  BY <1>5, <1>6 DEF ChecksumInit, ChecksumOfPrefix
<1> QED
  BY <1>2, <1>4, <1>7 DEF ChecksumInv

\* The invariant of both implementations, for buffers of any length at any address,
\* whatever they hold.
THEOREM ChecksumInvariance == ChecksumSpec => []ChecksumInv
<1>1. ChecksumInv /\ [ChecksumNext]_checksum => ChecksumInv'
  <2> SUFFICES ASSUME ChecksumInv, [ChecksumNext]_checksum PROVE ChecksumInv'
    OBVIOUS
  <2>1. CASE ChecksumNext
    BY <2>1, HeadStep, WordsStep, LastBytes DEF ChecksumNext
  <2>2. CASE UNCHANGED checksum
    BY <2>2 DEF checksum, ChecksumInv, Buffered, Within, ChecksumOfPrefix, last, head_end,
                aligned_begin, aligned_end
  <2> QED
    BY <2>1, <2>2
<1> QED
  BY <1>1, ChecksumStarts, PTL DEF ChecksumSpec

\* Both implementations compute the CRC-32C, and have at every step that of the bytes
\* they have read: the table, the instructions and the loops of either agree.
THEOREM ChecksumsAgree == ChecksumSpec => []ChecksumOfPrefix
<1>1. ChecksumInv => ChecksumOfPrefix
  BY DEF ChecksumInv
<1> QED
  BY <1>1, ChecksumInvariance, PTL

\* No byte outside the buffer is read, wherever it begins and ends.
THEOREM ReadsInside == ChecksumSpec => []InsideBuffer
<1>1. ChecksumInv => InsideBuffer
  <2> SUFFICES ASSUME ChecksumInv PROVE InsideBuffer
    OBVIOUS
  <2>1. first \in str .. last
    BY DEF ChecksumInv, Buffered
  <2> QED
    BY <2>1, WordsInside DEF InsideBuffer
<1> QED
  BY <1>1, ChecksumInvariance, PTL

\* What a call returns is the checksum of the whole buffer, so that what one
\* implementation wrote the other accepts.
ReturnsWhole ==
    phase = "done" => acc = Inverted(OfBytes(Contents[content], str, count, Ones))

THEOREM ChecksumWhole == ChecksumSpec => []ReturnsWhole
<1>1. ChecksumInv => ReturnsWhole
  <2> SUFFICES ASSUME ChecksumInv, phase = "done"
               PROVE  acc = Inverted(OfBytes(Contents[content], str, count, Ones))
    BY DEF ReturnsWhole
  <2>1. first - str = count
    BY Addresses DEF ChecksumInv, Within
  <2> QED
    BY <2>1 DEF ChecksumInv, ChecksumOfPrefix
<1> QED
  BY <1>1, ChecksumInvariance, PTL
===============================================================================
