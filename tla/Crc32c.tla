-------------------------------- MODULE Crc32c --------------------------------
(***************************************************************************)
(* The CRC-32C of a block's content (src/pbsf/crc-32.cc): by the table, or *)
(* by the SSE 4.2 instructions, byte by byte up to an aligned address,     *)
(* then in words of eight, then byte by byte again.  A word of 32 bits, or *)
(* a byte, is the set of its bits that are one: x ^ y is the symmetric     *)
(* difference, and a byte is the word with the same bits.  The loops are   *)
(* followed step by step.                                                  *)
(***************************************************************************)
EXTENDS Integers, Sequences, FiniteSetsExt

CONSTANTS
    Starts,         \* the addresses at which buffers begin
    MaxCount,       \* bound on the length of a buffer
    Contents        \* what may be in memory: for each name a function from addresses to bytes

VARIABLES
    path,       \* which implementation computes: "sse" or "generic"
    str, count, \* the buffer: its address and length
    content,    \* the name of what is in memory
    phase,      \* the loop that runs: "head", "words", "tail", or "done"
    first,      \* the address that is read next
    acc         \* the accumulated checksum
checksum == <<path, str, count, content, phase, first, acc>>

Octet == SUBSET (0 .. 7)
Word == SUBSET (0 .. 31)
Memory == UNION {s .. s + MaxCount - 1 : s \in Starts}

ASSUME ChecksumAssumption ==
    /\ Starts \subseteq Nat /\ MaxCount \in Nat
    /\ Contents \in [DOMAIN Contents -> [Memory -> Octet]]

last == str + count
Byte(i) == Contents[content][i]

-----------------------------------------------------------------------------
Ones == 0 .. 31
Inverted(a) == Ones \ a
Shifted(a, n) == {k \in 0 .. 31 : k + n \in a}         \* a >> n

BitsOf(n) == {k \in 0 .. 15 : (n \div 2 ^ k) % 2 = 1}
FromHalves(high, low) == BitsOf(low) \cup {k + 16 : k \in BitsOf(high)}

\* The definition of CRC-32C: division by the polynomial, bit by bit, the least
\* significant bit first.  The instructions of the processor compute this.
Polynomial == FromHalves(\h82f6, \h3b78)
DivideBit[a \in Word] == IF 0 \in a THEN SymDiff(Shifted(a, 1), Polynomial) ELSE Shifted(a, 1)
DivideTwo(a) == DivideBit[DivideBit[a]]
DivideFour(a) == DivideTwo(DivideTwo(a))
DivideByte(a) == DivideFour(DivideFour(a))
mm_crc32_u8 == [p \in Word \X Octet |-> DivideByte(SymDiff(p[1], p[2]))]

\* Of the n bytes m has from address i on.
OfBytes(m, i, n, a) ==
    LET of[k \in 0 .. n] == IF k = 0 THEN a ELSE mm_crc32_u8[<<of[k - 1], m[i + k - 1]>>]
    IN  of[n]
mm_crc32_u64(a, i) == OfBytes(Contents[content], i, 8, a)

\* The halves of the table's words, one word after the other.
crc_32_tab == <<
    \h0000, \h0000, \hf26b, \h8303, \he13b, \h70f7, \h1350, \hf3f4, \hc79a, \h971f, \h35f1, \h141c,
    \h26a1, \he7e8, \hd4ca, \h64eb, \h8ad9, \h58cf, \h78b2, \hdbcc, \h6be2, \h2838, \h9989, \hab3b,
    \h4d43, \hcfd0, \hbf28, \h4cd3, \hac78, \hbf27, \h5e13, \h3c24, \h105e, \hc76f, \he235, \h446c,
    \hf165, \hb798, \h030e, \h349b, \hd7c4, \h5070, \h25af, \hd373, \h36ff, \h2087, \hc494, \ha384,
    \h9a87, \h9fa0, \h68ec, \h1ca3, \h7bbc, \hef57, \h89d7, \h6c54, \h5d1d, \h08bf, \haf76, \h8bbc,
    \hbc26, \h7848, \h4e4d, \hfb4b, \h20bd, \h8ede, \hd2d6, \h0ddd, \hc186, \hfe29, \h33ed, \h7d2a,
    \he727, \h19c1, \h154c, \h9ac2, \h061c, \h6936, \hf477, \hea35, \haa64, \hd611, \h580f, \h5512,
    \h4b5f, \ha6e6, \hb934, \h25e5, \h6dfe, \h410e, \h9f95, \hc20d, \h8cc5, \h31f9, \h7eae, \hb2fa,
    \h30e3, \h49b1, \hc288, \hcab2, \hd1d8, \h3946, \h23b3, \hba45, \hf779, \hdeae, \h0512, \h5dad,
    \h1642, \hae59, \he429, \h2d5a, \hba3a, \h117e, \h4851, \h927d, \h5b01, \h6189, \ha96a, \he28a,
    \h7da0, \h8661, \h8fcb, \h0562, \h9c9b, \hf696, \h6ef0, \h7595, \h417b, \h1dbc, \hb310, \h9ebf,
    \ha040, \h6d4b, \h522b, \hee48, \h86e1, \h8aa3, \h748a, \h09a0, \h67da, \hfa54, \h95b1, \h7957,
    \hcba2, \h4573, \h39c9, \hc670, \h2a99, \h3584, \hd8f2, \hb687, \h0c38, \hd26c, \hfe53, \h516f,
    \hed03, \ha29b, \h1f68, \h2198, \h5125, \hdad3, \ha34e, \h59d0, \hb01e, \haa24, \h4275, \h2927,
    \h96bf, \h4dcc, \h64d4, \hcecf, \h7784, \h3d3b, \h85ef, \hbe38, \hdbfc, \h821c, \h2997, \h011f,
    \h3ac7, \hf2eb, \hc8ac, \h71e8, \h1c66, \h1503, \hee0d, \h9600, \hfd5d, \h65f4, \h0f36, \he6f7,
    \h61c6, \h9362, \h93ad, \h1061, \h80fd, \he395, \h7296, \h6096, \ha65c, \h047d, \h5437, \h877e,
    \h4767, \h748a, \hb50c, \hf789, \heb1f, \hcbad, \h1974, \h48ae, \h0a24, \hbb5a, \hf84f, \h3859,
    \h2c85, \h5cb2, \hdeee, \hdfb1, \hcdbe, \h2c45, \h3fd5, \haf46, \h7198, \h540d, \h83f3, \hd70e,
    \h90a3, \h24fa, \h62c8, \ha7f9, \hb602, \hc312, \h4469, \h4011, \h5739, \hb3e5, \ha552, \h30e6,
    \hfb41, \h0cc2, \h092a, \h8fc1, \h1a7a, \h7c35, \he811, \hff36, \h3cdb, \h9bdd, \hceb0, \h18de,
    \hdde0, \heb2a, \h2f8b, \h6829, \h82f6, \h3b78, \h709d, \hb87b, \h63cd, \h4b8f, \h91a6, \hc88c,
    \h456c, \hac67, \hb707, \h2f64, \ha457, \hdc90, \h563c, \h5f93, \h082f, \h63b7, \hfa44, \he0b4,
    \he914, \h1340, \h1b7f, \h9043, \hcfb5, \hf4a8, \h3dde, \h77ab, \h2e8e, \h845f, \hdce5, \h075c,
    \h92a8, \hfc17, \h60c3, \h7f14, \h7393, \h8ce0, \h81f8, \h0fe3, \h5532, \h6b08, \ha759, \he80b,
    \hb409, \h1bff, \h4662, \h98fc, \h1871, \ha4d8, \hea1a, \h27db, \hf94a, \hd42f, \h0b21, \h572c,
    \hdfeb, \h33c7, \h2d80, \hb0c4, \h3ed0, \h4330, \hccbb, \hc033, \ha24b, \hb5a6, \h5020, \h36a5,
    \h4370, \hc551, \hb11b, \h4652, \h65d1, \h22b9, \h97ba, \ha1ba, \h84ea, \h524e, \h7681, \hd14d,
    \h2892, \hed69, \hdaf9, \h6e6a, \hc9a9, \h9d9e, \h3bc2, \h1e9d, \hef08, \h7a76, \h1d63, \hf975,
    \h0e33, \h0a81, \hfc58, \h8982, \hb215, \h72c9, \h407e, \hf1ca, \h532e, \h023e, \ha145, \h813d,
    \h758f, \he5d6, \h87e4, \h66d5, \h94b4, \h9521, \h66df, \h1622, \h38cc, \h2a06, \hcaa7, \ha905,
    \hd9f7, \h5af1, \h2b9c, \hd9f2, \hff56, \hbd19, \h0d3d, \h3e1a, \h1e6d, \hcdee, \hec06, \h4eed,
    \hc38d, \h26c4, \h31e6, \ha5c7, \h22b6, \h5633, \hd0dd, \hd530, \h0417, \hb1db, \hf67c, \h32d8,
    \he52c, \hc12c, \h1747, \h422f, \h4954, \h7e0b, \hbb3f, \hfd08, \ha86f, \h0efc, \h5a04, \h8dff,
    \h8ece, \he914, \h7ca5, \h6a17, \h6ff5, \h99e3, \h9d9e, \h1ae0, \hd3d3, \he1ab, \h21b8, \h62a8,
    \h32e8, \h915c, \hc083, \h125f, \h1449, \h76b4, \he622, \hf5b7, \hf572, \h0643, \h0719, \h8540,
    \h590a, \hb964, \hab61, \h3a67, \hb831, \hc993, \h4a5a, \h4a90, \h9e90, \h2e7b, \h6cfb, \had78,
    \h7fab, \h5e8c, \h8dc0, \hdd8f, \he330, \ha81a, \h115b, \h2b19, \h020b, \hd8ed, \hf060, \h5bee,
    \h24aa, \h3f05, \hd6c1, \hbc06, \hc591, \h4ff2, \h37fa, \hccf1, \h69e9, \hf0d5, \h9b82, \h73d6,
    \h88d2, \h8022, \h7ab9, \h0321, \hae73, \h67ca, \h5c18, \he4c9, \h4f48, \h173d, \hbd23, \h943e,
    \hf36e, \h6f75, \h0105, \hec76, \h1255, \h1f82, \he03e, \h9c81, \h34f4, \hf86a, \hc69f, \h7b69,
    \hd5cf, \h889d, \h27a4, \h0b9e, \h79b7, \h37ba, \h8bdc, \hb4b9, \h988c, \h474d, \h6ae7, \hc44e,
    \hbe2d, \ha0a5, \h4c46, \h23a6, \h5f16, \hd052, \had7d, \h5351 >>
table(index) ==
    LET n == MapThenSumSet(LAMBDA k : 2 ^ k, index)
    IN  FromHalves(crc_32_tab[2 * n + 1], crc_32_tab[2 * n + 2])

\* What the 256 words are: the division of every byte.  It has no variable or
\* constant in it, so that its evaluation decides it.
ASSUME TableAssumption == \A byte \in Octet : table(byte) = DivideByte(byte)

-----------------------------------------------------------------------------
align_ceil(p) == ((p + 7) \div 8) * 8
\* A wrong version: rounded to the end of the last word that has bytes of the buffer.
align_floor_up(p) == ((p + 7) \div 8) * 8
align_floor(p) == (p \div 8) * 8

aligned_begin == align_ceil(str)
aligned_end == align_floor(last)

\* Where each loop stops, and which one is next.
head_end == IF aligned_begin > last THEN last ELSE aligned_begin
Enter(p, at) == phase' = p /\ first' = at /\ UNCHANGED acc
Return == phase' = "done" /\ acc' = Inverted(acc) /\ UNCHANGED first

HeadBytes ==
    /\ path = "sse" /\ phase = "head"
    /\ IF first # head_end
       THEN acc' = mm_crc32_u8[<<acc, Byte(first)>>] /\ first' = first + 1 /\ UNCHANGED phase
       ELSE IF aligned_begin > last THEN Return
            ELSE Enter("words", aligned_begin)

AlignedWords ==
    /\ phase = "words"
    /\ IF first # aligned_end
       THEN acc' = mm_crc32_u64(acc, first) /\ first' = first + 8 /\ UNCHANGED phase
       ELSE Enter("tail", aligned_end)

\* A wrong version: the bytes after the last whole word are forgotten.
TailBytesOmitted == phase = "tail" /\ Return

TailBytes ==
    /\ phase = "tail"
    /\ IF first # last
       THEN acc' = mm_crc32_u8[<<acc, Byte(first)>>] /\ first' = first + 1 /\ UNCHANGED phase
       ELSE Return

\* A wrong version: the index is taken before the byte is mixed in.
table_step_unmixed(a, byte) == SymDiff(table(a \cap 0 .. 7), Shifted(a, 8))
table_step(a, byte) == SymDiff(table(SymDiff(a, byte) \cap 0 .. 7), Shifted(a, 8))

Generic ==
    /\ path = "generic" /\ phase = "head"
    /\ IF first # last
       THEN acc' = table_step(acc, Byte(first)) /\ first' = first + 1 /\ UNCHANGED phase
       ELSE Return

ChecksumInit ==
    /\ path \in {"sse", "generic"} /\ content \in DOMAIN Contents
    /\ str \in Starts /\ count \in 0 .. MaxCount
    /\ phase = "head" /\ first = str /\ acc = Ones

ChecksumNext ==
    (HeadBytes \/ AlignedWords \/ TailBytes \/ Generic) /\ UNCHANGED <<path, str, count, content>>

\* A call runs to its end.
ChecksumSpec == ChecksumInit /\ [][ChecksumNext]_checksum /\ WF_checksum(ChecksumNext)

-----------------------------------------------------------------------------
\* However the buffer lies in memory and however long it is, both
\* implementations have, at every step of every loop, the CRC-32C of exactly
\* the bytes before the one that is next: none is left out between the loops,
\* taken twice or out of order, and both give the checksum the format names.
ChecksumOfPrefix ==
    LET crc == OfBytes(Contents[content], str, first - str, Ones)
    IN  acc = IF phase = "done" THEN Inverted(crc) ELSE crc

\* Nothing outside the buffer is read: every loop stays inside it, wherever it
\* lies and however short it is, and a word that is read lies inside it whole.
InsideBuffer ==
    /\ first \in str .. last
    /\ phase = "words" /\ first # aligned_end => first + 8 <= last

\* The loops, which stop on equality of addresses only, all come to their end,
\* with every byte of the buffer read.
ComesToEnd == <>(phase = "done" /\ first = last)

=============================================================================
