---------------------------- MODULE MCBlockCodec -----------------------------
(***************************************************************************)
(* What becomes of the content of a block: its encoding and its checksum.  *)
(* BlockCodec takes the checksum for a function, and the two share no      *)
(* state: a behaviour computes a checksum, of an empty buffer when blocks  *)
(* are encoded and decoded after it.                                       *)
(***************************************************************************)
EXTENDS BlockCodec, Crc32c

\* Every size an unsigned can hold, with 16 for 2^32, and some beyond it.
MCSizes == 0 .. UnsignedRange + 1

\* Every alignment.
MCStarts == 8 .. 15

\* Ones, and bytes that are different at every address.
MCContents ==
    LET bytes(m, c) == [i \in Memory |-> {k \in 0 .. 7 : ((i * m + c) \div 2 ^ k) % 2 = 1}]
    IN  [ones |-> bytes(0, 255), different |-> bytes(37, 11)]

\* An empty buffer, after whose checksum blocks are encoded.
Empty == path = "sse" /\ str = 8 /\ count = 0 /\ content = "ones"

MCInit == Init /\ ChecksumInit /\ (Empty \/ (env = "unset" /\ raw = 0))

Codec == Empty /\ phase = "done" /\ Next /\ UNCHANGED checksum
Checksum == ChecksumNext /\ UNCHANGED vars

\* A call of crc32c runs to its end.
MCSpec ==
    /\ MCInit /\ [][Codec \/ Checksum]_<<vars, checksum>>
    /\ WF_<<vars, checksum>>(Checksum)
==============================================================================
