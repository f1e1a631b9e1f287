------------------------------- MODULE VarUint -------------------------------
(***************************************************************************)
(* Variable length unsigned integers (pbss/impl/pbss-var-uint.hh): the     *)
(* digits of a number, the lowest first, one in each byte, with Radix      *)
(* added in all bytes but the last.  Radix is 128 in the code, where it is *)
(* the continuation bit, and a byte is a number below twice it.            *)
(***************************************************************************)
EXTENDS Integers, Sequences, FiniteSetsExt

CONSTANTS Radix,      \* 2^7: what one byte of a variable length integer holds
          UIntLimit   \* 2^64: values of size_t are below it; not a power of Radix

ASSUME WidthAssumption ==
    /\ Radix \in Nat \ {0, 1}
    /\ UIntLimit \in Nat /\ UIntLimit > Radix

Byte == 0..(2 * Radix - 1)

\* What a call that parses returns: a value and the position of the next byte.
\* Position 0 stands for early_eof_error, which every caller passes on.
Eof == [val |-> 0, pos |-> 0]
At(v, p) == [val |-> v, pos |-> p]

write_var_uint(n) ==
    LET bytes[k \in Nat] ==
          IF k < Radix THEN <<k>> ELSE <<(k % Radix) + Radix>> \o bytes[k \div Radix]
    IN  bytes[n]

\* The same by the compiler, for a length it knows.
static_vuint_serialization(n) ==
    LET bytes[k \in Nat] ==
          IF k \div Radix > 0 THEN <<(k % Radix) + Radix>> \o bytes[k \div Radix] ELSE <<k>>
    IN  bytes[n]

static_vuint_size(n) ==
    LET size[k \in Nat] == IF k \div Radix > 0 THEN size[k \div Radix] + 1 ELSE 1 IN size[n]

\* aot_size of a variable length integer, had it counted one shift too few.
aot_vuint_size_short(n) ==
    LET size[k \in Nat] == IF k \div Radix > 1 THEN 1 + size[k \div Radix] ELSE 1 IN size[n]

aot_vuint_size(n) ==
    LET size[k \in Nat] == IF k \div Radix > 0 THEN 1 + size[k \div Radix] ELSE 1 IN size[n]

\* `unit' is the weight of the next digit; what does not fit into the type is lost.
ReadDigit(r, byte) ==
    [n |-> r.n + (((byte % Radix) * r.unit) % UIntLimit),
     unit |-> (r.unit * Radix) % UIntLimit]

\* The loop over the k bytes from position p on.
Digits(s, p, k) ==
    LET after[j \in 0 .. k] ==
          IF j = 0 THEN [n |-> 0, unit |-> 1] ELSE ReadDigit(after[j - 1], s[p + j - 1])
    IN  after[k].n

\* The positions from p on at which the loop stops.
Lasts(s, p) == {q \in p .. Len(s) : s[q] < Radix}

read_var_uint(s, p) ==
    IF p = 0 \/ Lasts(s, p) = {} THEN Eof
    ELSE LET last == Min(Lasts(s, p)) IN At(Digits(s, p, last - p + 1), last + 1)

==============================================================================
