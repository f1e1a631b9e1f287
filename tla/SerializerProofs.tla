-------------------------- MODULE SerializerProofs --------------------------
(***************************************************************************)
(* Writing objects.  Variable length integers, for every Radix, every width *)
(* of the type and every number: the sizes computed beforehand are those   *)
(* of what is written, the compiler writes the same bytes as the program,  *)
(* reading gives the number back and stops after its last byte, wherever   *)
(* it is in the input, and input that ends inside it is reported.          *)
(*                                                                         *)
(* Then every type and every value of it: what is written are bytes, as    *)
(* many as were computed beforehand.  Both are functions of what an object *)
(* is made of; that these recursions have a result, and what it is, is by  *)
(* induction over the depth of the types.                                  *)
(***************************************************************************)
EXTENDS Serializer, NaturalRecursion, SequenceTheorems

(***************************************************************************)
(* Digits.                                                                 *)
(***************************************************************************)
LEMMA Digit ==
    ASSUME NEW n \in Nat
    PROVE  /\ Radix \in Nat /\ Radix > 1
           /\ n \div Radix \in Nat /\ n % Radix \in Nat /\ n % Radix < Radix
           /\ n = (n \div Radix) * Radix + (n % Radix)
           /\ n < Radix => n \div Radix = 0 /\ n % Radix = n
           /\ n >= Radix => n \div Radix > 0
           /\ n > 0 => n \div Radix < n
           /\ n < Radix <=> ~(n \div Radix > 0)
<1>1. Radix \in Nat /\ Radix > 1
  BY WidthAssumption
<1> DEFINE q == n \div Radix
           r == n % Radix
<1>2. q \in Int /\ r \in Nat /\ r < Radix /\ n = q * Radix + r
  BY <1>1
<1> HIDE DEF q, r
<1>3. \A x, y \in Int : y > 1 /\ x < 0 => x * y <= -y
  OBVIOUS
<1>4. q >= 0
  BY <1>1, <1>2, <1>3
<1>5. \A x, y \in Nat : y > 1 /\ x > 0 => x * y >= y /\ x * y > x
  OBVIOUS
<1>6. /\ n < Radix => q = 0 /\ r = n
      /\ n >= Radix => q > 0
      /\ n > 0 => q < n
  BY <1>1, <1>2, <1>4, <1>5
<1>7. n < Radix <=> ~(q > 0)
  <2>1. n < Radix \/ n >= Radix
    BY <1>1
  <2> QED
    BY <1>1, <1>2, <1>6, <2>1
<1> QED
  BY <1>1, <1>2, <1>4, <1>6, <1>7 DEF q, r

\* A set with the numbers of one digit, and each number whose quotient it has.
LEMMA DigitInduction ==
    ASSUME NEW S \in SUBSET Nat,
           \A k \in Nat : (k >= Radix => k \div Radix \in S) => k \in S
    PROVE  S = Nat
<1>1. SUFFICES ASSUME Nat \ S # {} PROVE FALSE
  OBVIOUS
<1>2. PICK m \in Nat \ S : \A y \in Nat \ S : m <= y
  <2>1. Nat \ S \in SUBSET Nat
    OBVIOUS
  <2> QED
    BY <1>1, <2>1, Least
<1>3. m \in Nat /\ m >= Radix
  BY <1>2
<1>4. m \div Radix \in Nat /\ m \div Radix < m
  BY <1>3, Digit
<1>5. m \div Radix \in S
  BY <1>2, <1>3, <1>4
<1> QED
  BY <1>2, <1>3, <1>5

\* What is defined for numbers of one digit, and for others by their quotients, exists.
ByDigits(r, S, b, c) ==
    r \in [Nat -> S]
    /\ \A k \in Nat : r[k] = IF k < Radix THEN b[k] ELSE c[<<k, r[k \div Radix]>>]

LEMMA DigitRecursion ==
    ASSUME NEW S, NEW b, NEW c, b \in [Nat -> S], MapsEach(c, S)
    PROVE  \E r : ByDigits(r, S, b, c)
<1> DEFINE e == [n \in Nat |-> n \div Radix]
           f == [p \in Nat \X S |-> IF p[1] < Radix THEN b[p[1]] ELSE c[p]]
<1>1. Falls(e)
  <2>1. \A n \in Nat : n \div Radix \in Nat
    BY Digit
  <2>2. ASSUME NEW n \in Nat PROVE e[n + 1] <= n
    <3>1. n + 1 \in Nat /\ n + 1 > 0
      OBVIOUS
    <3>2. (n + 1) \div Radix \in Nat /\ (n + 1) \div Radix < n + 1
      BY <3>1, Digit
    <3> QED
      BY <3>1, <3>2
  <2> QED
    BY <2>1, <2>2 DEF Falls
<1>2. MapsEach(f, S)
  BY DEF MapsEach
<1>3. b[0] \in S
  OBVIOUS
<1>4. PICK r : Descends(r, S, f, e, b[0])
  <2> HIDE DEF e, f
  <2> QED
    BY <1>1, <1>2, <1>3, Descending
<1>5. r \in [Nat -> S] /\ r[0] = b[0] /\ \A n \in Nat : r[n + 1] = f[<<n + 1, r[e[n + 1]]>>]
  <2> HIDE DEF e, f
  <2> QED
    BY <1>4 DEF Descends
<1>6. ASSUME NEW k \in Nat
      PROVE  r[k] = IF k < Radix THEN b[k] ELSE c[<<k, r[k \div Radix]>>]
  <2>1. CASE k = 0
    BY <1>5, <2>1, Digit
  <2>2. CASE k # 0
    <3>1. k - 1 \in Nat /\ (k - 1) + 1 = k /\ k \div Radix \in Nat
      BY <2>2, Digit
    <3>2. r[k] = f[<<k, r[e[k]]>>] /\ e[k] = k \div Radix
      <4>1. r[(k - 1) + 1] = f[<<(k - 1) + 1, r[e[(k - 1) + 1]]>>]
        BY <1>5, <3>1
      <4> HIDE DEF f
      <4> QED
        BY <3>1, <4>1
    <3>3. <<k, r[k \div Radix]>> \in Nat \X S
      BY <1>5, <3>1
    <3> QED
      BY <3>2, <3>3
  <2> QED
    BY <2>1, <2>2
<1>7. ByDigits(r, S, b, c)
  BY <1>5, <1>6 DEF ByDigits
<1> QED
  BY <1>7

(***************************************************************************)
(* The recursive definitions, unfolded once.                               *)
(***************************************************************************)
LEMMA WriteUnfolds ==
    ASSUME NEW n \in Nat
    PROVE  write_var_uint(n) = IF n < Radix THEN <<n>>
                   ELSE <<(n % Radix) + Radix>> \o write_var_uint(n \div Radix)
<1> DEFINE S == Seq(Nat)
           b == [k \in Nat |-> <<k>>]
           c == [p \in Nat \X S |-> <<(p[1] % Radix) + Radix>> \o p[2]]
           Body(g) == [k \in Nat |-> IF k < Radix THEN <<k>> ELSE <<(k % Radix) + Radix>> \o g[k \div Radix]]
           f == CHOOSE g : g = Body(g)
<1>1. b \in [Nat -> S] /\ MapsEach(c, S)
  <2>1. \A p \in Nat \X S : p[1] % Radix \in Nat /\ Radix \in Nat
    BY Digit
  <2>2. \A p \in Nat \X S : <<(p[1] % Radix) + Radix>> \o p[2] \in S
    BY <2>1
  <2> QED
    BY <2>2 DEF MapsEach
<1>2. PICK r : ByDigits(r, S, b, c)
  <2> HIDE DEF S, b, c
  <2> QED
    BY <1>1, DigitRecursion DEF MapsEach
<1>3. r \in [Nat -> S]
      /\ \A k \in Nat : r[k] = IF k < Radix THEN b[k] ELSE c[<<k, r[k \div Radix]>>]
  <2> HIDE DEF S, b, c
  <2> QED
    BY <1>2 DEF ByDigits
<1>4. ASSUME NEW k \in Nat PROVE r[k] = Body(r)[k]
  <2>1. k \div Radix \in Nat /\ (k < Radix <=> ~(k \div Radix > 0))
    BY Digit
  <2>2. <<k, r[k \div Radix]>> \in Nat \X S
    BY <1>3, <2>1
  <2>3. r[k] = IF k < Radix THEN b[k] ELSE c[<<k, r[k \div Radix]>>]
    BY <1>3
  <2>4. c[<<k, r[k \div Radix]>>] = <<(k % Radix) + Radix>> \o r[k \div Radix]
    BY <2>2
  <2>5. b[k] = <<k>>
    OBVIOUS
  <2> HIDE DEF b, c, S
  <2> QED
    BY <2>1, <2>3, <2>4, <2>5
<1>5. r = Body(r)
  BY <1>3, <1>4
<1>6. f = Body(f)
  <2> HIDE DEF Body
  <2> QED
    BY <1>5
<1>7. \A k \in Nat : write_var_uint(k) = f[k]
  BY Zenon DEF write_var_uint
<1> HIDE DEF f
<1>8. f[n] = IF n < Radix THEN <<n>> ELSE <<(n % Radix) + Radix>> \o f[n \div Radix]
  BY <1>6
<1>9. n \div Radix \in Nat /\ (n < Radix <=> ~(n \div Radix > 0))
  BY Digit
<1> QED
  BY <1>7, <1>8, <1>9

LEMMA StaticWriteUnfolds ==
    ASSUME NEW n \in Nat
    PROVE  static_vuint_serialization(n) = IF n < Radix THEN <<n>>
                   ELSE <<(n % Radix) + Radix>> \o static_vuint_serialization(n \div Radix)
<1> DEFINE S == Seq(Nat)
           b == [k \in Nat |-> <<k>>]
           c == [p \in Nat \X S |-> <<(p[1] % Radix) + Radix>> \o p[2]]
           Body(g) == [k \in Nat |-> IF k \div Radix > 0 THEN <<(k % Radix) + Radix>> \o g[k \div Radix] ELSE <<k>>]
           f == CHOOSE g : g = Body(g)
<1>1. b \in [Nat -> S] /\ MapsEach(c, S)
  <2>1. \A p \in Nat \X S : p[1] % Radix \in Nat /\ Radix \in Nat
    BY Digit
  <2>2. \A p \in Nat \X S : <<(p[1] % Radix) + Radix>> \o p[2] \in S
    BY <2>1
  <2> QED
    BY <2>2 DEF MapsEach
<1>2. PICK r : ByDigits(r, S, b, c)
  <2> HIDE DEF S, b, c
  <2> QED
    BY <1>1, DigitRecursion DEF MapsEach
<1>3. r \in [Nat -> S]
      /\ \A k \in Nat : r[k] = IF k < Radix THEN b[k] ELSE c[<<k, r[k \div Radix]>>]
  <2> HIDE DEF S, b, c
  <2> QED
    BY <1>2 DEF ByDigits
<1>4. ASSUME NEW k \in Nat PROVE r[k] = Body(r)[k]
  <2>1. k \div Radix \in Nat /\ (k < Radix <=> ~(k \div Radix > 0))
    BY Digit
  <2>2. <<k, r[k \div Radix]>> \in Nat \X S
    BY <1>3, <2>1
  <2>3. r[k] = IF k < Radix THEN b[k] ELSE c[<<k, r[k \div Radix]>>]
    BY <1>3
  <2>4. c[<<k, r[k \div Radix]>>] = <<(k % Radix) + Radix>> \o r[k \div Radix]
    BY <2>2
  <2>5. b[k] = <<k>>
    OBVIOUS
  <2> HIDE DEF b, c, S
  <2> QED
    BY <2>1, <2>3, <2>4, <2>5
<1>5. r = Body(r)
  BY <1>3, <1>4
<1>6. f = Body(f)
  <2> HIDE DEF Body
  <2> QED
    BY <1>5
<1>7. \A k \in Nat : static_vuint_serialization(k) = f[k]
  BY Zenon DEF static_vuint_serialization
<1> HIDE DEF f
<1>8. f[n] = IF n \div Radix > 0 THEN <<(n % Radix) + Radix>> \o f[n \div Radix] ELSE <<n>>
  BY <1>6
<1>9. n \div Radix \in Nat /\ (n < Radix <=> ~(n \div Radix > 0))
  BY Digit
<1> QED
  BY <1>7, <1>8, <1>9

LEMMA StaticSizeUnfolds ==
    ASSUME NEW n \in Nat
    PROVE  static_vuint_size(n) = IF n < Radix THEN 1
                   ELSE static_vuint_size(n \div Radix) + 1
<1> DEFINE S == Nat
           b == [k \in Nat |-> 1]
           c == [p \in Nat \X S |-> p[2] + 1]
           Body(g) == [k \in Nat |-> IF k \div Radix > 0 THEN g[k \div Radix] + 1 ELSE 1]
           f == CHOOSE g : g = Body(g)
<1>1. b \in [Nat -> S] /\ MapsEach(c, S)
  <2>1. \A p \in Nat \X S : p[1] % Radix \in Nat /\ Radix \in Nat
    BY Digit
  <2>2. \A p \in Nat \X S : p[2] + 1 \in S
    BY <2>1
  <2> QED
    BY <2>2 DEF MapsEach
<1>2. PICK r : ByDigits(r, S, b, c)
  <2> HIDE DEF S, b, c
  <2> QED
    BY <1>1, DigitRecursion DEF MapsEach
<1>3. r \in [Nat -> S]
      /\ \A k \in Nat : r[k] = IF k < Radix THEN b[k] ELSE c[<<k, r[k \div Radix]>>]
  <2> HIDE DEF S, b, c
  <2> QED
    BY <1>2 DEF ByDigits
<1>4. ASSUME NEW k \in Nat PROVE r[k] = Body(r)[k]
  <2>1. k \div Radix \in Nat /\ (k < Radix <=> ~(k \div Radix > 0))
    BY Digit
  <2>2. <<k, r[k \div Radix]>> \in Nat \X S
    BY <1>3, <2>1
  <2>3. r[k] = IF k < Radix THEN b[k] ELSE c[<<k, r[k \div Radix]>>]
    BY <1>3
  <2>4. c[<<k, r[k \div Radix]>>] = r[k \div Radix] + 1
    BY <2>2
  <2>5. b[k] = 1
    OBVIOUS
  <2> HIDE DEF b, c, S
  <2> QED
    BY <2>1, <2>3, <2>4, <2>5
<1>5. r = Body(r)
  BY <1>3, <1>4
<1>6. f = Body(f)
  <2> HIDE DEF Body
  <2> QED
    BY <1>5
<1>7. \A k \in Nat : static_vuint_size(k) = f[k]
  BY Zenon DEF static_vuint_size
<1> HIDE DEF f
<1>8. f[n] = IF n \div Radix > 0 THEN f[n \div Radix] + 1 ELSE 1
  BY <1>6
<1>9. n \div Radix \in Nat /\ (n < Radix <=> ~(n \div Radix > 0))
  BY Digit
<1> QED
  BY <1>7, <1>8, <1>9

LEMMA SizeUnfolds ==
    ASSUME NEW n \in Nat
    PROVE  aot_vuint_size(n) = IF n < Radix THEN 1
                   ELSE 1 + aot_vuint_size(n \div Radix)
<1> DEFINE S == Nat
           b == [k \in Nat |-> 1]
           c == [p \in Nat \X S |-> 1 + p[2]]
           Body(g) == [k \in Nat |-> IF k \div Radix > 0 THEN 1 + g[k \div Radix] ELSE 1]
           f == CHOOSE g : g = Body(g)
<1>1. b \in [Nat -> S] /\ MapsEach(c, S)
  <2>1. \A p \in Nat \X S : p[1] % Radix \in Nat /\ Radix \in Nat
    BY Digit
  <2>2. \A p \in Nat \X S : 1 + p[2] \in S
    BY <2>1
  <2> QED
    BY <2>2 DEF MapsEach
<1>2. PICK r : ByDigits(r, S, b, c)
  <2> HIDE DEF S, b, c
  <2> QED
    BY <1>1, DigitRecursion DEF MapsEach
<1>3. r \in [Nat -> S]
      /\ \A k \in Nat : r[k] = IF k < Radix THEN b[k] ELSE c[<<k, r[k \div Radix]>>]
  <2> HIDE DEF S, b, c
  <2> QED
    BY <1>2 DEF ByDigits
<1>4. ASSUME NEW k \in Nat PROVE r[k] = Body(r)[k]
  <2>1. k \div Radix \in Nat /\ (k < Radix <=> ~(k \div Radix > 0))
    BY Digit
  <2>2. <<k, r[k \div Radix]>> \in Nat \X S
    BY <1>3, <2>1
  <2>3. r[k] = IF k < Radix THEN b[k] ELSE c[<<k, r[k \div Radix]>>]
    BY <1>3
  <2>4. c[<<k, r[k \div Radix]>>] = 1 + r[k \div Radix]
    BY <2>2
  <2>5. b[k] = 1
    OBVIOUS
  <2> HIDE DEF b, c, S
  <2> QED
    BY <2>1, <2>3, <2>4, <2>5
<1>5. r = Body(r)
  BY <1>3, <1>4
<1>6. f = Body(f)
  <2> HIDE DEF Body
  <2> QED
    BY <1>5
<1>7. \A k \in Nat : aot_vuint_size(k) = f[k]
  BY Zenon DEF aot_vuint_size
<1> HIDE DEF f
<1>8. f[n] = IF n \div Radix > 0 THEN 1 + f[n \div Radix] ELSE 1
  BY <1>6
<1>9. n \div Radix \in Nat /\ (n < Radix <=> ~(n \div Radix > 0))
  BY Digit
<1> QED
  BY <1>7, <1>8, <1>9

(***************************************************************************)
(* What is written.                                                        *)
(***************************************************************************)
LEMMA Prepended ==
    ASSUME NEW S, NEW x \in S, NEW s \in Seq(S)
    PROVE  /\ <<x>> \o s \in Seq(S) /\ Len(<<x>> \o s) = Len(s) + 1
           /\ (<<x>> \o s)[1] = x
           /\ \A i \in 1 .. Len(s) : (<<x>> \o s)[i + 1] = s[i]
  OBVIOUS

\* All bytes but the last have the continuation bit.
Continued(b) ==
    /\ b \in Seq(Byte) /\ Len(b) >= 1 /\ b[Len(b)] < Radix
    /\ \A i \in 1 .. Len(b) - 1 : b[i] >= Radix

LEMMA Written ==
    ASSUME NEW n \in Nat PROVE Continued(write_var_uint(n))
<1> DEFINE Good == {k \in Nat : Continued(write_var_uint(k))}
<1>1. ASSUME NEW k \in Nat, k >= Radix => k \div Radix \in Good PROVE k \in Good
  <2>1. Radix \in Nat /\ k \div Radix \in Nat /\ k % Radix \in Nat /\ k % Radix < Radix
    BY Digit
  <2>2. CASE k < Radix
    <3>1. write_var_uint(k) = <<k>>
      BY <2>2, WriteUnfolds
    <3>2. <<k>> \in Seq(Byte) /\ Len(<<k>>) = 1 /\ <<k>>[1] = k
      BY <2>1, <2>2 DEF Byte
    <3>3. Len(<<k>>) - 1 = 0 /\ <<k>>[Len(<<k>>)] < Radix /\ Len(<<k>>) >= 1
      BY <2>2, <3>2
    <3>4. 1 .. 0 = {}
      OBVIOUS
    <3>5. Continued(<<k>>)
      <4> DEFINE b == <<k>>
      <4> HIDE DEF b
      <4> QED
        BY <3>2, <3>3, <3>4 DEF Continued, b
    <3> QED
      BY <3>1, <3>5
  <2>3. CASE k >= Radix
    <3> DEFINE s == write_var_uint(k \div Radix)
               x == (k % Radix) + Radix
               t == <<x>> \o s
    <3>1. write_var_uint(k) = t
      <4>1. ~(k < Radix)
        BY <2>1, <2>3
      <4> QED
        BY <4>1, WriteUnfolds, Zenon
    <3>2. Continued(s)
      BY <1>1, <2>3
    <3>3. x \in Byte /\ x >= Radix
      BY <2>1 DEF Byte
    <3> HIDE DEF s, x
    <3>4. s \in Seq(Byte) /\ Len(s) \in Nat /\ Len(s) >= 1 /\ s[Len(s)] < Radix
          /\ \A i \in 1 .. Len(s) - 1 : s[i] >= Radix
      BY <3>2 DEF Continued
    <3>5. t \in Seq(Byte) /\ Len(t) = Len(s) + 1 /\ t[1] = x
          /\ \A i \in 1 .. Len(s) : t[i + 1] = s[i]
      BY <3>3, <3>4, Prepended
    <3> HIDE DEF t
    <3>6. t[Len(t)] < Radix
      BY <3>4, <3>5
    <3>7. ASSUME NEW i \in 1 .. Len(t) - 1 PROVE t[i] >= Radix
      <4>1. CASE i = 1
        BY <3>3, <3>5, <4>1
      <4>2. CASE i # 1
        <5>1. i - 1 \in 1 .. Len(s) /\ i - 1 \in 1 .. Len(s) - 1 /\ (i - 1) + 1 = i
          BY <3>4, <3>5, <4>2
        <5>2. t[(i - 1) + 1] = s[i - 1]
          BY <3>5, <5>1
        <5> QED
          BY <3>4, <5>1, <5>2
      <4> QED
        BY <4>1, <4>2
    <3> QED
      BY <3>1, <3>4, <3>5, <3>6, <3>7 DEF Continued
  <2> QED
    BY <2>1, <2>2, <2>3
<1>2. Good = Nat
  <2>1. Good \in SUBSET Nat
    OBVIOUS
  <2> HIDE DEF Good
  <2> QED
    BY <1>1, <2>1, DigitInduction
<1> QED
  BY <1>2

\* aot_size and the compiler's size of a number are the length of what is written,
\* whatever the number (var_uint::size, static_vuint_size; the check of save before
\* it writes counts on it).
THEOREM SizeIsLength ==
    ASSUME NEW n \in Nat
    PROVE  /\ aot_vuint_size(n) = Len(write_var_uint(n))
           /\ static_vuint_size(n) = Len(write_var_uint(n))
<1> DEFINE l(k) == Len(write_var_uint(k))
           Good == {k \in Nat : aot_vuint_size(k) = l(k) /\ static_vuint_size(k) = l(k)}
<1>1. ASSUME NEW k \in Nat, k >= Radix => k \div Radix \in Good PROVE k \in Good
  <2>1. Radix \in Nat /\ k \div Radix \in Nat /\ k % Radix \in Nat
    BY Digit
  <2>2. CASE k < Radix
    <3>1. write_var_uint(k) = <<k>> /\ aot_vuint_size(k) = 1 /\ static_vuint_size(k) = 1
      BY <2>2, WriteUnfolds, SizeUnfolds, StaticSizeUnfolds
    <3> QED
      BY <3>1
  <2>3. CASE k >= Radix
    <3>1. write_var_uint(k \div Radix) \in Seq(Byte)
      BY <2>1, Written DEF Continued
    <3>2. (k % Radix) + Radix \in Byte
      BY <2>1, Digit DEF Byte
    <3>3. l(k) = l(k \div Radix) + 1
      <4>1. ~(k < Radix)
        BY <2>1, <2>3
      <4>2. write_var_uint(k) = <<(k % Radix) + Radix>> \o write_var_uint(k \div Radix)
        BY <4>1, WriteUnfolds, Zenon
      <4> QED
        BY <3>1, <3>2, <4>2, Prepended
    <3>4. l(k \div Radix) \in Nat
      BY <3>1
    <3>5. aot_vuint_size(k \div Radix) = l(k \div Radix) /\ static_vuint_size(k \div Radix) = l(k \div Radix)
      BY <1>1, <2>3
    <3> HIDE DEF l
    <3>6. aot_vuint_size(k) = 1 + aot_vuint_size(k \div Radix)
      BY <2>1, <2>3, SizeUnfolds
    <3>7. static_vuint_size(k) = static_vuint_size(k \div Radix) + 1
      BY <2>1, <2>3, StaticSizeUnfolds
    <3> QED
      BY <3>3, <3>4, <3>5, <3>6, <3>7
  <2> QED
    BY <2>1, <2>2, <2>3
<1>2. Good = Nat
  <2>1. Good \in SUBSET Nat
    OBVIOUS
  <2> HIDE DEF Good
  <2> QED
    BY <1>1, <2>1, DigitInduction
<1> QED
  BY <1>2

\* The compiler writes the bytes that the program would write
\* (static_vuint_serialization against write_var_uint), whatever the number.
THEOREM StaticSame ==
    ASSUME NEW n \in Nat PROVE static_vuint_serialization(n) = write_var_uint(n)
<1> DEFINE Good == {k \in Nat : static_vuint_serialization(k) = write_var_uint(k)}
<1>1. ASSUME NEW k \in Nat, k >= Radix => k \div Radix \in Good PROVE k \in Good
  <2>1. Radix \in Nat /\ k \div Radix \in Nat
    BY Digit
  <2>2. CASE k < Radix
    BY <2>2, WriteUnfolds, StaticWriteUnfolds
  <2>3. CASE k >= Radix
    BY <1>1, <2>1, <2>3, WriteUnfolds, StaticWriteUnfolds
  <2> QED
    BY <2>1, <2>2, <2>3
<1>2. Good = Nat
  <2>1. Good \in SUBSET Nat
    OBVIOUS
  <2> HIDE DEF Good
  <2> QED
    BY <1>1, <2>1, DigitInduction
<1> QED
  BY <1>2

(***************************************************************************)
(* Reading.                                                                *)
(***************************************************************************)
States == [n : Nat, unit : Nat]

LEMMA DigitRead ==
    ASSUME NEW r \in States, NEW b \in Nat PROVE ReadDigit(r, b) \in States
<1>1. \A x \in Nat : x % UIntLimit \in Nat
  <2>1. UIntLimit \in Nat /\ UIntLimit > 0
    BY WidthAssumption
  <2> QED
    BY <2>1
<1>2. Radix \in Nat /\ b % Radix \in Nat /\ r.n \in Nat /\ r.unit \in Nat
  BY Digit DEF States
<1>3. \A x, y \in Nat : x * y \in Nat /\ x + y \in Nat
  OBVIOUS
<1>4. ((b % Radix) * r.unit) % UIntLimit \in Nat /\ (r.unit * Radix) % UIntLimit \in Nat
  <2>1. (b % Radix) * r.unit \in Nat /\ r.unit * Radix \in Nat
    BY <1>2, <1>3
  <2> QED
    BY <1>1, <2>1
<1>5. r.n + (((b % Radix) * r.unit) % UIntLimit) \in Nat
  <2> DEFINE x == ((b % Radix) * r.unit) % UIntLimit
  <2>1. x \in Nat
    BY <1>4
  <2> HIDE DEF x
  <2>2. r.n + x \in Nat
    BY <1>2, <2>1
  <2> QED
    BY <2>2 DEF x
<1> DEFINE x == r.n + (((b % Radix) * r.unit) % UIntLimit)
           u == (r.unit * Radix) % UIntLimit
<1>6. ReadDigit(r, b) = [n |-> x, unit |-> u]
  BY DEF ReadDigit
<1>7. x \in Nat /\ u \in Nat
  BY <1>4, <1>5
<1> HIDE DEF x, u
<1> QED
  BY <1>6, <1>7 DEF States

\* The state of the loop after each of the numbers of bytes that are there.
Held(s, p, k) == \A j \in Nat : j < k => s[p + j] \in Nat
Reads(w, s, p) ==
    /\ w \in [Nat -> States] /\ w[0] = [n |-> 0, unit |-> 1]
    /\ \A k \in Nat : s[p + k] \in Nat => w[k + 1] = ReadDigit(w[k], s[p + k])
    /\ \A k \in Nat : Held(s, p, k) => Digits(s, p, k) = w[k].n

LEMMA DigitsRead ==
    ASSUME NEW s, NEW p \in Nat PROVE \E w : Reads(w, s, p)
<1> DEFINE a == [n |-> 0, unit |-> 1]
           ByteAt(k) == IF s[p + k] \in Nat THEN s[p + k] ELSE 0
           f == [q \in Nat \X States |-> ReadDigit(q[2], ByteAt(q[1]))]
<1>1. \A k : ByteAt(k) \in Nat
  OBVIOUS
<1> HIDE DEF ByteAt
<1>2. a \in States
  BY DEF States
<1>3. \A q \in Nat \X States : ReadDigit(q[2], ByteAt(q[1])) \in States
  BY <1>1, DigitRead
<1>4. PICK w : IteratesEach(w, States, f, a)
  <2>1. MapsEach(f, States)
    BY <1>3 DEF MapsEach
  <2> HIDE DEF f, a
  <2> QED
    BY <1>2, <2>1, IteratedEach
<1>5. /\ w \in [Nat -> States] /\ w[0] = a
      /\ \A k \in Nat : w[k + 1] = ReadDigit(w[k], ByteAt(k))
  <2>1. w \in [Nat -> States] /\ w[0] = a /\ \A k \in Nat : w[k + 1] = f[<<k, w[k]>>]
    <3> HIDE DEF f, a
    <3> QED
      BY <1>4 DEF IteratesEach
  <2>2. ASSUME NEW k \in Nat PROVE w[k + 1] = ReadDigit(w[k], ByteAt(k))
    <3>1. <<k, w[k]>> \in Nat \X States
      BY <2>1
    <3>2. f[<<k, w[k]>>] = ReadDigit(w[k], ByteAt(k))
      BY <3>1
    <3> QED
      BY <2>1, <3>2
  <2> HIDE DEF a
  <2> QED
    BY <2>1, <2>2
<1> HIDE DEF f
<1>6. ASSUME NEW k \in Nat, s[p + k] \in Nat PROVE w[k + 1] = ReadDigit(w[k], s[p + k])
  BY <1>5, <1>6 DEF ByteAt
<1> HIDE DEF a
<1>7. ASSUME NEW n \in Nat, Held(s, p, n) PROVE Digits(s, p, n) = w[n].n
  <2> DEFINE Body(g) == [j \in 0 .. n |-> IF j = 0 THEN [n |-> 0, unit |-> 1]
                                          ELSE ReadDigit(g[j - 1], s[p + j - 1])]
             after == CHOOSE g : g = Body(g)
             v == [j \in 0 .. n |-> w[j]]
  <2>1. v = Body(v)
    <3>1. ASSUME NEW j \in 0 .. n, j # 0 PROVE w[j] = ReadDigit(v[j - 1], s[p + j - 1])
      <4>1. j - 1 \in Nat /\ j - 1 \in 0 .. n /\ j - 1 < n /\ (j - 1) + 1 = j
            /\ p + (j - 1) = p + j - 1
        BY <3>1
      <4>2. s[p + (j - 1)] \in Nat
        BY <1>7, <4>1 DEF Held
      <4>3. w[(j - 1) + 1] = ReadDigit(w[j - 1], s[p + (j - 1)])
        BY <1>6, <4>1, <4>2
      <4>4. v[j - 1] = w[j - 1]
        BY <4>1
      <4> HIDE DEF v
      <4> QED
        BY <4>1, <4>3, <4>4
    <3>2. w[0] = [n |-> 0, unit |-> 1]
      BY <1>5 DEF a
    <3> QED
      BY <3>1, <3>2
  <2>2. after = Body(after)
    <3> HIDE DEF Body, v
    <3> QED
      BY <2>1
  <2>3. Digits(s, p, n) = after[n].n
    BY Zenon DEF Digits
  <2> HIDE DEF after
  <2> DEFINE Same == {j \in Nat : j <= n => after[j] = w[j]}
  <2>4. 0 \in Same
    BY <1>5, <2>2 DEF a
  <2>5. ASSUME NEW j \in Same PROVE j + 1 \in Same
    <3>1. j \in Nat /\ (j <= n => after[j] = w[j])
      OBVIOUS
    <3>2. ASSUME j + 1 <= n PROVE after[j + 1] = w[j + 1]
      <4>1. j + 1 \in 0 .. n /\ j + 1 # 0 /\ (j + 1) - 1 = j /\ p + (j + 1) - 1 = p + j
            /\ j < n /\ after[j] = w[j]
        BY <3>1, <3>2
      <4>2. after[j + 1] = ReadDigit(after[(j + 1) - 1], s[p + (j + 1) - 1])
        BY <2>2, <4>1
      <4>3. s[p + j] \in Nat
        BY <1>7, <3>1, <4>1 DEF Held
      <4>4. w[j + 1] = ReadDigit(w[j], s[p + j])
        BY <1>6, <3>1, <4>3
      <4> QED
        BY <4>1, <4>2, <4>4
    <3> QED
      BY <3>1, <3>2
  <2>6. Same = Nat
    <3>1. Same \in SUBSET Nat
      OBVIOUS
    <3> HIDE DEF Same
    <3> QED
      BY <2>4, <2>5, <3>1, AllOf
  <2>7. n \in Same
    BY <2>6
  <2> QED
    BY <2>3, <2>7
<1>8. Reads(w, s, p)
  BY <1>5, <1>6, <1>7 DEF Reads, a
<1> QED
  BY <1>8

\* The numeral b is what the input holds from position q on.
HoldsAt(s, q, b) == \A i \in 1 .. Len(b) : s[q + i - 1] = b[i]

\* What a digit adds when nothing is lost.
Unlost(v, u, d) ==
    /\ ((d % Radix) * u) % UIntLimit = (d % Radix) * u
    /\ d >= Radix => /\ (u * Radix) % UIntLimit = u * Radix
                     /\ (v + (d % Radix) * u) + (d \div Radix) * (u * Radix) = v + d * u
    /\ d < Radix => (d % Radix) * u = d * u

LEMMA NothingLost ==
    ASSUME NEW v \in Nat, NEW u \in Nat, NEW d \in Nat, v + d * u < UIntLimit
    PROVE  Unlost(v, u, d)
<1> DEFINE q == d \div Radix
           r == d % Radix
<1>1. /\ Radix \in Nat /\ Radix > 1 /\ q \in Nat /\ r \in Nat /\ r < Radix
      /\ d = q * Radix + r /\ (d < Radix => r = d) /\ (d >= Radix => q > 0)
  BY Digit
<1>2. UIntLimit \in Nat /\ UIntLimit > 0
  BY WidthAssumption
<1> HIDE DEF q, r
<1>3. \A x, y, z \in Nat : /\ x * y \in Nat /\ x * y = y * x /\ (x * y) * z = x * (y * z)
                           /\ (x + y) * z = x * z + y * z
  OBVIOUS
<1>4. \A x, y \in Nat : y > 0 => x <= y * x
  OBVIOUS
<1>5. \A x \in Nat : x < UIntLimit => x % UIntLimit = x
  BY <1>2
<1>6. d * u \in Nat /\ r * u \in Nat /\ q * Radix \in Nat /\ u * Radix \in Nat
      /\ q * (u * Radix) \in Nat
  BY <1>1, <1>3
<1>7. d * u = q * (u * Radix) + r * u
  <2>1. d * u = (q * Radix) * u + r * u
    BY <1>1, <1>3, <1>6
  <2>2. (q * Radix) * u = q * (Radix * u) /\ Radix * u = u * Radix
    BY <1>1, <1>3
  <2> QED
    BY <2>1, <2>2
<1>8. (r * u) % UIntLimit = r * u
  <2>1. r * u < UIntLimit
    BY <1>6, <1>7, <1>2
  <2> QED
    BY <1>5, <1>6, <2>1
<1>9. ASSUME d >= Radix
      PROVE  (u * Radix) % UIntLimit = u * Radix /\ (v + r * u) + q * (u * Radix) = v + d * u
  <2>1. u * Radix <= q * (u * Radix)
    BY <1>1, <1>4, <1>6, <1>9
  <2>2. u * Radix < UIntLimit
    BY <1>2, <1>6, <1>7, <2>1
  <2> QED
    BY <1>5, <1>6, <1>7, <2>2
<1> QED
  BY <1>1, <1>6, <1>8, <1>9 DEF q, r, Unlost

\* Reading what was written adds the number, at the weight it has there.
LEMMA Accumulated ==
    ASSUME NEW s, NEW p \in Nat, NEW w, Reads(w, s, p), NEW n \in Nat,
           NEW k \in Nat, HoldsAt(s, p + k, write_var_uint(n)),
           w[k].n + n * w[k].unit < UIntLimit
    PROVE  w[k + Len(write_var_uint(n))].n = w[k].n + n * w[k].unit
<1> DEFINE Adds(d) ==
             \A j \in Nat : HoldsAt(s, p + j, write_var_uint(d))
                            /\ w[j].n + d * w[j].unit < UIntLimit
                            => w[j + Len(write_var_uint(d))].n = w[j].n + d * w[j].unit
           Good == {d \in Nat : Adds(d)}
<1>0. /\ w \in [Nat -> States]
      /\ \A j \in Nat : s[p + j] \in Nat => w[j + 1] = ReadDigit(w[j], s[p + j])
  BY DEF Reads
<1>1. ASSUME NEW d \in Nat, d >= Radix => d \div Radix \in Good,
             NEW j \in Nat, HoldsAt(s, p + j, write_var_uint(d)),
             w[j].n + d * w[j].unit < UIntLimit
      PROVE  w[j + Len(write_var_uint(d))].n = w[j].n + d * w[j].unit
  <2> DEFINE v == w[j].n
             u == w[j].unit
             q == d \div Radix
             r == d % Radix
  <2>1. v \in Nat /\ u \in Nat
    BY <1>0 DEF States
  <2>2. Radix \in Nat /\ Radix > 1 /\ q \in Nat /\ r \in Nat /\ r < Radix
    BY Digit
  <2>3. v + d * u < UIntLimit
    BY <1>1
  <2> HIDE DEF v, u
  <2>4. /\ (r * u) % UIntLimit = r * u
        /\ d >= Radix => /\ (u * Radix) % UIntLimit = u * Radix
                         /\ (v + r * u) + q * (u * Radix) = v + d * u
        /\ d < Radix => r * u = d * u
    <3>1. Unlost(v, u, d)
      BY <2>1, <2>3, NothingLost
    <3> QED
      BY <3>1, Zenon DEF Unlost, q, r
  <2> HIDE DEF q, r
  <2>5. ASSUME NEW b \in Nat, b % Radix = r, s[p + j] = b
        PROVE  w[j + 1].n = v + r * u /\ w[j + 1].unit = (u * Radix) % UIntLimit
    <3>1. w[j + 1] = ReadDigit(w[j], b)
      BY <1>0, <2>5
    <3>2. ReadDigit(w[j], b) = [n |-> v + ((r * u) % UIntLimit), unit |-> (u * Radix) % UIntLimit]
      BY <2>5 DEF ReadDigit, v, u
    <3> QED
      BY <2>4, <3>1, <3>2
  <2>6. CASE d < Radix
    <3>1. write_var_uint(d) = <<d>> /\ d % Radix = r
      BY <2>6, WriteUnfolds DEF r
    <3>2. Len(<<d>>) = 1 /\ <<d>>[1] = d
      OBVIOUS
    <3>3. s[p + j] = d
      <4>1. HoldsAt(s, p + j, <<d>>) /\ 1 \in 1 .. Len(<<d>>) /\ (p + j) + 1 - 1 = p + j
        BY <1>1, <3>1, <3>2
      <4> QED
        BY <3>2, <4>1 DEF HoldsAt
    <3>4. w[j + 1].n = v + d * u
      BY <2>4, <2>5, <2>6, <3>1, <3>3
    <3> QED
      BY <3>1, <3>2, <3>4 DEF v, u
  <2>7. CASE d >= Radix
    <3> DEFINE t == write_var_uint(q)
               x == r + Radix
    <3>1. write_var_uint(d) = <<x>> \o t
      <4>1. ~(d < Radix)
        BY <2>2, <2>7
      <4> QED
        BY <4>1, WriteUnfolds, Zenon DEF q, r
    <3>2. x \in Byte /\ t \in Seq(Byte) /\ x \in Nat
      <4>1. Continued(t)
        BY <2>2, Written
      <4> HIDE DEF t
      <4>2. x \in Nat /\ x < 2 * Radix
        BY <2>2
      <4> QED
        BY <2>2, <4>1, <4>2 DEF Byte, Continued
    <3>3. x % Radix = r
      <4>1. x \div Radix \in Nat /\ x % Radix \in Nat /\ x % Radix < Radix
            /\ x = (x \div Radix) * Radix + (x % Radix)
        BY <3>2, Digit
      <4> DEFINE a == x \div Radix
                 b == x % Radix
      <4>2. a \in Nat /\ b \in Nat /\ b < Radix /\ r + Radix = a * Radix + b
        BY <4>1
      <4> HIDE DEF a, b, x
      <4>3. a = 1
        <5>1. \A y, z \in Nat : z >= 2 => 2 * y <= z * y
          OBVIOUS
        <5>2. a >= 2 => 2 * Radix <= a * Radix
          BY <2>2, <4>2, <5>1
        <5>3. a * Radix \in Nat /\ (a = 0 => a * Radix = 0)
          BY <2>2, <4>2
        <5>4. a # 0
          BY <2>2, <4>2, <5>3
        <5> QED
          BY <2>2, <4>2, <5>2, <5>3, <5>4
      <4>4. b = r
        BY <2>2, <4>2, <4>3
      <4> QED
        BY <4>4 DEF b
    <3> HIDE DEF t, x
    <3>4. /\ Len(t) \in Nat /\ Len(<<x>> \o t) = Len(t) + 1 /\ (<<x>> \o t)[1] = x
          /\ \A i \in 1 .. Len(t) : (<<x>> \o t)[i + 1] = t[i]
      BY <3>2, Prepended
    <3>5. HoldsAt(s, p + j, <<x>> \o t)
      BY <1>1, <3>1
    <3>6. s[p + j] = x
      <4>1. 1 \in 1 .. Len(<<x>> \o t) /\ (p + j) + 1 - 1 = p + j
        BY <3>4
      <4> QED
        BY <3>4, <3>5, <4>1 DEF HoldsAt
    <3>7. HoldsAt(s, p + (j + 1), t)
      <4>1. ASSUME NEW i \in 1 .. Len(t) PROVE s[p + (j + 1) + i - 1] = t[i]
        <5>1. i + 1 \in 1 .. Len(<<x>> \o t) /\ (p + j) + (i + 1) - 1 = p + (j + 1) + i - 1
          BY <3>4
        <5>2. s[(p + j) + (i + 1) - 1] = (<<x>> \o t)[i + 1]
          BY <3>5, <5>1 DEF HoldsAt
        <5> QED
          BY <3>4, <5>1, <5>2
      <4> QED
        BY <4>1 DEF HoldsAt
    <3>8. w[j + 1].n = v + r * u /\ w[j + 1].unit = u * Radix
      BY <2>4, <2>5, <2>7, <3>2, <3>3, <3>6
    <3>9. w[j + 1].n + q * w[j + 1].unit = v + d * u
      BY <2>4, <2>7, <3>8
    <3>10. Adds(q)
      BY <1>1, <2>7 DEF q
    <3>11. w[(j + 1) + Len(t)].n = v + d * u
      <4>1. j + 1 \in Nat /\ w[j + 1].n + q * w[j + 1].unit < UIntLimit
        BY <2>3, <3>9
      <4>2. HoldsAt(s, p + (j + 1), write_var_uint(q))
        BY <3>7 DEF t
      <4>3. w[(j + 1) + Len(write_var_uint(q))].n = w[j + 1].n + q * w[j + 1].unit
        BY <3>10, <4>1, <4>2
      <4> QED
        BY <3>9, <4>3 DEF t
    <3>12. (j + 1) + Len(t) = j + Len(write_var_uint(d))
      BY <3>1, <3>4
    <3> QED
      BY <3>11, <3>12 DEF v, u
  <2> QED
    BY <2>2, <2>6, <2>7
<1>2. \A d \in Nat : (d >= Radix => d \div Radix \in Good) => d \in Good
  <2>1. ASSUME NEW d \in Nat, d >= Radix => d \div Radix \in Good PROVE Adds(d)
    BY <1>1, <2>1
  <2> QED
    BY <2>1
<1>3. Good = Nat
  <2>1. Good \in SUBSET Nat
    OBVIOUS
  <2> HIDE DEF Good
  <2> QED
    BY <1>2, <2>1, DigitInduction
<1>4. Adds(n)
  BY <1>3
<1> QED
  BY <1>4

LEMMA MinIs ==
    ASSUME NEW S \in SUBSET Nat, NEW x \in S, \A y \in S : x <= y PROVE Min(S) = x
<1>1. Min(S) \in S /\ \A y \in S : Min(S) <= y
  BY DEF Min
<1>2. Min(S) <= x /\ x <= Min(S) /\ Min(S) \in Nat /\ x \in Nat
  BY <1>1
<1> DEFINE m == Min(S)
<1>3. m <= x /\ x <= m /\ m \in Nat /\ x \in Nat
  BY <1>2
<1> HIDE DEF m
<1>4. m = x
  BY <1>3
<1> QED
  BY <1>4 DEF m

LEMMA AccumulatedFromStart ==
    ASSUME NEW s, NEW p \in Nat, NEW w, Reads(w, s, p),
           NEW n \in Nat, n < UIntLimit, HoldsAt(s, p, write_var_uint(n))
    PROVE  w[0 + Len(write_var_uint(n))].n = n
<1> DEFINE b == write_var_uint(n)
           v == w[0].n + n * w[0].unit
<1>1. w[0].n = 0 /\ w[0].unit = 1
  BY DEF Reads
<1>2. v = n /\ v < UIntLimit /\ p + 0 = p /\ 0 \in Nat
  BY <1>1
<1>3. HoldsAt(s, p + 0, b)
  BY <1>2
<1>4. w[0 + Len(b)].n = v
  <2> HIDE DEF b
  <2>1. \A k \in Nat :
          HoldsAt(s, p + k, b) /\ w[k].n + n * w[k].unit < UIntLimit
            => w[k + Len(b)].n = w[k].n + n * w[k].unit
    BY Accumulated DEF b
  <2> QED
    BY <1>2, <1>3, <2>1, Zenon
<1> QED
  BY <1>2, <1>4

LEMMA ReadAt ==
    ASSUME NEW s \in Seq(Byte), NEW p \in Nat \ {0}, NEW n \in 0 .. UIntLimit - 1,
           p + Len(write_var_uint(n)) - 1 <= Len(s), HoldsAt(s, p, write_var_uint(n))
    PROVE  read_var_uint(s, p) = At(n, p + Len(write_var_uint(n)))
<1> DEFINE b == write_var_uint(n)
           l == Len(b)
<1>1. n \in Nat /\ UIntLimit \in Nat /\ n < UIntLimit
  BY WidthAssumption
<1>2. Continued(b)
  BY <1>1, Written
<1>3. HoldsAt(s, p, b) /\ p + l - 1 <= Len(s)
  OBVIOUS
<1>4. PICK w : Reads(w, s, p)
  BY DigitsRead
<1>5. w[0 + l].n = n
  BY <1>1, <1>3, <1>4, AccumulatedFromStart
<1> HIDE DEF b
<1>6. b \in Seq(Byte) /\ l \in Nat /\ l >= 1 /\ b[l] < Radix /\ \A i \in 1 .. l - 1 : b[i] >= Radix
  BY <1>2 DEF Continued
<1> HIDE DEF l
<1>7. p \in Nat /\ Len(s) \in Nat /\ \A i \in 1 .. Len(s) : s[i] \in Byte
  OBVIOUS
<1>8. \A i \in 1 .. l : s[p + i - 1] = b[i]
  BY <1>3 DEF HoldsAt, l
<1>9. Digits(s, p, l) = n
  <2>1. \A x \in Byte : x \in Nat
    BY DEF Byte
  <2>2. ASSUME NEW j \in Nat, j < l PROVE s[p + j] \in Nat
    <3>1. p + j \in 1 .. Len(s)
      BY <1>3, <1>6, <1>7, <2>2
    <3> QED
      BY <1>7, <2>1, <3>1
  <2>3. Held(s, p, l)
    BY <2>2 DEF Held
  <2>4. Digits(s, p, l) = w[l].n
    BY <1>4, <1>6, <2>3 DEF Reads
  <2> QED
    BY <1>5, <1>6, <2>4
<1>10. Radix \in Nat
  BY WidthAssumption
<1> DEFINE last == p + l - 1
<1>11. last \in Lasts(s, p)
  <2>1. last \in p .. Len(s)
    BY <1>3, <1>6, <1>7
  <2>2. s[last] = b[l]
    BY <1>6, <1>8
  <2> QED
    BY <1>6, <2>1, <2>2 DEF Lasts
<1>12. ASSUME NEW q \in Lasts(s, p) PROVE last <= q
  <2>1. q \in Int /\ q >= p /\ s[q] < Radix /\ q \in 1 .. Len(s)
    BY <1>7 DEF Lasts
  <2>2. SUFFICES ASSUME q < last PROVE FALSE
    BY <1>6, <1>7, <2>1
  <2>3. q - p + 1 \in 1 .. l - 1 /\ q - p + 1 \in 1 .. l /\ p + (q - p + 1) - 1 = q
    BY <1>6, <1>7, <2>1, <2>2
  <2>4. s[q] = b[q - p + 1] /\ b[q - p + 1] >= Radix
    BY <1>6, <1>8, <2>3
  <2>5. b[q - p + 1] \in Nat
    <3>1. b[q - p + 1] \in Byte
      BY <1>6, <2>3 DEF l
    <3> QED
      BY <3>1 DEF Byte
  <2> QED
    BY <1>10, <2>1, <2>4, <2>5
<1>13. Min(Lasts(s, p)) = last
  <2>1. Lasts(s, p) \in SUBSET Nat
    BY <1>7 DEF Lasts
  <2> QED
    BY <1>11, <1>12, <2>1, MinIs
<1>14. last - p + 1 = l /\ last + 1 = p + l /\ p # 0
  BY <1>6, <1>7
<1>15. read_var_uint(s, p) = At(Digits(s, p, last - p + 1), last + 1)
  <2> HIDE DEF last
  <2>1. Lasts(s, p) # {}
    BY <1>11
  <2> QED
    BY <1>13, <1>14, <2>1, Zenon DEF read_var_uint
<1>16. read_var_uint(s, p) = At(n, p + l)
  <2> HIDE DEF last
  <2> QED
    BY <1>9, <1>14, <1>15
<1> QED
  BY <1>16 DEF b, l

\* Reading what was written gives the number back and ends after its last byte,
\* whatever comes before and after it (read_var_uint against write_var_uint).
THEOREM ReadsBack ==
    ASSUME NEW n \in 0 .. UIntLimit - 1, NEW before \in Seq(Byte), NEW after \in Seq(Byte)
    PROVE  read_var_uint(before \o write_var_uint(n) \o after, Len(before) + 1)
             = At(n, Len(before \o write_var_uint(n)) + 1)
<1> DEFINE b == write_var_uint(n)
           s == before \o b \o after
           p == Len(before) + 1
<1>1. b \in Seq(Byte)
  <2>1. n \in Nat
    BY WidthAssumption
  <2> QED
    BY <2>1, Written DEF Continued
<1>2. HoldsAt(s, p, b) /\ s \in Seq(Byte) /\ p + Len(b) - 1 <= Len(s)
      /\ p \in Nat \ {0} /\ p + Len(b) = Len(before \o b) + 1
  <2> HIDE DEF b
  <2>1. before \o b \in Seq(Byte) /\ Len(before \o b) = Len(before) + Len(b)
    BY <1>1
  <2>2. s \in Seq(Byte) /\ Len(s) = Len(before) + Len(b) + Len(after)
    BY <2>1
  <2>3. ASSUME NEW i \in 1 .. Len(b) PROVE s[p + i - 1] = b[i]
    <3>1. p + i - 1 = Len(before) + i /\ Len(before) + i \in 1 .. Len(before \o b)
      BY <1>1, <2>1
    <3>2. (before \o b)[Len(before) + i] = b[i]
      BY <1>1
    <3>3. s[Len(before) + i] = (before \o b)[Len(before) + i]
      BY <2>1, <3>1
    <3> QED
      BY <3>1, <3>2, <3>3
  <2> QED
    BY <1>1, <2>1, <2>2, <2>3 DEF HoldsAt
<1>3. read_var_uint(s, p) = At(n, p + Len(b))
  <2> HIDE DEF s, p
  <2> QED
    BY <1>2, ReadAt
<1> QED
  BY <1>2, <1>3

\* Input that ends inside what was written is reported, wherever it is cut
\* (the early_eof_error that read_var_uint gets from the reader).
THEOREM CutFails ==
    ASSUME NEW n \in Nat, NEW before \in Seq(Byte), NEW k \in Nat,
           k < Len(write_var_uint(n))
    PROVE  read_var_uint(before \o SubSeq(write_var_uint(n), 1, k), Len(before) + 1) = Eof
<1> DEFINE b == write_var_uint(n)
           c == SubSeq(b, 1, k)
           s == before \o c
           p == Len(before) + 1
<1>1. b \in Seq(Byte) /\ k < Len(b) /\ \A i \in 1 .. Len(b) - 1 : b[i] >= Radix
  BY Written DEF Continued
<1> HIDE DEF b
<1>2. c \in Seq(Byte) /\ Len(c) = k /\ \A i \in 1 .. k : c[i] = b[i]
  BY <1>1
<1> HIDE DEF c
<1>3. Len(s) = Len(before) + k /\ \A i \in 1 .. k : s[Len(before) + i] = c[i]
  BY <1>2
<1> HIDE DEF s
<1>4. ASSUME NEW q \in Lasts(s, p) PROVE FALSE
  <2>1. q \in p .. Len(s) /\ s[q] < Radix
    BY DEF Lasts
  <2>2. q - Len(before) \in 1 .. k /\ Len(before) + (q - Len(before)) = q
    BY <1>3, <2>1
  <2>3. s[q] = b[q - Len(before)] /\ q - Len(before) \in 1 .. Len(b) - 1
    <3>1. s[Len(before) + (q - Len(before))] = c[q - Len(before)]
      BY <1>3, <2>2
    <3> QED
      BY <1>1, <1>2, <2>2, <3>1
  <2>4. b[q - Len(before)] \in Nat /\ b[q - Len(before)] >= Radix /\ Radix \in Nat
    <3>1. b[q - Len(before)] \in Byte
      BY <1>1, <2>3
    <3>2. Radix \in Nat
      BY WidthAssumption
    <3>3. b[q - Len(before)] >= Radix
      BY <1>1, <2>3
    <3>4. b[q - Len(before)] \in Nat
      <4> DEFINE x == b[q - Len(before)]
      <4>1. x \in Byte
        BY <3>1
      <4> HIDE DEF x
      <4>2. x \in Nat
        BY <3>2, <4>1 DEF Byte
      <4> QED
        BY <4>2 DEF x
    <3> QED
      BY <3>2, <3>3, <3>4
  <2> QED
    BY <2>1, <2>3, <2>4
<1>5. Lasts(s, p) = {}
  BY <1>4
<1>6. read_var_uint(s, p) = Eof
  BY <1>5, Zenon DEF read_var_uint
<1> QED
  BY <1>6 DEF s, c, b

(***************************************************************************)
(* Sums, and sequences one after the other.                                *)
(***************************************************************************)
LEMMA Bytes ==
    /\ Radix \in Nat /\ Radix > 1 /\ 2 * Radix \in Nat /\ 2 * Radix > 1
    /\ Byte \subseteq Nat
    /\ \A n \in Nat : n \in Byte <=> n < 2 * Radix
<1>1. Radix \in Nat /\ Radix > 1
  BY WidthAssumption
<1> QED
  BY <1>1 DEF Byte

Sums(g, s) ==
    /\ g \in [0 .. Len(s) -> Nat] /\ g[0] = 0 /\ Sum[s] = g[Len(s)]
    /\ \A i \in 1 .. Len(s) : g[i] = g[i - 1] + s[i]

LEMMA Summed ==
    ASSUME NEW s \in Seq(Nat) PROVE \E g : Sums(g, s)
<1> DEFINE n == Len(s)
           Body(g) == [i \in 0 .. n |-> IF i = 0 THEN 0 ELSE g[i - 1] + s[i]]
           sum == CHOOSE g : g = Body(g)
           f == [p \in (1 .. n) \X Nat |-> p[2] + s[p[1]]]
<1>1. n \in Nat /\ \A i \in 1 .. n : s[i] \in Nat
  OBVIOUS
<1> HIDE DEF n
<1>2. f \in [(1 .. n) \X Nat -> Nat]
  BY <1>1
<1>3. PICK v : Steps(v, n, Nat, f, 0)
  <2> HIDE DEF f
  <2> QED
    BY <1>1, <1>2, StepsExist
<1>4. v \in [0 .. n -> Nat] /\ v[0] = 0 /\ \A i \in 1 .. n : v[i] = v[i - 1] + s[i]
  <2>1. v \in [0 .. n -> Nat] /\ v[0] = 0 /\ \A i \in 1 .. n : v[i] = f[<<i, v[i - 1]>>]
    BY <1>3 DEF Steps
  <2>2. ASSUME NEW i \in 1 .. n PROVE v[i] = v[i - 1] + s[i]
    <3>1. i - 1 \in 0 .. n
      BY <1>1
    <3>2. <<i, v[i - 1]>> \in (1 .. n) \X Nat
      BY <2>1, <3>1
    <3> QED
      BY <2>1, <3>2
  <2> QED
    BY <2>1, <2>2
<1>5. v = Body(v)
  <2>1. \A i \in 0 .. n : i # 0 => i \in 1 .. n
    BY <1>1
  <2> QED
    BY <1>4, <2>1
<1>6. sum = Body(sum)
  <2> HIDE DEF Body
  <2> QED
    BY <1>5
<1>7. Sum[s] = sum[n]
  BY Zenon DEF Sum, n
<1> HIDE DEF sum
<1>8. sum[0] = 0 /\ \A i \in 1 .. n : sum[i] = sum[i - 1] + s[i]
  BY <1>1, <1>6
<1> DEFINE Whole == {i \in 0 .. n : sum[i] \in Nat}
<1>9. Whole = 0 .. n
  <2>1. Whole \in SUBSET (0 .. n) /\ 0 \in Whole
    BY <1>1, <1>8
  <2>2. ASSUME NEW i \in 1 .. n, i - 1 \in Whole PROVE i \in Whole
    BY <1>1, <1>8, <2>2
  <2> HIDE DEF Whole
  <2> QED
    BY <1>1, <2>1, <2>2, AllUpTo
<1>10. sum \in [0 .. n -> Nat]
  <2>1. sum = [i \in 0 .. n |-> sum[i]]
    BY <1>6
  <2>2. \A i \in 0 .. n : sum[i] \in Nat
    BY <1>9
  <2> QED
    BY <2>1, <2>2
<1>11. Sums(sum, s)
  BY <1>7, <1>8, <1>10 DEF Sums, n
<1> QED
  BY <1>11

LEMMA SumNat ==
    ASSUME NEW s \in Seq(Nat) PROVE Sum[s] \in Nat
<1>1. PICK g : Sums(g, s)
  BY Summed
<1> QED
  BY <1>1 DEF Sums

LEMMA SumOfSame ==
    ASSUME NEW c \in Nat, NEW s \in Seq(Nat), \A i \in 1 .. Len(s) : s[i] = c
    PROVE  Sum[s] = Len(s) * c
<1> DEFINE n == Len(s)
<1>1. PICK g : Sums(g, s)
  BY Summed
<1>2. n \in Nat /\ g \in [0 .. n -> Nat] /\ g[0] = 0 /\ Sum[s] = g[n]
      /\ \A i \in 1 .. n : g[i] = g[i - 1] + c
  BY <1>1 DEF Sums
<1> HIDE DEF n
<1> DEFINE Good == {i \in 0 .. n : g[i] = i * c}
<1>3. Good = 0 .. n
  <2>1. Good \in SUBSET (0 .. n) /\ 0 \in Good
    BY <1>2
  <2>2. ASSUME NEW i \in 1 .. n, i - 1 \in Good PROVE i \in Good
    <3>1. i \in 0 .. n /\ i \in Nat /\ g[i] = g[i - 1] + c /\ g[i - 1] = (i - 1) * c
      BY <1>2, <2>2
    <3>2. \A x, y \in Int : (x - 1) * y + y = x * y
      OBVIOUS
    <3>3. (i - 1) * c + c = i * c
      BY <3>1, <3>2
    <3> QED
      BY <3>1, <3>3
  <2> HIDE DEF Good
  <2> QED
    BY <1>2, <2>1, <2>2, AllUpTo
<1>4. g[n] = n * c
  <2>1. n \in 0 .. n
    BY <1>2
  <2> QED
    BY <1>3, <2>1
<1> QED
  BY <1>2, <1>4 DEF n

LEMMA SequencesOf ==
    ASSUME NEW S, NEW T, S \subseteq T PROVE Seq(S) \subseteq Seq(T)
<1>1. ASSUME NEW s \in Seq(S) PROVE s \in Seq(T)
  <2>1. Len(s) \in Nat /\ s = [i \in 1 .. Len(s) |-> s[i]] /\ \A i \in 1 .. Len(s) : s[i] \in T
    OBVIOUS
  <2> QED
    BY <2>1
<1> QED
  BY <1>1

LEMMA BothInTurn ==
    ASSUME NEW S, NEW x \in Seq(S), NEW y \in Seq(S)
    PROVE  x \o y \in Seq(S) /\ Len(x \o y) = Len(x) + Len(y)
  OBVIOUS

LEMMA JoinedLength ==
    ASSUME NEW ss \in Seq(Seq(Byte))
    PROVE  /\ Joined[ss] \in Seq(Byte)
           /\ Len(Joined[ss]) = Sum[[i \in DOMAIN ss |-> Len(ss[i])]]
<1> DEFINE n == Len(ss)
           S == Seq(Byte)
           lens == [i \in DOMAIN ss |-> Len(ss[i])]
<1>1. n \in Nat /\ DOMAIN ss = 1 .. n /\ \A i \in 1 .. n : ss[i] \in S
  OBVIOUS
<1>2. lens \in Seq(Nat) /\ Len(lens) = n /\ \A i \in 1 .. n : lens[i] = Len(ss[i])
  <2>1. \A i \in 1 .. n : Len(ss[i]) \in Nat
    BY <1>1
  <2> QED
    BY <1>1, <2>1
<1>3. Joined[ss] = FlattenSeq(ss)
  <2>1. Seq(Byte) \subseteq Seq(Nat)
    BY Bytes, SequencesOf
  <2>2. ss \in Seq(Seq(Nat))
    BY <2>1, SequencesOf
  <2> QED
    BY <2>2 DEF Joined
<1>4. PICK g : Sums(g, lens)
  <2> HIDE DEF lens
  <2> QED
    BY <1>2, Summed
<1>5. g \in [0 .. n -> Nat] /\ g[0] = 0 /\ Sum[lens] = g[n]
      /\ \A i \in 1 .. n : g[i] = g[i - 1] + Len(ss[i])
  <2> HIDE DEF lens, n
  <2> QED
    BY <1>2, <1>4 DEF Sums
<1>6. CASE n = 0
  <2>1. ss = << >>
    BY <1>6
  <2>2. Joined[ss] = ss
    BY <1>3, <1>6 DEF FlattenSeq
  <2> HIDE DEF lens
  <2> QED
    BY <1>5, <1>6, <2>1, <2>2 DEF lens
<1>7. CASE n # 0
  <2> DEFINE Body(h) == [i \in 1 .. Len(ss) |-> IF i = 1 THEN ss[i] ELSE h[i - 1] \o ss[i]]
             flatten == CHOOSE h : h = Body(h)
             f == [p \in (1 .. n) \X S |-> p[2] \o ss[p[1]]]
  <2> HIDE DEF lens
  <2>1. FlattenSeq(ss) = flatten[n]
    BY <1>7, Zenon DEF FlattenSeq
  <2>2. f \in [(1 .. n) \X S -> S] /\ << >> \in S
    <3>1. \A x, y \in S : x \o y \in S
      OBVIOUS
    <3> HIDE DEF n, S
    <3>2. \A p \in (1 .. n) \X S : p[2] \o ss[p[1]] \in S
      BY <1>1, <3>1
    <3> QED
      BY <3>2 DEF S
  <2>3. PICK v : Steps(v, n, S, f, << >>)
    <3> HIDE DEF f, n, S
    <3> QED
      BY <1>1, <2>2, StepsExist
  <2> DEFINE h == [i \in 1 .. Len(ss) |-> v[i]]
  <2>4. v \in [0 .. n -> S] /\ v[0] = << >> /\ \A i \in 1 .. n : v[i] = v[i - 1] \o ss[i]
    <3>1. v \in [0 .. n -> S] /\ v[0] = << >> /\ \A i \in 1 .. n : v[i] = f[<<i, v[i - 1]>>]
      <4> HIDE DEF f, n, S
      <4> QED
        BY <2>3 DEF Steps
    <3>2. ASSUME NEW i \in 1 .. n PROVE v[i] = v[i - 1] \o ss[i]
      <4> HIDE DEF n, S
      <4>1. i - 1 \in 0 .. n
        BY <1>1
      <4>2. <<i, v[i - 1]>> \in (1 .. n) \X S
        BY <3>1, <4>1
      <4> QED
        BY <3>1, <4>2
    <3> HIDE DEF f, n, S
    <3> QED
      BY <3>1, <3>2
  <2>5. h = Body(h)
    <3>1. v[1] = ss[1]
      <4>1. 1 \in 1 .. n /\ ss[1] \in S
        BY <1>1, <1>7
      <4>3. 1 - 1 = 0
        OBVIOUS
      <4>2. v[1] = v[0] \o ss[1]
        <5> HIDE DEF n, S
        <5> QED
          BY <2>4, <4>1, <4>3
      <4> QED
        BY <2>4, <4>1, <4>2
    <3>2. \A i \in 1 .. n : i # 1 => i - 1 \in 1 .. n
      BY <1>1
    <3> QED
      BY <2>4, <3>1, <3>2
  <2>6. flatten = Body(flatten)
    <3> HIDE DEF Body, h
    <3> QED
      BY <2>5
  <2> HIDE DEF flatten
  <2> DEFINE Good == {i \in 0 .. n : i # 0 => flatten[i] \in S /\ Len(flatten[i]) = g[i]}
  <2>7. ASSUME NEW i \in 1 .. n, i - 1 \in Good PROVE i \in Good
    <3>1. i \in 0 .. n /\ i # 0 /\ ss[i] \in S /\ g[i] = g[i - 1] + Len(ss[i])
      BY <1>1, <1>5
    <3>2. CASE i = 1
      <4>1. flatten[i] = ss[i]
        BY <2>6, <3>2
      <4>2. Len(ss[i]) \in Nat /\ g[i] = Len(ss[i])
        BY <1>5, <3>1, <3>2
      <4> QED
        BY <3>1, <4>1, <4>2
    <3>3. CASE i # 1
      <4>1. i - 1 # 0 /\ i - 1 \in 0 .. n
        BY <1>1, <3>3
      <4>2. flatten[i] = flatten[i - 1] \o ss[i]
        BY <2>6, <3>3
      <4>3. flatten[i - 1] \in S /\ Len(flatten[i - 1]) = g[i - 1]
        BY <2>7, <4>1
      <4>4. flatten[i] \in S /\ Len(flatten[i]) = g[i - 1] + Len(ss[i])
        <5> DEFINE x == flatten[i - 1]
                   y == ss[i]
        <5>1. x \in Seq(Byte) /\ y \in Seq(Byte)
          BY <3>1, <4>3
        <5>2. x \o y \in Seq(Byte) /\ Len(x \o y) = Len(x) + Len(y)
          <6> HIDE DEF x, y
          <6> QED
            BY <5>1, BothInTurn
        <5> QED
          BY <4>2, <4>3, <5>2
      <4> QED
        BY <3>1, <4>4
    <3> QED
      BY <3>2, <3>3
  <2>8. Good = 0 .. n
    <3>1. Good \in SUBSET (0 .. n) /\ 0 \in Good
      BY <1>1
    <3> HIDE DEF Good, n
    <3> QED
      BY <1>1, <2>7, <3>1, AllUpTo
  <2>9. n \in 0 .. n
    BY <1>1
  <2> QED
    BY <1>3, <1>5, <1>7, <2>1, <2>8, <2>9 DEF lens
<1> QED
  BY <1>6, <1>7

(***************************************************************************)
(* Numbers in memory, and constant strings.                                *)
(***************************************************************************)
\* A number whose lowest byte is c, and the number without it.
LEMMA LowestByte ==
    ASSUME NEW y \in Nat, NEW c \in Byte
    PROVE  /\ y * (2 * Radix) + c \in Nat
           /\ (y * (2 * Radix) + c) \div (2 * Radix) = y
           /\ (y * (2 * Radix) + c) % (2 * Radix) = c
<1> DEFINE b == 2 * Radix
           x == y * b + c
           q == x \div b
           r == x % b
<1>1. b \in Nat /\ b > 1 /\ c \in Nat /\ c < b
  BY Bytes
<1> HIDE DEF b
<1>2. \A u, w \in Nat : u * w \in Nat
  OBVIOUS
<1>3. y * b \in Nat /\ x \in Nat
  BY <1>1, <1>2
<1>4. q \in Int /\ r \in Nat /\ r < b /\ x = q * b + r
  <2> HIDE DEF x
  <2> QED
    BY <1>1, <1>3
<1>5. (q - y) * b = c - r
  <2>1. \A i, j, k \in Int : (i - j) * k = i * k - j * k /\ i * k \in Int
    OBVIOUS
  <2>2. q * b \in Int /\ (q - y) * b = q * b - y * b
    BY <1>1, <1>4, <2>1
  <2>3. y * b + c = q * b + r
    BY <1>4
  <2> HIDE DEF x, q, r
  <2> QED
    BY <1>1, <1>3, <1>4, <2>2, <2>3
<1>6. \A d \in Int : (d >= 1 => d * b >= b) /\ (d <= -1 => d * b <= -b)
  <2>1. \A d, k \in Int : k > 1 => (d >= 1 => d * k >= k) /\ (d <= -1 => d * k <= -k)
    OBVIOUS
  <2> QED
    BY <1>1, <2>1
<1>7. q = y
  <2> DEFINE d == q - y
  <2>1. d \in Int /\ d * b = c - r
    BY <1>4, <1>5
  <2>2. ~(d >= 1) /\ ~(d <= -1)
    <3> HIDE DEF d, q, r, x
    <3> QED
      BY <1>1, <1>4, <1>6, <2>1
  <2> HIDE DEF q
  <2> QED
    BY <1>4, <2>1, <2>2
<1>8. r = c
  <2>1. q - y = 0
    BY <1>4, <1>7
  <2>2. (q - y) * b = 0
    BY <1>1, <2>1
  <2> HIDE DEF q, r, x
  <2> QED
    BY <1>1, <1>4, <1>5, <2>2
<1> QED
  BY <1>3, <1>7, <1>8 DEF b

LEMMA HigherBytes ==
    ASSUME NEW x \in Nat
    PROVE  x \div (2 * Radix) \in Nat /\ x % (2 * Radix) \in Byte
<1> DEFINE b == 2 * Radix
           q == x \div b
           r == x % b
<1>1. b \in Nat /\ b > 1
  BY Bytes
<1> HIDE DEF b
<1>2. q \in Int /\ r \in Nat /\ r < b /\ x = q * b + r
  BY <1>1
<1>3. \A d, k \in Int : k > 1 /\ d <= -1 => d * k <= -k
  OBVIOUS
<1>4. q <= -1 => q * b <= -b
  BY <1>1, <1>2, <1>3
<1> HIDE DEF q, r
<1>5. q \in Nat
  <2>1. q * b \in Int
    BY <1>1, <1>2
  <2> QED
    BY <1>1, <1>2, <1>4, <2>1
<1>6. r \in Byte
  BY <1>2, Bytes DEF b
<1> QED
  BY <1>5, <1>6 DEF q, r, b

\* What is left of the number after each byte.
Shifts(rest, n, v) ==
    /\ rest \in [0 .. n -> Nat] /\ rest[0] = v
    /\ \A i \in 1 .. n : rest[i] = rest[i - 1] \div (2 * Radix)
    /\ write_prim(n, v) = [i \in 1 .. n |-> rest[i - 1] % (2 * Radix)]

LEMMA Shifted ==
    ASSUME NEW n \in Nat, NEW v \in Nat PROVE \E rest : Shifts(rest, n, v)
<1> DEFINE Body(g) == [i \in 0 .. n |-> IF i = 0 THEN v ELSE g[i - 1] \div (2 * Radix)]
           rest == CHOOSE g : g = Body(g)
           f == [p \in (1 .. n) \X Nat |-> p[2] \div (2 * Radix)]
<1>1. f \in [(1 .. n) \X Nat -> Nat]
  BY HigherBytes
<1>2. PICK w : Steps(w, n, Nat, f, v)
  <2> HIDE DEF f
  <2> QED
    BY <1>1, StepsExist
<1>3. w \in [0 .. n -> Nat] /\ w[0] = v
      /\ \A i \in 1 .. n : w[i] = w[i - 1] \div (2 * Radix)
  <2>1. w \in [0 .. n -> Nat] /\ w[0] = v /\ \A i \in 1 .. n : w[i] = f[<<i, w[i - 1]>>]
    <3> HIDE DEF f
    <3> QED
      BY <1>2 DEF Steps
  <2>2. ASSUME NEW i \in 1 .. n PROVE w[i] = w[i - 1] \div (2 * Radix)
    <3>1. i - 1 \in 0 .. n
      OBVIOUS
    <3>2. <<i, w[i - 1]>> \in (1 .. n) \X Nat
      BY <2>1, <3>1
    <3> QED
      BY <2>1, <3>2
  <2> QED
    BY <2>1, <2>2
<1>4. w = Body(w)
  <2>1. \A i \in 0 .. n : i # 0 => i \in 1 .. n
    OBVIOUS
  <2> QED
    BY <1>3, <2>1
<1>5. rest = Body(rest)
  <2> HIDE DEF Body
  <2> QED
    BY <1>4
<1>6. write_prim(n, v) = [i \in 1 .. n |-> rest[i - 1] % (2 * Radix)]
  BY Zenon DEF write_prim
<1> HIDE DEF rest, f
<1>7. rest[0] = v /\ \A i \in 1 .. n : rest[i] = rest[i - 1] \div (2 * Radix)
  BY <1>5
<1> DEFINE Good == {i \in 0 .. n : rest[i] \in Nat}
<1>8. Good = 0 .. n
  <2>1. Good \in SUBSET (0 .. n) /\ 0 \in Good
    BY <1>7
  <2>2. ASSUME NEW i \in 1 .. n, i - 1 \in Good PROVE i \in Good
    BY <1>7, <2>2, HigherBytes
  <2> HIDE DEF Good
  <2> QED
    BY <2>1, <2>2, AllUpTo
<1>9. rest \in [0 .. n -> Nat]
  <2>1. rest = [i \in 0 .. n |-> rest[i]]
    BY <1>5
  <2>2. \A i \in 0 .. n : rest[i] \in Nat
    BY <1>8
  <2> QED
    BY <2>1, <2>2
<1>10. Shifts(rest, n, v)
  BY <1>6, <1>7, <1>9 DEF Shifts
<1> QED
  BY <1>10

LEMMA PrimWritten ==
    ASSUME NEW n \in Nat, NEW v \in Nat
    PROVE  write_prim(n, v) \in Seq(Byte) /\ Len(write_prim(n, v)) = n
<1>1. PICK rest : Shifts(rest, n, v)
  BY Shifted
<1>2. ASSUME NEW i \in 1 .. n PROVE rest[i - 1] % (2 * Radix) \in Byte
  <2>1. i - 1 \in 0 .. n
    OBVIOUS
  <2>2. rest[i - 1] \in Nat
    BY <1>1, <2>1 DEF Shifts
  <2> QED
    BY <2>2, HigherBytes
<1> DEFINE e(i) == rest[i - 1] % (2 * Radix)
<1>3. write_prim(n, v) = [i \in 1 .. n |-> e(i)]
  BY <1>1 DEF Shifts
<1>4. \A i \in 1 .. n : e(i) \in Byte
  BY <1>2
<1> HIDE DEF e
<1> QED
  BY <1>3, <1>4

\* The number after each character, from the last one on.
Packs(low, chars) ==
    /\ low \in [0 .. Len(chars) -> Nat] /\ low[0] = 0
    /\ \A i \in 1 .. Len(chars) :
         low[i] = low[i - 1] * (2 * Radix) + chars[Len(chars) - i + 1]
    /\ Packed(chars) = low[Len(chars)]

LEMMA PackedUp ==
    ASSUME NEW chars \in Seq(Byte) PROVE \E low : Packs(low, chars)
<1> DEFINE n == Len(chars)
           Body(g) == [i \in 0 .. n |->
                         IF i = 0 THEN 0 ELSE g[i - 1] * (2 * Radix) + chars[n - i + 1]]
           low == CHOOSE g : g = Body(g)
           f == [p \in (1 .. n) \X Nat |-> p[2] * (2 * Radix) + chars[n - p[1] + 1]]
<1>1. n \in Nat /\ \A i \in 1 .. n : chars[n - i + 1] \in Byte
  <2>1. \A i \in 1 .. n : n - i + 1 \in 1 .. n
    OBVIOUS
  <2> QED
    BY <2>1
<1>2. Packed(chars) = low[n]
  BY Zenon DEF Packed
<1> HIDE DEF n
<1>3. \A x \in Nat : \A i \in 1 .. n : x * (2 * Radix) + chars[n - i + 1] \in Nat
  BY <1>1, LowestByte
<1>4. f \in [(1 .. n) \X Nat -> Nat]
  BY <1>3
<1>5. PICK w : Steps(w, n, Nat, f, 0)
  <2> HIDE DEF f
  <2> QED
    BY <1>1, <1>4, StepsExist
<1>6. w \in [0 .. n -> Nat] /\ w[0] = 0
      /\ \A i \in 1 .. n : w[i] = w[i - 1] * (2 * Radix) + chars[n - i + 1]
  <2>1. w \in [0 .. n -> Nat] /\ w[0] = 0 /\ \A i \in 1 .. n : w[i] = f[<<i, w[i - 1]>>]
    <3> HIDE DEF f
    <3> QED
      BY <1>5 DEF Steps
  <2>2. ASSUME NEW i \in 1 .. n PROVE w[i] = w[i - 1] * (2 * Radix) + chars[n - i + 1]
    <3>1. i - 1 \in 0 .. n
      BY <1>1
    <3>2. <<i, w[i - 1]>> \in (1 .. n) \X Nat
      BY <2>1, <3>1
    <3> QED
      BY <2>1, <3>2
  <2> QED
    BY <2>1, <2>2
<1>7. w = Body(w)
  <2>1. \A i \in 0 .. n : i # 0 => i \in 1 .. n
    BY <1>1
  <2> QED
    BY <1>6, <2>1
<1>8. low = Body(low)
  <2> HIDE DEF Body
  <2> QED
    BY <1>7
<1> HIDE DEF low, f
<1>9. low[0] = 0 /\ \A i \in 1 .. n : low[i] = low[i - 1] * (2 * Radix) + chars[n - i + 1]
  BY <1>1, <1>8
<1> DEFINE Good == {i \in 0 .. n : low[i] \in Nat}
<1>10. Good = 0 .. n
  <2>1. Good \in SUBSET (0 .. n) /\ 0 \in Good
    BY <1>1, <1>9
  <2>2. ASSUME NEW i \in 1 .. n, i - 1 \in Good PROVE i \in Good
    <3>1. low[i - 1] \in Nat /\ i \in 0 .. n
      BY <1>1, <2>2
    <3>2. low[i] = low[i - 1] * (2 * Radix) + chars[n - i + 1]
      BY <1>9
    <3> HIDE DEF Good
    <3>3. low[i] \in Nat
      BY <1>3, <3>1, <3>2
    <3> QED
      BY <3>1, <3>3 DEF Good
  <2> HIDE DEF Good
  <2> QED
    BY <1>1, <2>1, <2>2, AllUpTo
<1>11. low \in [0 .. n -> Nat]
  <2>1. low = [i \in 0 .. n |-> low[i]]
    BY <1>8
  <2>2. \A i \in 0 .. n : low[i] \in Nat
    BY <1>10
  <2> QED
    BY <2>1, <2>2
<1>12. Packs(low, chars)
  BY <1>2, <1>9, <1>11 DEF Packs, n
<1> QED
  BY <1>12

\* A constant string is its characters, in their order, also when they are packed
\* into one number and written as that (write_string_constant): a tag and the size
\* of a member are the bytes that would be written one by one.
THEOREM ConstantSame ==
    ASSUME NEW chars \in Seq(Byte) PROVE string_constant[chars] = chars
<1> DEFINE n == Len(chars)
<1>1. n \in Nat /\ chars \in [1 .. n -> Byte]
  OBVIOUS
<1>2. string_constant[chars] = IF n = 1 \/ n > PackWidth THEN chars
                               ELSE write_prim(n, Packed(chars))
  <2>1. chars \in Seq(Nat)
    BY Bytes, SequencesOf
  <2> QED
    BY <2>1 DEF string_constant
<1>3. PICK low : Packs(low, chars)
  BY PackedUp
<1>4. /\ low \in [0 .. n -> Nat] /\ low[0] = 0 /\ Packed(chars) = low[n]
      /\ \A i \in 1 .. n : low[i] = low[i - 1] * (2 * Radix) + chars[n - i + 1]
  BY <1>3 DEF Packs
<1> HIDE DEF n
<1>5. low[n] \in Nat
  BY <1>1, <1>4
<1>6. PICK rest : Shifts(rest, n, low[n])
  BY <1>1, <1>5, Shifted
<1>7. /\ rest \in [0 .. n -> Nat] /\ rest[0] = low[n]
      /\ \A i \in 1 .. n : rest[i] = rest[i - 1] \div (2 * Radix)
      /\ write_prim(n, low[n]) = [i \in 1 .. n |-> rest[i - 1] % (2 * Radix)]
  BY <1>6 DEF Shifts
<1>8. ASSUME NEW i \in 1 .. n
      PROVE  /\ low[n - (i - 1)] \div (2 * Radix) = low[n - i]
             /\ low[n - (i - 1)] % (2 * Radix) = chars[i]
  <2> DEFINE k == n - (i - 1)
  <2>1. k \in 1 .. n /\ k - 1 = n - i /\ n - k + 1 = i /\ k - 1 \in 0 .. n
    BY <1>1
  <2> HIDE DEF k
  <2>2. low[k] = low[k - 1] * (2 * Radix) + chars[i] /\ low[k - 1] \in Nat /\ chars[i] \in Byte
    <3>1. low[k] = low[k - 1] * (2 * Radix) + chars[n - k + 1]
      BY <1>4, <2>1
    <3> QED
      BY <1>1, <1>4, <2>1, <3>1
  <2>3. low[k] \div (2 * Radix) = low[k - 1] /\ low[k] % (2 * Radix) = chars[i]
    <3> DEFINE y == low[k - 1]
               c == chars[i]
    <3>1. y \in Nat /\ c \in Byte /\ low[k] = y * (2 * Radix) + c
      BY <2>2
    <3> HIDE DEF y, c
    <3>2. low[k] \div (2 * Radix) = y /\ low[k] % (2 * Radix) = c
      BY <3>1, LowestByte
    <3> QED
      BY <3>2 DEF y, c
  <2> QED
    BY <2>1, <2>3 DEF k
<1> DEFINE Good == {i \in 0 .. n : rest[i] = low[n - i]}
<1>9. Good = 0 .. n
  <2>1. Good \in SUBSET (0 .. n) /\ 0 \in Good
    BY <1>1, <1>7
  <2>2. ASSUME NEW i \in 1 .. n, i - 1 \in Good PROVE i \in Good
    <3>1. rest[i] = rest[i - 1] \div (2 * Radix) /\ rest[i - 1] = low[n - (i - 1)]
      BY <1>7, <2>2
    <3>2. i \in 0 .. n
      BY <1>1
    <3> QED
      BY <1>8, <3>1, <3>2
  <2> HIDE DEF Good
  <2> QED
    BY <1>1, <2>1, <2>2, AllUpTo
<1>10. ASSUME NEW i \in 1 .. n PROVE rest[i - 1] % (2 * Radix) = chars[i]
  <2>1. i - 1 \in Good
    <3>1. i - 1 \in 0 .. n
      BY <1>1
    <3> HIDE DEF Good
    <3> QED
      BY <1>9, <3>1
  <2>2. rest[i - 1] = low[n - (i - 1)]
    BY <2>1
  <2> QED
    BY <1>8, <2>2
<1>11. write_prim(n, low[n]) = chars
  <2> DEFINE e(i) == rest[i - 1] % (2 * Radix)
  <2>1. write_prim(n, low[n]) = [i \in 1 .. n |-> e(i)] /\ \A i \in 1 .. n : e(i) = chars[i]
    BY <1>7, <1>10
  <2>2. chars = [i \in 1 .. n |-> chars[i]]
    BY <1>1
  <2> HIDE DEF e
  <2> QED
    BY <2>1, <2>2
<1> QED
  BY <1>2, <1>4, <1>11

(***************************************************************************)
(* Types, and their fixed sizes.                                           *)
(***************************************************************************)
IsPart(U, T) == U \in Types /\ Depth[U] < Depth[T]

LEMMA PartsOfType ==
    ASSUME NEW T \in Types
    PROVE  /\ T.kind \in {"prim", "uint", "seq", "set", "tuple", "struct"}
           /\ T.kind = "prim" => T.size \in Nat
           /\ T.kind \in {"seq", "set"} => IsPart(T.elem, T)
           /\ T.kind \in {"tuple", "struct"} =>
                /\ Len(T.members) \in Nat /\ DOMAIN T.members = 1 .. Len(T.members)
                /\ \A i \in DOMAIN T.members :
                     T.members[i].id \in Byte /\ IsPart(T.members[i].type, T)
<1>1. /\ T.kind \in {"prim", "uint", "seq", "set", "tuple", "struct"}
      /\ T.kind = "prim" => T.size \in Nat
      /\ T.kind \in {"tuple", "struct"} =>
           T.members \in Seq([id : 1 .. (2 * Radix - 1), type : Types])
      /\ \A U \in Parts(T) : U \in Types /\ Depth[U] < Depth[T]
  BY TypesAssumption
<1>2. T.kind \in {"seq", "set"} => T.elem \in Parts(T)
  BY DEF Parts
<1>3. ASSUME T.kind \in {"tuple", "struct"}
      PROVE  /\ Len(T.members) \in Nat /\ DOMAIN T.members = 1 .. Len(T.members)
             /\ \A i \in DOMAIN T.members :
                  T.members[i].id \in Byte /\ IsPart(T.members[i].type, T)
  <2> DEFINE R == [id : 1 .. (2 * Radix - 1), type : Types]
             ms == T.members
  <2>1. ms \in Seq(R)
    BY <1>1, <1>3
  <2>2. Parts(T) = {ms[i].type : i \in DOMAIN ms}
    BY <1>3 DEF Parts
  <2>3. Len(ms) \in Nat /\ DOMAIN ms = 1 .. Len(ms) /\ \A i \in DOMAIN ms : ms[i] \in R
    <3> HIDE DEF R, ms
    <3> QED
      BY <2>1
  <2>4. \A r \in R : r.id \in Byte
    BY Bytes DEF Byte
  <2>5. \A i \in DOMAIN ms : ms[i].type \in Parts(T)
    <3> HIDE DEF ms
    <3> QED
      BY <2>2
  <2> HIDE DEF R
  <2> QED
    BY <1>1, <2>3, <2>4, <2>5 DEF IsPart
<1> QED
  BY <1>1, <1>2, <1>3 DEF IsPart

Sizes == Nat \cup {NoSize}

\* The sizes of the members, which are numbers unless one of them has none.
Members(T, g) == [i \in DOMAIN T.members |-> g[T.members[i].type]]
FixedOf(T, g) ==
    CASE T.kind = "prim" -> T.size
      [] T.kind \in {"uint", "seq", "set"} -> NoSize
      [] OTHER -> IF \E i \in DOMAIN Members(T, g) : Members(T, g)[i] = NoSize THEN NoSize
                  ELSE IF T.kind = "tuple" THEN Sum[Members(T, g)]
                  ELSE struct_fixed_size[Members(T, g)]

\* The length of a member of a struct with its tag and its size.
LEMMA SizeNat ==
    ASSUME NEW n \in Nat
    PROVE  /\ aot_vuint_size(n) \in Nat /\ static_vuint_size(n) \in Nat
           /\ member_aot_size[n] \in Nat /\ member_aot_size[n] = 1 + static_vuint_size(n) + n
           /\ member_aot_size[n] = 1 + Len(write_var_uint(n)) + n
<1>1. write_var_uint(n) \in Seq(Byte)
  BY Written DEF Continued
<1>2. Len(write_var_uint(n)) \in Nat
  BY <1>1
<1>3. member_aot_size[n] = 1 + aot_vuint_size(n) + n
  BY DEF member_aot_size
<1>4. aot_vuint_size(n) = Len(write_var_uint(n)) /\ static_vuint_size(n) = Len(write_var_uint(n))
  BY SizeIsLength
<1> QED
  BY <1>2, <1>3, <1>4

LEMMA StructNat ==
    ASSUME NEW fs \in Seq(Nat)
    PROVE  /\ struct_fixed_size[fs] \in Nat /\ struct_aot_size[fs] \in Nat
           /\ struct_fixed_size[fs] = struct_aot_size[fs]
<1> DEFINE a == [i \in DOMAIN fs |-> 1 + static_vuint_size(fs[i]) + fs[i]]
           b == [i \in DOMAIN fs |-> member_aot_size[fs[i]]]
<1>1. \A i \in DOMAIN fs : fs[i] \in Nat
  OBVIOUS
<1>2. \A i \in DOMAIN fs : b[i] \in Nat /\ b[i] = 1 + static_vuint_size(fs[i]) + fs[i]
  BY <1>1, SizeNat
<1>3. a = b
  BY <1>2
<1>4. b \in Seq(Nat)
  <2>1. DOMAIN fs = 1 .. Len(fs) /\ Len(fs) \in Nat
    OBVIOUS
  <2> QED
    BY <1>2, <2>1
<1>5. Sum[b] \in Nat
  <2> HIDE DEF b
  <2> QED
    BY <1>4, SumNat
<1>6. struct_fixed_size[fs] = Sum[a] + 1 /\ struct_aot_size[fs] = Sum[b] + 1
  BY DEF struct_fixed_size, struct_aot_size
<1> HIDE DEF a, b
<1> QED
  BY <1>3, <1>5, <1>6

LEMMA FixedOfSize ==
    ASSUME NEW T \in Types, NEW g \in [Types -> Sizes] PROVE FixedOf(T, g) \in Sizes
<1>1. CASE T.kind = "prim"
  BY <1>1, PartsOfType DEF FixedOf, Sizes
<1>2. CASE T.kind \in {"uint", "seq", "set"}
  BY <1>2 DEF FixedOf, Sizes
<1>3. CASE T.kind \in {"tuple", "struct"}
  <2> DEFINE fs == Members(T, g)
  <2>1. DOMAIN fs = 1 .. Len(T.members) /\ Len(T.members) \in Nat
        /\ \A i \in DOMAIN fs : fs[i] \in Sizes
    BY <1>3, PartsOfType DEF Members, IsPart
  <2>2. fs = [i \in 1 .. Len(T.members) |-> fs[i]]
    BY <2>1 DEF Members
  <2> HIDE DEF fs
  <2>3. CASE \E i \in DOMAIN fs : fs[i] = NoSize
    <3>1. FixedOf(T, g) = NoSize
      BY <1>3, <2>3 DEF FixedOf, fs
    <3> QED
      BY <3>1 DEF Sizes
  <2>4. CASE ~ \E i \in DOMAIN fs : fs[i] = NoSize
    <3>1. fs \in Seq(Nat)
      <4>1. \A i \in 1 .. Len(T.members) : fs[i] \in Nat
        BY <2>1, <2>4 DEF Sizes
      <4> DEFINE n == Len(T.members)
      <4>2. n \in Nat /\ fs = [i \in 1 .. n |-> fs[i]] /\ \A i \in 1 .. n : fs[i] \in Nat
        BY <2>1, <2>2, <4>1
      <4> HIDE DEF n
      <4> QED
        BY <4>2
    <3>2. FixedOf(T, g) = IF T.kind = "tuple" THEN Sum[fs] ELSE struct_fixed_size[fs]
      BY <1>3, <2>4 DEF FixedOf, fs
    <3> QED
      BY <3>1, <3>2, SumNat, StructNat DEF Sizes
  <2> QED
    BY <2>3, <2>4
<1> QED
  BY <1>1, <1>2, <1>3, PartsOfType

LEMMA FixedSizes ==
    /\ fixed_size \in [Types -> Sizes]
    /\ \A T \in Types : fixed_size[T] = FixedOf(T, fixed_size)
<1> DEFINE e == [p \in Types \X [Types -> Sizes] |-> FixedOf(p[1], p[2])]
           Body(g) == [T \in Types |-> FixedOf(T, g)]
           f == CHOOSE g : g = Body(g)
<1>1. Bodies(e, Types, Sizes)
  BY FixedOfSize DEF Bodies
<1>2. LooksDown(e, Types, Sizes, Depth)
  <2>1. ASSUME NEW T \in Types, NEW g \in [Types -> Sizes], NEW h \in [Types -> Sizes],
               \A U \in Types : Depth[U] < Depth[T] => g[U] = h[U]
        PROVE  e[<<T, g>>] = e[<<T, h>>]
    <3>1. e[<<T, g>>] = FixedOf(T, g) /\ e[<<T, h>>] = FixedOf(T, h)
      OBVIOUS
    <3>2. CASE T.kind \in {"prim", "uint", "seq", "set"}
      <4>1. FixedOf(T, g) = FixedOf(T, h)
        BY <3>2 DEF FixedOf
      <4> QED
        BY <3>1, <4>1
    <3>3. CASE T.kind \in {"tuple", "struct"}
      <4>1. \A i \in DOMAIN T.members : g[T.members[i].type] = h[T.members[i].type]
        BY <2>1, <3>3, PartsOfType DEF IsPart
      <4>2. Members(T, g) = Members(T, h)
        BY <4>1 DEF Members
      <4>3. FixedOf(T, g) = FixedOf(T, h)
        BY <4>2 DEF FixedOf
      <4> QED
        BY <3>1, <4>3
    <3> QED
      BY <3>2, <3>3, PartsOfType
  <2> HIDE DEF e
  <2> QED
    BY <2>1 DEF LooksDown
<1>3. PICK v : ByDepth(v, Types, Sizes, e)
  <2>1. NoSize \in Sizes /\ Depth \in [Types -> Nat]
    BY TypesAssumption DEF Sizes
  <2> HIDE DEF e
  <2> QED
    BY <1>1, <1>2, <2>1, DepthRecursion
<1>4. v \in [Types -> Sizes] /\ \A T \in Types : v[T] = e[<<T, v>>]
  <2> HIDE DEF e
  <2> QED
    BY <1>3 DEF ByDepth
<1>5. v = Body(v)
  <2>1. \A T \in Types : e[<<T, v>>] = FixedOf(T, v)
    BY <1>4
  <2> HIDE DEF e
  <2> QED
    BY <1>4, <2>1
<1>6. f = Body(f)
  <2> HIDE DEF Body
  <2> QED
    BY <1>5
<1>7. fixed_size = f
  BY Zenon DEF fixed_size, FixedOf, Members, tuple_fixed_size
<1> HIDE DEF f, e
<1>8. DOMAIN f = Types /\ \A T \in Types : f[T] = FixedOf(T, f)
  BY <1>6
<1> DEFINE Good == {T \in Types : f[T] = v[T]}
<1>9. Good = Types
  <2>1. ASSUME NEW T \in Types, \A U \in Types : Depth[U] < Depth[T] => U \in Good
        PROVE  T \in Good
    <3>1. f[T] = FixedOf(T, f) /\ v[T] = FixedOf(T, v)
      BY <1>5, <1>8
    <3>2. CASE T.kind \in {"prim", "uint", "seq", "set"}
      <4>1. FixedOf(T, f) = FixedOf(T, v)
        BY <3>2 DEF FixedOf
      <4> QED
        BY <3>1, <4>1
    <3>3. CASE T.kind \in {"tuple", "struct"}
      <4>1. \A i \in DOMAIN T.members : f[T.members[i].type] = v[T.members[i].type]
        BY <2>1, <3>3, PartsOfType DEF IsPart
      <4>2. Members(T, f) = Members(T, v)
        BY <4>1 DEF Members
      <4>3. FixedOf(T, f) = FixedOf(T, v)
        BY <4>2 DEF FixedOf
      <4> QED
        BY <3>1, <4>3
    <3> QED
      BY <3>2, <3>3, PartsOfType
  <2>2. Good \in SUBSET Types /\ Depth \in [Types -> Nat]
    BY TypesAssumption
  <2> HIDE DEF Good
  <2> QED
    BY <2>1, <2>2, DepthInduction
<1>10. f \in [Types -> Sizes]
  <2>1. f = [T \in Types |-> f[T]]
    BY <1>6
  <2>2. \A T \in Types : f[T] \in Sizes
    BY <1>4, <1>9
  <2> QED
    BY <2>1, <2>2
<1> QED
  BY <1>7, <1>8, <1>10

(***************************************************************************)
(* Objects, their sizes and their serializations.                          *)
(***************************************************************************)
LEMMA ObjectIs ==
    /\ \A x \in Objects : x[1] \in Types /\ x[2] \in Values[x[1]]
    /\ \A T \in Types : \A v \in Values[T] :
         Object(T, v) \in Objects /\ Object(T, v)[1] = T /\ Object(T, v)[2] = v
<1>1. ASSUME NEW x \in Objects PROVE x[1] \in Types /\ x[2] \in Values[x[1]]
  <2>1. PICK T \in Types : x \in {T} \X Values[T]
    BY DEF Objects
  <2> QED
    BY <2>1
<1>2. ASSUME NEW T \in Types, NEW v \in Values[T]
      PROVE  Object(T, v) \in Objects /\ Object(T, v)[1] = T /\ Object(T, v)[2] = v
  <2>1. Object(T, v) \in {T} \X Values[T]
    BY DEF Object
  <2> QED
    BY <2>1 DEF Objects, Object
<1> QED
  BY <1>1, <1>2

\* What an object is made of: objects, of the types that the type is made of.
MadeOf(x, y) ==
    /\ Len(y) \in Nat /\ y = [i \in 1 .. Len(y) |-> y[i]]
    /\ \A i \in 1 .. Len(y) : y[i] \in Objects /\ IsPart(y[i][1], x[1])
    /\ x[1].kind \in {"seq", "set"} => \A i \in 1 .. Len(y) : y[i][1] = x[1].elem
    /\ x[1].kind \in {"tuple", "struct"} =>
         /\ Len(y) = Len(x[1].members)
         /\ \A i \in 1 .. Len(y) : y[i][1] = x[1].members[i].type

LEMMA InnerMade ==
    ASSUME NEW x \in Objects
    PROVE  /\ MadeOf(x, Inner(x))
           /\ x[1].kind \in {"prim", "uint"} => x[2] \in Nat
<1> DEFINE T == x[1]
           v == x[2]
<1>1. T \in Types /\ v \in Values[T]
  BY ObjectIs
<1>2. /\ T.kind \in {"prim", "uint"} => v \in Nat
      /\ T.kind = "seq" => v \in Seq(Values[T.elem])
      /\ T.kind = "set" => Order(v) \in Seq(Values[T.elem])
      /\ T.kind = "tuple" =>
           \A i \in DOMAIN T.members : v[i] \in Values[T.members[i].type]
      /\ T.kind = "struct" =>
           \A i \in DOMAIN T.members : v[T.members[i].id] \in Values[T.members[i].type]
  <2>1. UIntLimit \in Nat
    BY WidthAssumption
  <2> HIDE DEF T, v
  <2> QED
    BY <1>1, <2>1, ValuesAssumption
<1>3. CASE T.kind \in {"prim", "uint"}
  <2>1. Inner(x) = << >>
    BY <1>3 DEF Inner
  <2> QED
    BY <1>2, <1>3, <2>1 DEF MadeOf
<1>4. CASE T.kind \in {"seq", "set"}
  <2> DEFINE es == Elements(T, v)
             n == Len(es)
  <2>1. es \in Seq(Values[T.elem]) /\ IsPart(T.elem, T) /\ T.elem \in Types
    BY <1>1, <1>2, <1>4, PartsOfType DEF Elements, IsPart
  <2>2. n \in Nat /\ DOMAIN es = 1 .. n /\ \A i \in 1 .. n : es[i] \in Values[T.elem]
    <3> HIDE DEF es
    <3> QED
      BY <2>1
  <2>3. Inner(x) = [i \in DOMAIN es |-> Object(T.elem, es[i])]
    BY <1>4 DEF Inner
  <2> HIDE DEF es, n, T, v
  <2> DEFINE o(i) == Object(T.elem, es[i])
  <2>4. \A i \in 1 .. n : o(i) \in Objects /\ o(i)[1] = T.elem
    BY <2>1, <2>2, ObjectIs
  <2>5. Inner(x) = [i \in 1 .. n |-> o(i)]
    BY <2>2, <2>3
  <2> HIDE DEF o
  <2>6. Len(Inner(x)) = n /\ \A i \in 1 .. n : Inner(x)[i] = o(i)
    BY <2>2, <2>5
  <2>7. T.kind \in {"seq", "set"}
    BY <1>4 DEF T
  <2>8. MadeOf(x, Inner(x))
    BY <2>1, <2>2, <2>4, <2>5, <2>6, <2>7 DEF MadeOf, T
  <2> QED
    BY <2>7, <2>8 DEF T
<1>5. CASE T.kind \in {"tuple", "struct"}
  <2> DEFINE n == Len(T.members)
             U(i) == T.members[i].type
             val(i) == IF T.kind = "tuple" THEN v[i] ELSE v[T.members[i].id]
             o(i) == Object(U(i), val(i))
  <2>1. n \in Nat /\ DOMAIN T.members = 1 .. n /\ \A i \in 1 .. n : IsPart(U(i), T)
    BY <1>1, <1>5, PartsOfType
  <2>2. \A i \in 1 .. n : val(i) \in Values[U(i)]
    BY <1>2, <1>5, <2>1
  <2>3. Inner(x) = [i \in DOMAIN T.members |-> o(i)]
    <3>1. CASE T.kind = "tuple"
      BY <3>1 DEF Inner
    <3>2. CASE T.kind = "struct"
      BY <3>2 DEF Inner
    <3> QED
      BY <1>5, <3>1, <3>2
  <2> HIDE DEF U, val, n, T, v
  <2>4. \A i \in 1 .. n : o(i) \in Objects /\ o(i)[1] = U(i)
    BY <2>1, <2>2, ObjectIs DEF IsPart
  <2>5. Inner(x) = [i \in 1 .. n |-> o(i)]
    BY <2>1, <2>3
  <2> HIDE DEF o
  <2>6. Len(Inner(x)) = n /\ \A i \in 1 .. n : Inner(x)[i] = o(i)
    BY <2>1, <2>5
  <2>7. T.kind \in {"tuple", "struct"}
    BY <1>5 DEF T
  <2>8. MadeOf(x, Inner(x))
    BY <2>1, <2>4, <2>5, <2>6, <2>7 DEF MadeOf, T, U, n
  <2> QED
    BY <2>7, <2>8 DEF T
<1> QED
  BY <1>1, <1>3, <1>4, <1>5, PartsOfType

\* What a function says of what an object is made of.
Applied(g, x) == [i \in DOMAIN Inner(x) |-> g[Inner(x)[i]]]

LEMMA AppliedIs ==
    ASSUME NEW x \in Objects, NEW g
    PROVE  /\ Len(Inner(x)) \in Nat /\ DOMAIN Inner(x) = 1 .. Len(Inner(x))
           /\ Len(Applied(g, x)) = Len(Inner(x))
           /\ Applied(g, x) = [i \in 1 .. Len(Inner(x)) |-> g[Inner(x)[i]]]
           /\ \A i \in 1 .. Len(Inner(x)) : Inner(x)[i] \in Objects
           /\ \A S : g \in [Objects -> S] => Applied(g, x) \in Seq(S)
<1> DEFINE y == Inner(x)
           n == Len(y)
<1>1. n \in Nat /\ y = [i \in 1 .. n |-> y[i]] /\ \A i \in 1 .. n : y[i] \in Objects
  BY InnerMade DEF MadeOf
<1>2. Applied(g, x) = [i \in DOMAIN y |-> g[y[i]]]
  BY DEF Applied
<1> HIDE DEF y, n
<1>3. DOMAIN y = 1 .. n
  BY <1>1
<1>4. Applied(g, x) = [i \in 1 .. n |-> g[y[i]]]
  BY <1>2, <1>3
<1>5. Len(Applied(g, x)) = n
  BY <1>1, <1>4
<1>6. ASSUME NEW S, g \in [Objects -> S] PROVE Applied(g, x) \in Seq(S)
  <2>1. \A i \in 1 .. n : g[y[i]] \in S
    BY <1>1, <1>6
  <2> QED
    BY <1>1, <1>4, <2>1
<1> QED
  BY <1>1, <1>3, <1>4, <1>5, <1>6 DEF y, n

LEMMA AppliedSame ==
    ASSUME NEW x \in Objects, NEW g, NEW h,
           \A y \in Objects : Depth[y[1]] < Depth[x[1]] => g[y] = h[y]
    PROVE  Applied(g, x) = Applied(h, x)
<1>1. \A i \in DOMAIN Inner(x) :
        Inner(x)[i] \in Objects /\ Depth[Inner(x)[i][1]] < Depth[x[1]]
  <2>1. MadeOf(x, Inner(x)) /\ DOMAIN Inner(x) = 1 .. Len(Inner(x))
    BY InnerMade, AppliedIs
  <2> QED
    BY <2>1 DEF MadeOf, IsPart
<1> QED
  BY <1>1 DEF Applied

LEMMA ObjectDepth ==
    [x \in Objects |-> Depth[x[1]]] \in [Objects -> Nat]
  BY ObjectIs, TypesAssumption

AotOf(x, sizes) ==
    IF fixed_size[x[1]] # NoSize THEN fixed_size[x[1]]
    ELSE CASE x[1].kind \in {"seq", "set"} -> container_aot_size(x[1], sizes)
           [] x[1].kind = "tuple" -> tuple_aot_size[sizes]
           [] x[1].kind = "struct" -> struct_aot_size[sizes]
           [] OTHER -> aot_vuint_size(x[2])

LEMMA FixedNat ==
    ASSUME NEW T \in Types, fixed_size[T] # NoSize PROVE fixed_size[T] \in Nat
  BY FixedSizes DEF Sizes

LEMMA AotOfNat ==
    ASSUME NEW x \in Objects, NEW sizes \in Seq(Nat) PROVE AotOf(x, sizes) \in Nat
<1> DEFINE T == x[1]
<1>1. T \in Types /\ Len(sizes) \in Nat
  BY ObjectIs
<1>2. CASE fixed_size[T] # NoSize
  BY <1>1, <1>2, FixedNat DEF AotOf
<1>3. CASE fixed_size[T] = NoSize /\ T.kind \in {"seq", "set"}
  <2>1. AotOf(x, sizes) = container_aot_size(T, sizes)
    BY <1>3 DEF AotOf
  <2>2. T.elem \in Types
    BY <1>1, <1>3, PartsOfType DEF IsPart
  <2>3. fixed_size[T.elem] # NoSize => Len(sizes) * fixed_size[T.elem] \in Nat
    <3>1. \A i, j \in Nat : i * j \in Nat
      OBVIOUS
    <3> QED
      BY <1>1, <2>2, <3>1, FixedNat
  <2>4. aot_vuint_size(Len(sizes)) \in Nat /\ Sum[sizes] \in Nat
    BY <1>1, SizeNat, SumNat
  <2> QED
    BY <2>1, <2>3, <2>4 DEF container_aot_size
<1>4. CASE fixed_size[T] = NoSize /\ T.kind = "tuple"
  BY <1>4, SumNat DEF AotOf, tuple_aot_size
<1>5. CASE fixed_size[T] = NoSize /\ T.kind = "struct"
  BY <1>5, StructNat DEF AotOf
<1>6. CASE fixed_size[T] = NoSize /\ T.kind \notin {"seq", "set", "tuple", "struct"}
  <2>1. T.kind # "prim"
    <3>1. T.kind = "prim" => fixed_size[T] = T.size /\ T.size \in Nat
      BY <1>1, FixedSizes, PartsOfType DEF FixedOf
    <3> QED
      BY <1>6, <3>1 DEF NoSize
  <2>2. x[2] \in Nat
    BY <1>1, <1>6, <2>1, InnerMade, PartsOfType
  <2> QED
    BY <1>6, <2>2, SizeNat DEF AotOf
<1> QED
  BY <1>2, <1>3, <1>4, <1>5, <1>6

LEMMA AotSizes ==
    /\ aot_size \in [Objects -> Nat]
    /\ \A x \in Objects : aot_size[x] = AotOf(x, Applied(aot_size, x))
<1> DEFINE e == [p \in Objects \X [Objects -> Nat] |-> AotOf(p[1], Applied(p[2], p[1]))]
           Body(g) == [x \in Objects |-> AotOf(x, Applied(g, x))]
           f == CHOOSE g : g = Body(g)
           depth == [x \in Objects |-> Depth[x[1]]]
<1>1. Bodies(e, Objects, Nat)
  <2>1. \A x \in Objects : \A g \in [Objects -> Nat] : AotOf(x, Applied(g, x)) \in Nat
    BY AppliedIs, AotOfNat
  <2> QED
    BY <2>1 DEF Bodies
<1>2. LooksDown(e, Objects, Nat, depth)
  <2>1. ASSUME NEW x \in Objects, NEW g \in [Objects -> Nat], NEW h \in [Objects -> Nat],
               \A y \in Objects : depth[y] < depth[x] => g[y] = h[y]
        PROVE  e[<<x, g>>] = e[<<x, h>>]
    <3>1. Applied(g, x) = Applied(h, x)
      BY <2>1, AppliedSame
    <3> QED
      BY <3>1
  <2> HIDE DEF e
  <2> QED
    BY <2>1 DEF LooksDown
<1>3. depth \in [Objects -> Nat]
  BY ObjectDepth
<1>4. PICK v : ByDepth(v, Objects, Nat, e)
  <2>1. 0 \in Nat
    OBVIOUS
  <2> HIDE DEF e, depth
  <2> QED
    BY <1>1, <1>2, <1>3, <2>1, DepthRecursion
<1>5. v \in [Objects -> Nat] /\ \A x \in Objects : v[x] = e[<<x, v>>]
  <2> HIDE DEF e
  <2> QED
    BY <1>4 DEF ByDepth
<1>6. v = Body(v)
  <2>1. \A x \in Objects : e[<<x, v>>] = AotOf(x, Applied(v, x))
    BY <1>5
  <2> HIDE DEF e
  <2> QED
    BY <1>5, <2>1
<1>7. f = Body(f)
  <2> HIDE DEF Body
  <2> QED
    BY <1>6
<1>8. aot_size = f
  BY Zenon DEF aot_size, AotOf, Applied
<1> HIDE DEF f, e
<1>9. DOMAIN f = Objects /\ \A x \in Objects : f[x] = AotOf(x, Applied(f, x))
  BY <1>7
<1> DEFINE Good == {x \in Objects : f[x] = v[x]}
<1>10. Good = Objects
  <2>1. ASSUME NEW x \in Objects, \A y \in Objects : depth[y] < depth[x] => y \in Good
        PROVE  x \in Good
    <3>1. Applied(f, x) = Applied(v, x)
      BY <2>1, AppliedSame
    <3> QED
      BY <1>6, <1>9, <3>1
  <2>2. Good \in SUBSET Objects
    OBVIOUS
  <2> HIDE DEF Good, depth
  <2> QED
    BY <1>3, <2>1, <2>2, DepthInduction
<1>11. f \in [Objects -> Nat]
  <2>1. f = [x \in Objects |-> f[x]]
    BY <1>7
  <2>2. \A x \in Objects : f[x] \in Nat
    BY <1>5, <1>10
  <2> QED
    BY <2>1, <2>2
<1> QED
  BY <1>8, <1>9, <1>11

LEMMA HeaderIs ==
    ASSUME NEW m, m.id \in Byte, m.type \in Types, NEW x \in Objects
    PROVE  LET n == IF fixed_size[m.type] # NoSize THEN fixed_size[m.type] ELSE aot_size[x]
           IN  /\ n \in Nat
               /\ write_field_header(m, x) \in Seq(Byte)
               /\ Len(write_field_header(m, x)) = 1 + Len(write_var_uint(n))
<1> DEFINE n == IF fixed_size[m.type] # NoSize THEN fixed_size[m.type] ELSE aot_size[x]
           h == <<m.id>>
           w == write_var_uint(n)
<1>1. n \in Nat
  BY FixedNat, AotSizes
<1>2. w \in Seq(Byte)
  <2> HIDE DEF n
  <2> QED
    BY <1>1, Written DEF Continued
<1>3. h \in Seq(Byte) /\ Len(h) = 1
  OBVIOUS
<1>4. h \o w \in Seq(Byte) /\ Len(h \o w) = 1 + Len(w)
  <2>1. \A u, v \in Seq(Byte) : u \o v \in Seq(Byte) /\ Len(u \o v) = Len(u) + Len(v)
    OBVIOUS
  <2> HIDE DEF h, w
  <2> QED
    BY <1>2, <1>3, <2>1
<1>5. write_field_header(m, x) = h \o w
  <2>1. CASE fixed_size[m.type] # NoSize
    <3>1. write_field_header(m, x)
            = string_constant[h \o static_vuint_serialization(fixed_size[m.type])]
      BY <2>1 DEF write_field_header
    <3>2. static_vuint_serialization(fixed_size[m.type]) = w
      <4>1. n = fixed_size[m.type]
        BY <2>1
      <4>2. static_vuint_serialization(n) = w
        <5> HIDE DEF n
        <5> QED
          BY <1>1, StaticSame
      <4> QED
        BY <4>1, <4>2
    <3> HIDE DEF h, w
    <3> QED
      BY <1>4, <3>1, <3>2, ConstantSame
  <2>2. CASE fixed_size[m.type] = NoSize
    BY <2>2 DEF write_field_header
  <2> QED
    BY <2>1, <2>2
<1> HIDE DEF h, w, n
<1> QED
  BY <1>1, <1>4, <1>5 DEF w, n

\* The members of a struct with their headers.
Headed(x, ss) ==
    [i \in DOMAIN ss |-> write_field_header(x[1].members[i], Inner(x)[i]) \o ss[i]]

LEMMA HeadedIs ==
    ASSUME NEW x \in Objects, x[1].kind = "struct",
           NEW ss \in Seq(Seq(Byte)), Len(ss) = Len(Inner(x))
    PROVE  /\ Headed(x, ss) \in Seq(Seq(Byte)) /\ Len(Headed(x, ss)) = Len(ss)
           /\ DOMAIN Headed(x, ss) = 1 .. Len(ss)
           /\ \A i \in 1 .. Len(ss) :
                Len(Headed(x, ss)[i])
                  = Len(write_field_header(x[1].members[i], Inner(x)[i])) + Len(ss[i])
<1> DEFINE n == Len(ss)
           h(i) == write_field_header(x[1].members[i], Inner(x)[i])
           e(i) == h(i) \o ss[i]
<1>1. n \in Nat /\ DOMAIN ss = 1 .. n /\ \A i \in 1 .. n : ss[i] \in Seq(Byte)
  OBVIOUS
<1>2. \A i \in 1 .. n : h(i) \in Seq(Byte)
  <2> SUFFICES ASSUME NEW i \in 1 .. n PROVE h(i) \in Seq(Byte)
    OBVIOUS
  <2>1. MadeOf(x, Inner(x)) /\ x[1] \in Types
    BY InnerMade, ObjectIs
  <2>2. Inner(x)[i] \in Objects /\ i \in DOMAIN x[1].members
    BY <2>1, PartsOfType DEF MadeOf
  <2>3. x[1].members[i].id \in Byte /\ x[1].members[i].type \in Types
    BY <2>1, <2>2, PartsOfType DEF IsPart
  <2> QED
    BY <2>2, <2>3, HeaderIs
<1>3. \A i \in 1 .. n : e(i) \in Seq(Byte) /\ Len(e(i)) = Len(h(i)) + Len(ss[i])
  <2> HIDE DEF h
  <2>1. \A u, v \in Seq(Byte) : u \o v \in Seq(Byte) /\ Len(u \o v) = Len(u) + Len(v)
    OBVIOUS
  <2> QED
    BY <1>1, <1>2, <2>1
<1>4. Headed(x, ss) = [i \in 1 .. n |-> e(i)]
  BY <1>1 DEF Headed
<1> HIDE DEF e, n
<1>5. /\ Headed(x, ss) \in Seq(Seq(Byte)) /\ Len(Headed(x, ss)) = n
      /\ \A i \in 1 .. n : Headed(x, ss)[i] = e(i)
  BY <1>1, <1>3, <1>4
<1> QED
  BY <1>3, <1>4, <1>5 DEF n, h

WriteOf(x, ss) ==
    CASE x[1].kind = "prim" -> write_prim(x[1].size, x[2])
      [] x[1].kind \in {"seq", "set"} -> write_elems(ss)
      [] x[1].kind = "tuple" -> serialize_tuple[ss]
      [] x[1].kind = "struct" -> serialize_custom_struct(x, ss)
      [] OTHER -> write_var_uint(x[2])

LEMMA WriteOfBytes ==
    ASSUME NEW x \in Objects, NEW ss \in Seq(Seq(Byte)), Len(ss) = Len(Inner(x))
    PROVE  /\ WriteOf(x, ss) \in Seq(Byte)
           /\ x[1].kind = "prim" => Len(WriteOf(x, ss)) = x[1].size
           /\ x[1].kind = "uint" => Len(WriteOf(x, ss)) = aot_vuint_size(x[2])
           /\ x[1].kind \in {"seq", "set"} =>
                Len(WriteOf(x, ss)) = aot_vuint_size(Len(ss)) + Len(Joined[ss])
           /\ x[1].kind = "tuple" => WriteOf(x, ss) = Joined[ss]
           /\ x[1].kind = "struct" => Len(WriteOf(x, ss)) = Len(Joined[Headed(x, ss)]) + 1
<1> DEFINE T == x[1]
<1>1. T \in Types /\ MadeOf(x, Inner(x))
  BY ObjectIs, InnerMade
<1>2. CASE T.kind = "prim"
  <2>1. T.size \in Nat /\ x[2] \in Nat
    BY <1>1, <1>2, PartsOfType, InnerMade
  <2>2. WriteOf(x, ss) = write_prim(T.size, x[2])
    BY <1>2 DEF WriteOf
  <2> QED
    BY <1>2, <2>1, <2>2, PrimWritten
<1>3. CASE T.kind = "uint"
  <2>1. x[2] \in Nat
    BY <1>3, InnerMade
  <2>2. WriteOf(x, ss) = write_var_uint(x[2])
    BY <1>3 DEF WriteOf
  <2> QED
    BY <1>3, <2>1, <2>2, Written, SizeIsLength DEF Continued
<1>4. CASE T.kind \in {"seq", "set"}
  <2> DEFINE u == write_var_uint(Len(ss))
             v == Joined[ss]
  <2>1. Len(ss) \in Nat
    OBVIOUS
  <2>2. u \in Seq(Byte) /\ v \in Seq(Byte) /\ Len(u) = aot_vuint_size(Len(ss))
    <3>1. \A n \in Nat : write_var_uint(n) \in Seq(Byte)
                         /\ Len(write_var_uint(n)) = aot_vuint_size(n)
      BY Written, SizeIsLength DEF Continued
    <3> QED
      BY <2>1, <3>1, JoinedLength
  <2>3. WriteOf(x, ss) = u \o v
    BY <1>4 DEF WriteOf, write_elems
  <2> HIDE DEF u, v
  <2>4. u \o v \in Seq(Byte) /\ Len(u \o v) = Len(u) + Len(v)
    BY <2>2
  <2> QED
    BY <1>4, <2>2, <2>3, <2>4 DEF v
<1>5. CASE T.kind = "tuple"
  BY <1>5, JoinedLength DEF WriteOf, serialize_tuple
<1>6. CASE T.kind = "struct"
  <2> DEFINE v == Joined[Headed(x, ss)]
  <2>1. v \in Seq(Byte)
    BY <1>6, HeadedIs, JoinedLength
  <2>2. WriteOf(x, ss) = v \o <<0>>
    BY <1>6 DEF WriteOf, serialize_custom_struct, Headed
  <2>3. 0 \in Byte
    BY Bytes
  <2> HIDE DEF v
  <2>4. v \o <<0>> \in Seq(Byte) /\ Len(v \o <<0>>) = Len(v) + 1
    BY <2>1, <2>3
  <2> QED
    BY <1>6, <2>2, <2>4 DEF v
<1> QED
  BY <1>1, <1>2, <1>3, <1>4, <1>5, <1>6, PartsOfType

LEMMA Serializations ==
    /\ serialize \in [Objects -> Seq(Byte)]
    /\ \A x \in Objects : serialize[x] = WriteOf(x, Applied(serialize, x))
<1> DEFINE S == Seq(Byte)
           e == [p \in Objects \X [Objects -> S] |-> WriteOf(p[1], Applied(p[2], p[1]))]
           Body(g) == [x \in Objects |-> WriteOf(x, Applied(g, x))]
           f == CHOOSE g : g = Body(g)
           depth == [x \in Objects |-> Depth[x[1]]]
<1>1. Bodies(e, Objects, S)
  <2>1. \A x \in Objects : \A g \in [Objects -> S] : WriteOf(x, Applied(g, x)) \in S
    BY AppliedIs, WriteOfBytes
  <2> HIDE DEF S
  <2> QED
    BY <2>1 DEF Bodies
<1> HIDE DEF S
<1>2. LooksDown(e, Objects, S, depth)
  <2>1. ASSUME NEW x \in Objects, NEW g \in [Objects -> S], NEW h \in [Objects -> S],
               \A y \in Objects : depth[y] < depth[x] => g[y] = h[y]
        PROVE  e[<<x, g>>] = e[<<x, h>>]
    <3>1. Applied(g, x) = Applied(h, x)
      BY <2>1, AppliedSame
    <3> QED
      BY <3>1
  <2> HIDE DEF e
  <2> QED
    BY <2>1 DEF LooksDown
<1>3. depth \in [Objects -> Nat]
  BY ObjectDepth
<1>4. PICK v : ByDepth(v, Objects, S, e)
  <2>1. << >> \in S
    BY DEF S
  <2> HIDE DEF e, depth
  <2> QED
    BY <1>1, <1>2, <1>3, <2>1, DepthRecursion
<1>5. v \in [Objects -> S] /\ \A x \in Objects : v[x] = e[<<x, v>>]
  <2> HIDE DEF e
  <2> QED
    BY <1>4 DEF ByDepth
<1>6. v = Body(v)
  <2>1. \A x \in Objects : e[<<x, v>>] = WriteOf(x, Applied(v, x))
    BY <1>5
  <2> HIDE DEF e
  <2> QED
    BY <1>5, <2>1
<1>7. f = Body(f)
  <2> HIDE DEF Body
  <2> QED
    BY <1>6
<1>8. serialize = f
  BY Zenon DEF serialize, WriteOf, Applied
<1> HIDE DEF f, e
<1>9. DOMAIN f = Objects /\ \A x \in Objects : f[x] = WriteOf(x, Applied(f, x))
  BY <1>7
<1> DEFINE Good == {x \in Objects : f[x] = v[x]}
<1>10. Good = Objects
  <2>1. ASSUME NEW x \in Objects, \A y \in Objects : depth[y] < depth[x] => y \in Good
        PROVE  x \in Good
    <3>1. Applied(f, x) = Applied(v, x)
      BY <2>1, AppliedSame
    <3> QED
      BY <1>6, <1>9, <3>1
  <2>2. Good \in SUBSET Objects
    OBVIOUS
  <2> HIDE DEF Good, depth
  <2> QED
    BY <1>3, <2>1, <2>2, DepthInduction
<1>11. f \in [Objects -> S]
  <2>1. f = [x \in Objects |-> f[x]]
    BY <1>7
  <2>2. \A x \in Objects : f[x] \in S
    BY <1>5, <1>10
  <2> QED
    BY <2>1, <2>2
<1> QED
  BY <1>8, <1>9, <1>11 DEF S

\* Where the type of an object has a fixed size, the sizes of what it is made of are
\* fixed too, and are the ones the fixed size is computed from.
LEMMA FixedParts ==
    ASSUME NEW x \in Objects, x[1].kind \in {"tuple", "struct"}, fixed_size[x[1]] # NoSize
    PROVE  fixed_size[x[1]] = IF x[1].kind = "tuple" THEN Sum[Applied(aot_size, x)]
                              ELSE struct_fixed_size[Applied(aot_size, x)]
<1> DEFINE T == x[1]
           y == Inner(x)
           n == Len(y)
           fs == Members(T, fixed_size)
<1>1. T \in Types /\ MadeOf(x, y) /\ DOMAIN y = 1 .. n
  BY ObjectIs, InnerMade, AppliedIs
<1>2. /\ n = Len(T.members) /\ DOMAIN T.members = 1 .. n
      /\ \A i \in 1 .. n : y[i] \in Objects /\ y[i][1] = T.members[i].type
  BY <1>1, PartsOfType DEF MadeOf
<1>3. DOMAIN fs = 1 .. n /\ \A i \in 1 .. n : fs[i] = fixed_size[y[i][1]]
  <2> HIDE DEF y, n
  <2> QED
    BY <1>2 DEF Members
<1>4. fixed_size[T] = FixedOf(T, fixed_size)
  BY <1>1, FixedSizes
<1>5. /\ \A i \in DOMAIN fs : fs[i] # NoSize
      /\ FixedOf(T, fixed_size)
           = IF T.kind = "tuple" THEN Sum[fs] ELSE struct_fixed_size[fs]
  BY <1>4 DEF FixedOf
<1>6. \A i \in 1 .. n : aot_size[y[i]] = fs[i]
  <2> HIDE DEF fs, y, n, T
  <2> SUFFICES ASSUME NEW i \in 1 .. n PROVE aot_size[y[i]] = fs[i]
    OBVIOUS
  <2>1. fixed_size[y[i][1]] # NoSize /\ y[i] \in Objects
    BY <1>2, <1>3, <1>5
  <2>2. aot_size[y[i]] = AotOf(y[i], Applied(aot_size, y[i]))
    BY <2>1, AotSizes
  <2>3. AotOf(y[i], Applied(aot_size, y[i])) = fixed_size[y[i][1]]
    BY <2>1 DEF AotOf
  <2> QED
    BY <1>3, <2>2, <2>3
<1>7. Applied(aot_size, x) = fs
  <2>1. Applied(aot_size, x) = [i \in 1 .. n |-> aot_size[y[i]]]
    BY AppliedIs
  <2>2. fs = [i \in 1 .. n |-> fs[i]]
    BY <1>3 DEF Members
  <2> HIDE DEF fs, y, n
  <2> QED
    BY <1>6, <2>1, <2>2
<1> HIDE DEF fs, y, n
<1> QED
  BY <1>4, <1>5, <1>7

\* What an object is made of has its sizes: so has the object.
LEMMA ExactFromParts ==
    ASSUME NEW x \in Objects,
           \A i \in 1 .. Len(Inner(x)) : Len(serialize[Inner(x)[i]]) = aot_size[Inner(x)[i]]
    PROVE  Len(serialize[x]) = aot_size[x]
<1> DEFINE T == x[1]
           y == Inner(x)
           n == Len(y)
           ss == Applied(serialize, x)
           sizes == Applied(aot_size, x)
<1>1. T \in Types /\ MadeOf(x, y)
  BY ObjectIs, InnerMade
<1>2. /\ n \in Nat /\ DOMAIN y = 1 .. n /\ \A i \in 1 .. n : y[i] \in Objects
      /\ ss \in Seq(Seq(Byte)) /\ Len(ss) = n /\ sizes \in Seq(Nat) /\ Len(sizes) = n
      /\ ss = [i \in 1 .. n |-> serialize[y[i]]] /\ sizes = [i \in 1 .. n |-> aot_size[y[i]]]
  BY AppliedIs, AotSizes, Serializations
<1>3. serialize[x] = WriteOf(x, ss) /\ aot_size[x] = AotOf(x, sizes)
  BY AotSizes, Serializations
<1>4. \A i \in 1 .. n : Len(serialize[y[i]]) = aot_size[y[i]]
  OBVIOUS
<1>5. fixed_size[T] = FixedOf(T, fixed_size)
  BY <1>1, FixedSizes
<1>6. /\ T.kind = "prim" => Len(WriteOf(x, ss)) = T.size
      /\ T.kind = "uint" => Len(WriteOf(x, ss)) = aot_vuint_size(x[2])
      /\ T.kind \in {"seq", "set"} =>
           Len(WriteOf(x, ss)) = aot_vuint_size(n) + Len(Joined[ss])
      /\ T.kind = "tuple" => WriteOf(x, ss) = Joined[ss]
      /\ T.kind = "struct" => Len(WriteOf(x, ss)) = Len(Joined[Headed(x, ss)]) + 1
  <2>1. ss \in Seq(Seq(Byte)) /\ Len(ss) = Len(Inner(x)) /\ Len(ss) = n
    BY <1>2
  <2> HIDE DEF ss, n
  <2> QED
    BY <2>1, WriteOfBytes
<1> HIDE DEF y, n, ss, sizes
<1>7. Len(Joined[ss]) = Sum[sizes]
  <2>1. [i \in DOMAIN ss |-> Len(ss[i])] = sizes
    BY <1>2, <1>4
  <2> QED
    BY <1>2, <2>1, JoinedLength
<1>8. \A i \in 1 .. n : ss[i] = serialize[y[i]] /\ sizes[i] = aot_size[y[i]]
                         /\ Len(ss[i]) = sizes[i] /\ sizes[i] \in Nat
  BY <1>2, <1>4, AotSizes
<1>9. CASE T.kind = "prim"
  <2>1. fixed_size[T] = T.size /\ T.size \in Nat
    BY <1>1, <1>5, <1>9, PartsOfType DEF FixedOf
  <2>2. AotOf(x, sizes) = T.size
    BY <2>1 DEF AotOf, NoSize
  <2> QED
    BY <1>3, <1>6, <1>9, <2>2
<1>10. CASE T.kind = "uint"
  <2>1. fixed_size[T] = NoSize
    BY <1>5, <1>10 DEF FixedOf
  <2>2. AotOf(x, sizes) = aot_vuint_size(x[2])
    BY <1>10, <2>1 DEF AotOf
  <2> QED
    BY <1>3, <1>6, <1>10, <2>2
<1>11. CASE T.kind \in {"seq", "set"}
  <2>1. fixed_size[T] = NoSize
    BY <1>5, <1>11 DEF FixedOf
  <2>2. AotOf(x, sizes) = container_aot_size(T, sizes)
    BY <1>11, <2>1 DEF AotOf
  <2>3. \A i \in 1 .. n : y[i] \in Objects /\ y[i][1] = T.elem
    BY <1>1, <1>11 DEF MadeOf, n, y
  <2>4. T.elem \in Types
    BY <1>1, <1>11, PartsOfType DEF IsPart
  <2>5. container_aot_size(T, sizes) = aot_vuint_size(n) + Sum[sizes]
    <3>1. CASE fixed_size[T.elem] # NoSize
      <4>1. \A i \in 1 .. n : sizes[i] = fixed_size[T.elem]
        <5> SUFFICES ASSUME NEW i \in 1 .. n PROVE sizes[i] = fixed_size[T.elem]
          OBVIOUS
        <5>1. y[i] \in Objects /\ fixed_size[y[i][1]] # NoSize
          BY <2>3, <3>1
        <5>2. aot_size[y[i]] = AotOf(y[i], Applied(aot_size, y[i]))
          BY <5>1, AotSizes
        <5>3. AotOf(y[i], Applied(aot_size, y[i])) = fixed_size[y[i][1]]
          BY <5>1 DEF AotOf
        <5> QED
          BY <1>8, <2>3, <5>2, <5>3
      <4> DEFINE c == fixed_size[T.elem]
      <4>2. Sum[sizes] = n * c
        <5>1. c \in Nat /\ \A i \in 1 .. Len(sizes) : sizes[i] = c
          BY <1>2, <2>4, <3>1, <4>1, FixedNat
        <5> HIDE DEF c
        <5>2. Sum[sizes] = Len(sizes) * c
          BY <1>2, <5>1, SumOfSame
        <5> QED
          BY <1>2, <5>2
      <4> QED
        BY <1>2, <3>1, <4>2 DEF container_aot_size
    <3>2. CASE fixed_size[T.elem] = NoSize
      BY <1>2, <3>2 DEF container_aot_size
    <3> QED
      BY <3>1, <3>2
  <2> QED
    BY <1>3, <1>6, <1>7, <1>11, <2>2, <2>5
<1>12. CASE T.kind = "tuple"
  <2>1. CASE fixed_size[T] # NoSize
    <3>1. fixed_size[T] = Sum[sizes]
      BY <1>12, <2>1, FixedParts DEF sizes
    <3>2. AotOf(x, sizes) = fixed_size[T]
      BY <2>1 DEF AotOf
    <3> QED
      BY <1>3, <1>6, <1>7, <1>12, <3>1, <3>2
  <2>2. CASE fixed_size[T] = NoSize
    <3>1. AotOf(x, sizes) = Sum[sizes]
      BY <1>12, <2>2 DEF AotOf, tuple_aot_size
    <3> QED
      BY <1>3, <1>6, <1>7, <1>12, <3>1
  <2> QED
    BY <2>1, <2>2
<1>13. CASE T.kind = "struct"
  <2> DEFINE hs == Headed(x, ss)
             ms == [i \in DOMAIN sizes |-> member_aot_size[sizes[i]]]
  <2>1. hs \in Seq(Seq(Byte)) /\ DOMAIN hs = 1 .. n
        /\ \A i \in 1 .. n :
             Len(hs[i]) = Len(write_field_header(T.members[i], y[i])) + Len(ss[i])
    <3>1. x[1].kind = "struct" /\ Len(ss) = Len(Inner(x)) /\ Len(ss) = n
      BY <1>2, <1>13 DEF n, y
    <3>2. /\ hs \in Seq(Seq(Byte)) /\ DOMAIN hs = 1 .. Len(ss)
          /\ \A i \in 1 .. Len(ss) :
               Len(hs[i]) = Len(write_field_header(x[1].members[i], Inner(x)[i])) + Len(ss[i])
      BY <1>2, <3>1, HeadedIs
    <3> HIDE DEF hs
    <3> QED
      BY <3>1, <3>2 DEF y
  <2>2. \A i \in 1 .. n : Len(hs[i]) = member_aot_size[sizes[i]]
    <3> SUFFICES ASSUME NEW i \in 1 .. n PROVE Len(hs[i]) = member_aot_size[sizes[i]]
      OBVIOUS
    <3> DEFINE m == T.members[i]
               k == IF fixed_size[m.type] # NoSize THEN fixed_size[m.type] ELSE aot_size[y[i]]
    <3>1. y[i] \in Objects /\ y[i][1] = m.type /\ i \in DOMAIN T.members
      BY <1>1, <1>2, <1>13, PartsOfType DEF MadeOf, n, y
    <3>2. m.id \in Byte /\ m.type \in Types
      BY <1>1, <1>13, <3>1, PartsOfType DEF IsPart
    <3>3. k = sizes[i]
      <4>1. aot_size[y[i]] = AotOf(y[i], Applied(aot_size, y[i]))
        BY <3>1, AotSizes
      <4>2. fixed_size[m.type] # NoSize => aot_size[y[i]] = fixed_size[m.type]
        BY <3>1, <4>1 DEF AotOf
      <4> QED
        BY <1>8, <4>2
    <3>4. Len(write_field_header(m, y[i])) = 1 + Len(write_var_uint(k))
      <4> HIDE DEF m
      <4> QED
        BY <3>1, <3>2, HeaderIs
    <3>5. Len(hs[i]) = 1 + Len(write_var_uint(sizes[i])) + sizes[i]
      <4>1. Len(hs[i]) = Len(write_field_header(m, y[i])) + sizes[i]
        <5> HIDE DEF hs
        <5> QED
          BY <1>8, <2>1
      <4> HIDE DEF hs, k, m
      <4> QED
        BY <3>3, <3>4, <4>1
    <3> HIDE DEF hs, k, m
    <3> QED
      BY <1>8, <3>5, SizeNat
  <2>3. [i \in DOMAIN hs |-> Len(hs[i])] = ms
    <3> HIDE DEF hs
    <3> QED
      BY <1>2, <2>1, <2>2
  <2>4. Len(Joined[hs]) = Sum[ms]
    <3> HIDE DEF hs, ms
    <3> QED
      BY <2>1, <2>3, JoinedLength
  <2>5. struct_aot_size[sizes] = Sum[ms] + 1
    BY <1>2 DEF struct_aot_size
  <2>6. Len(WriteOf(x, ss)) = struct_aot_size[sizes]
    <3> HIDE DEF hs, ms
    <3> QED
      BY <1>6, <1>13, <2>4, <2>5 DEF hs
  <2>7. CASE fixed_size[T] # NoSize
    <3>1. fixed_size[T] = struct_fixed_size[sizes]
      BY <1>13, <2>7, FixedParts DEF sizes
    <3>2. struct_fixed_size[sizes] = struct_aot_size[sizes]
      BY <1>2, StructNat
    <3>3. AotOf(x, sizes) = fixed_size[T]
      BY <2>7 DEF AotOf
    <3> QED
      BY <1>3, <2>6, <3>1, <3>2, <3>3
  <2>8. CASE fixed_size[T] = NoSize
    <3>1. AotOf(x, sizes) = struct_aot_size[sizes]
      BY <1>13, <2>8 DEF AotOf
    <3> QED
      BY <1>3, <2>6, <3>1
  <2> QED
    BY <2>7, <2>8
<1> QED
  BY <1>1, <1>9, <1>10, <1>11, <1>12, <1>13, PartsOfType

\* The size that is computed for a value (aot_size) is the number of bytes it is
\* serialized to, whatever it is made of and however deep it is nested: the writer,
\* which does not check, stays within its buffer and fills it.
THEOREM AotSizeIsLength ==
    \A x \in Objects : /\ serialize[x] \in Seq(Byte)
                       /\ aot_size[x] \in Nat /\ Len(serialize[x]) = aot_size[x]
<1> DEFINE depth == [x \in Objects |-> Depth[x[1]]]
           Good == {x \in Objects : Len(serialize[x]) = aot_size[x]}
<1>1. Good = Objects
  <2>1. ASSUME NEW x \in Objects, \A y \in Objects : depth[y] < depth[x] => y \in Good
        PROVE  x \in Good
    <3>1. \A i \in 1 .. Len(Inner(x)) :
            Inner(x)[i] \in Objects /\ Depth[Inner(x)[i][1]] < Depth[x[1]]
      BY InnerMade DEF MadeOf, IsPart
    <3>2. \A i \in 1 .. Len(Inner(x)) : Inner(x)[i] \in Good
      BY <2>1, <3>1
    <3> QED
      BY <3>2, ExactFromParts
  <2>2. Good \in SUBSET Objects /\ depth \in [Objects -> Nat]
    BY ObjectDepth
  <2> HIDE DEF Good, depth
  <2> QED
    BY <2>1, <2>2, DepthInduction
<1> QED
  BY <1>1, AotSizes, Serializations

(***************************************************************************)
(* The transfer.                                                           *)
(***************************************************************************)
\* Before the value is written there is nothing; then the buffer is what it is
\* serialized to, in its whole length, until some of it is cut off.
Transfer ==
    /\ writer \in Types /\ value \in Values[writer]
    /\ TypeOK
    /\ step = "written" => /\ buffer = serialize[Object(writer, value)]
                           /\ capacity = aot_size[Object(writer, value)]

LEMMA TransferHolds == WriterSpec => []Transfer
<1>1. WriterInit => Transfer
  <2> SUFFICES ASSUME WriterInit PROVE Transfer
    OBVIOUS
  <2>1. Object(writer, value) \in Objects
    BY ObjectIs DEF WriterInit
  <2> QED
    BY <2>1 DEF WriterInit, Transfer, TypeOK
<1>2. Transfer /\ [WriterNext]_written => Transfer'
  <2> SUFFICES ASSUME Transfer, [WriterNext]_written PROVE Transfer'
    OBVIOUS
  <2>1. CASE serialize_to_buffer
    <3>1. writer' = writer /\ value' = value /\ Object(writer, value) \in Objects
      BY <2>1 DEF serialize_to_buffer, Transfer, TypeOK
    <3>2. /\ buffer' = serialize[Object(writer, value)] /\ buffer' \in Seq(Byte)
          /\ capacity' = aot_size[Object(writer, value)] /\ capacity' \in Nat
      BY <2>1, <3>1, AotSizeIsLength DEF serialize_to_buffer
    <3> QED
      BY <2>1, <3>1, <3>2 DEF serialize_to_buffer, Transfer, TypeOK
  <2>2. ASSUME NEW n \in 0 .. Len(buffer), truncate(n) PROVE Transfer'
    <3>1. SubSeq(buffer, 1, n) \in Seq(Byte)
      <4>1. buffer \in Seq(Byte)
        BY DEF Transfer, TypeOK
      <4>2. n \in Nat /\ n <= Len(buffer)
        BY <4>1
      <4>3. \A i \in 1 .. n : buffer[i] \in Byte
        BY <4>1, <4>2
      <4> QED
        BY <4>1, <4>2, <4>3, SubSeqProperties
    <3> QED
      BY <2>2, <3>1 DEF truncate, Transfer, TypeOK
  <2>3. CASE UNCHANGED written
    BY <2>3 DEF written, Transfer, TypeOK
  <2> QED
    BY <2>1, <2>2, <2>3 DEF WriterNext
<1> QED
  BY <1>1, <1>2, PTL DEF WriterSpec

\* What is written are bytes: a tag, a length and the parts of a value fit into
\* theirs (TypeOK, of every run of the writer).
THEOREM WriterTypeOK == WriterSpec => []TypeOK
<1>1. Transfer => TypeOK
  BY DEF Transfer
<1> QED
  BY <1>1, TransferHolds, PTL

\* Whenever a value has been written, the bytes are as many as the buffer was
\* allocated for (serialize_to_buffer; SizeExact, of every run of the writer).
THEOREM WriterSizeExact == WriterSpec => []SizeExact
<1>1. Transfer => SizeExact
  BY AotSizeIsLength DEF Transfer, TypeOK, SizeExact
<1> QED
  BY <1>1, TransferHolds, PTL
==============================================================================
