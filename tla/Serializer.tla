----------------------------- MODULE Serializer -----------------------------
(***************************************************************************)
(* Writing objects (pbss): the size of a value is computed, then the value  *)
(* is written into a buffer of that size.                                  *)
(*                                                                         *)
(* A type is a record: a primitive of some bytes (an enum is its underlying *)
(* one), a variable length unsigned integer, a sequence, a container with  *)
(* an order of its own (a set), a tuple, or a struct whose members carry   *)
(* tags.                                                                   *)
(***************************************************************************)
EXTENDS VarUint, SequencesExt

CONSTANTS Types,      \* the types of the program, those of their parts included
          Depth,      \* how deep each of them is nested
          Values,     \* for each type, some of its values
          Order(_),   \* the elements of a set, in the order of the container
          PackWidth   \* sizeof(uintmax_t)

\* The types a type is made of.
Parts(T) ==
    CASE T.kind \in {"seq", "set"} -> {T.elem}
      [] T.kind \in {"tuple", "struct"} -> {T.members[i].type : i \in DOMAIN T.members}
      [] OTHER -> {}

\* A type has parts of types that are nested less deep; a tag is a byte, not zero.
ASSUME TypesAssumption ==
    /\ Depth \in [Types -> Nat] /\ PackWidth \in Nat
    /\ \A T \in Types :
         /\ T.kind \in {"prim", "uint", "seq", "set", "tuple", "struct"}
         /\ T.kind = "prim" => T.size \in Nat
         /\ T.kind \in {"tuple", "struct"} =>
              T.members \in Seq([id : 1 .. (2 * Radix - 1), type : Types])
         /\ \A U \in Parts(T) : U \in Types /\ Depth[U] < Depth[T]

\* A value of a type is made of values of its parts.
ASSUME ValuesAssumption ==
    \A T \in Types : \A v \in Values[T] :
       /\ T.kind = "prim" => v \in Nat
       /\ T.kind = "uint" => v \in 0 .. UIntLimit - 1
       /\ T.kind = "seq" => v \in Seq(Values[T.elem])
       /\ T.kind = "set" => Order(v) \in Seq(Values[T.elem])
       /\ T.kind = "tuple" =>
            \A i \in DOMAIN T.members : v[i] \in Values[T.members[i].type]
       /\ T.kind = "struct" =>
            \A i \in DOMAIN T.members : v[T.members[i].id] \in Values[T.members[i].type]

\* A value together with its type.
Object(T, v) == <<T, v>>
Objects == UNION {{T} \X Values[T] : T \in Types}

\* The elements of a container in the order in which it is iterated.
Elements(T, v) == IF T.kind = "set" THEN Order(v) ELSE v

\* What an object is made of, one after the other.
Inner(x) ==
    LET T == x[1]
        v == x[2]
    IN  CASE T.kind \in {"seq", "set"} ->
               [i \in DOMAIN Elements(T, v) |-> Object(T.elem, Elements(T, v)[i])]
          [] T.kind = "tuple" ->
               [i \in DOMAIN T.members |-> Object(T.members[i].type, v[i])]
          [] T.kind = "struct" ->
               [i \in DOMAIN T.members |-> Object(T.members[i].type, v[T.members[i].id])]
          [] OTHER -> << >>

Sum[s \in Seq(Nat)] ==
    LET sum[i \in 0 .. Len(s)] == IF i = 0 THEN 0 ELSE sum[i - 1] + s[i] IN sum[Len(s)]

(***************************************************************************)
(* Sizes.  NoSize is the absence of a fixed_size.                          *)
(***************************************************************************)
NoSize == -1

\* The fixed sizes of the members of a tuple.
tuple_fixed_size == Sum

\* The members of a struct, each with its tag and its length; and the zero.
struct_fixed_size[fs \in Seq(Nat)] ==
    Sum[[i \in DOMAIN fs |-> 1 + static_vuint_size(fs[i]) + fs[i]]] + 1

\* A struct has a fixed size when all its members have; so does a tuple.
fixed_size[T \in Types] ==
    CASE T.kind = "prim" -> T.size
      [] T.kind \in {"uint", "seq", "set"} -> NoSize
      [] OTHER ->
           LET fs == [i \in DOMAIN T.members |-> fixed_size[T.members[i].type]]
           IN  IF \E i \in DOMAIN fs : fs[i] = NoSize THEN NoSize
               ELSE IF T.kind = "tuple" THEN tuple_fixed_size[fs]
               ELSE struct_fixed_size[fs]

\* The sizes of the elements are only asked for where they are not fixed.
container_aot_size(T, sizes) ==
    aot_vuint_size(Len(sizes)) +
      (IF fixed_size[T.elem] # NoSize THEN Len(sizes) * fixed_size[T.elem] ELSE Sum[sizes])

tuple_aot_size == Sum

member_aot_size[n \in Nat] == 1 + aot_vuint_size(n) + n

struct_aot_size[sizes \in Seq(Nat)] ==
    Sum[[i \in DOMAIN sizes |-> member_aot_size[sizes[i]]]] + 1

aot_size[x \in Objects] ==
    LET T == x[1]
        sizes == [i \in DOMAIN Inner(x) |-> aot_size[Inner(x)[i]]]
    IN  IF fixed_size[T] # NoSize THEN fixed_size[T]
        ELSE CASE T.kind \in {"seq", "set"} -> container_aot_size(T, sizes)
               [] T.kind = "tuple" -> tuple_aot_size[sizes]
               [] T.kind = "struct" -> struct_aot_size[sizes]
               [] OTHER -> aot_vuint_size(x[2])

(***************************************************************************)
(* Writing.                                                                *)
(***************************************************************************)
\* The bytes of a number of n bytes, as they are in memory: little endian.
write_prim(n, v) ==
    LET rest[i \in 0 .. n] == IF i = 0 THEN v ELSE rest[i - 1] \div (2 * Radix)
    IN  [i \in 1 .. n |-> rest[i - 1] % (2 * Radix)]

\* The number that is made of characters, from the right.
Packed(chars) ==
    LET low[i \in 0 .. Len(chars)] ==
          IF i = 0 THEN 0 ELSE low[i - 1] * (2 * Radix) + chars[Len(chars) - i + 1]
    IN  low[Len(chars)]

\* A constant string: its characters packed into one number, of which as many
\* bytes are written; one by one if they are too many for that, or a single one.
string_constant[chars \in Seq(Nat)] ==
    IF Len(chars) = 1 \/ Len(chars) > PackWidth THEN chars
    ELSE write_prim(Len(chars), Packed(chars))

\* write_field_header, had it given the size a byte of its own.
one_byte_size(m, x) ==
    <<m.id, IF fixed_size[m.type] # NoSize THEN fixed_size[m.type] ELSE aot_size[x]>>

\* The tag and the size of the member x; a constant where the size is fixed.
write_field_header(m, x) ==
    IF fixed_size[m.type] # NoSize
      THEN string_constant[<<m.id>> \o static_vuint_serialization(fixed_size[m.type])]
      ELSE <<m.id>> \o write_var_uint(aot_size[x])

\* One after the other, without anything between them.
Joined[ss \in Seq(Seq(Nat))] == FlattenSeq(ss)

\* The number of the elements, and the elements.
write_elems(ss) == write_var_uint(Len(ss)) \o Joined[ss]

serialize_tuple == Joined

\* Tag and size before each member, and a zero after the last one.
serialize_custom_struct(x, ss) ==
    Joined[[i \in DOMAIN ss |-> write_field_header(x[1].members[i], Inner(x)[i]) \o ss[i]]]
      \o <<0>>

serialize[x \in Objects] ==
    LET T == x[1]
        ss == [i \in DOMAIN Inner(x) |-> serialize[Inner(x)[i]]]
    IN  CASE T.kind = "prim" -> write_prim(T.size, x[2])
          [] T.kind \in {"seq", "set"} -> write_elems(ss)
          [] T.kind = "tuple" -> serialize_tuple[ss]
          [] T.kind = "struct" -> serialize_custom_struct(x, ss)
          [] OTHER -> write_var_uint(x[2])

(***************************************************************************)
(* One transfer: written into a buffer, of which possibly only a part gets *)
(* to the reader.                                                          *)
(***************************************************************************)
VARIABLES writer,   \* the type of the value
          value,    \* what is written
          step,     \* start, written, cut
          capacity, \* the size of the buffer
          buffer    \* the bytes
written == <<writer, value, step, capacity, buffer>>

WriterInit ==
    /\ writer \in Types
    /\ value \in Values[writer]
    /\ step = "start"
    /\ capacity = 0
    /\ buffer = << >>

\* A buffer of aot_size bytes, then serialize into it through a writer that does
\* not check bounds.
serialize_to_buffer ==
    /\ step = "start"
    /\ step' = "written"
    /\ capacity' = aot_size[Object(writer, value)]
    /\ buffer' = serialize[Object(writer, value)]
    /\ UNCHANGED <<writer, value>>

\* Only the first n bytes get to the reader.
truncate(n) ==
    /\ step = "written"
    /\ n < Len(buffer)
    /\ step' = "cut"
    /\ buffer' = SubSeq(buffer, 1, n)
    /\ UNCHANGED <<writer, value, capacity>>

WriterNext ==
    \/ serialize_to_buffer
    \/ \E n \in 0 .. Len(buffer) : truncate(n)

WriterSpec == WriterInit /\ [][WriterNext]_written

(***************************************************************************)
(* Properties.                                                             *)
(***************************************************************************)
\* What is written are bytes: tags, lengths and values all fit into theirs.
TypeOK ==
    /\ Object(writer, value) \in Objects
    /\ step \in {"start", "written", "cut"}
    /\ capacity \in Nat
    /\ buffer \in Seq(Byte)

\* The writer into the buffer stays within it and fills it: aot_size is the length
\* of the serialization, for every type and value.
SizeExact == step = "written" => Len(buffer) = capacity
==============================================================================
