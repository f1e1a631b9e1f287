---------------------------- MODULE Serialization ----------------------------
(***************************************************************************)
(* Object serialization (pbss): a program writes a value of a type into a  *)
(* buffer (Serializer), and a program built with another version of the    *)
(* type reads it.                                                          *)
(***************************************************************************)
EXTENDS Serializer

CONSTANTS Threshold,  \* PBSS_STRUCT_OPTIMISTIC_PARSE_THRESHOLD
          Families    \* sets of struct types, each the versions of one type

ASSUME SizesAssumption ==
    Threshold \in Nat /\ \A F \in Families : F \subseteq Types

RECURSIVE default_value(_), parse(_, _, _), parse_elems(_, _, _, _),
          parse_set_elems(_, _, _, _, _), skip_varuint(_, _, _),
          parse_custom_struct(_, _, _, _), parse_custom_struct_optimistic(_, _, _, _, _)

\* The call r, and then what is done with its value and the next position.
Then(r, Rest(_, _)) == IF r.pos = 0 THEN Eof ELSE Rest(r.val, r.pos)

(***************************************************************************)
(* Reading.                                                                *)
(***************************************************************************)
Ids(members) == {members[i].id : i \in DOMAIN members}

TypeOf(members, id) == members[CHOOSE i \in DOMAIN members : members[i].id = id].type

\* The default constructor.
default_value(T) ==
    CASE T.kind \in {"prim", "uint"} -> 0
      [] T.kind = "seq" -> << >>
      [] T.kind = "set" -> {}
      [] T.kind = "tuple" -> [i \in DOMAIN T.members |-> default_value(T.members[i].type)]
      [] T.kind = "struct" ->
           [id \in Ids(T.members) |-> default_value(TypeOf(T.members, id))]

\* read_prim: the bytes must all be there.
read_prim(T, s, p) ==
    IF p = 0 \/ p + T.size - 1 > Len(s) THEN Eof
    ELSE At(Sum[[i \in 1..T.size |-> s[p + i - 1] * ((2 * Radix)^(i - 1))]], p + T.size)

\* The elements of a sequence or the members of a tuple, one after the other;
\* ts are the types of those that are left.
parse_elems(ts, s, p, done) ==
    IF ts = << >> THEN At(done, p)
    ELSE Then(parse(ts[1], s, p),
              LAMBDA v, q : parse_elems(Tail(ts), s, q, Append(done, v)))

\* A sequence: its length, then its elements.  One longer than the input runs
\* into its end.
parse_sequence(T, s, p) ==
    Then(read_var_uint(s, p),
         LAMBDA n, q : IF n > Len(s) THEN Eof
                       ELSE parse_elems([i \in 1..n |-> T.elem], s, q, << >>))

\* The n elements that are left are inserted; one that is there already is dropped.
parse_set_elems(T, n, s, p, done) ==
    IF n = 0 THEN At(done, p)
    ELSE Then(parse(T, s, p), LAMBDA v, q : parse_set_elems(T, n - 1, s, q, done \cup {v}))

parse_set(T, s, p) ==
    Then(read_var_uint(s, p),
         LAMBDA n, q : IF n > Len(s) THEN Eof ELSE parse_set_elems(T.elem, n, s, q, {}))

\* The length of a known member is not used.  Where the member has a fixed size,
\* as many bytes are dropped as the length of a member of that size takes.
skip_varuint(T, s, p) ==
    IF fixed_size[T] # NoSize THEN p + static_vuint_size(fixed_size[T])
    ELSE IF p > Len(s) THEN 0
    ELSE IF s[p] < Radix THEN p + 1
    ELSE skip_varuint(T, s, p + 1)

\* A known member: its length is skipped, and it is parsed into the object.
parse_known(T, s, p, id, obj) ==
    Then(parse(T, s, skip_varuint(T, s, p)), LAMBDA v, q : At([obj EXCEPT ![id] = v], q))

\* parse_custom_struct_member, had it taken the length of an unknown member for
\* the whole of it.
ignore_length_only(members, s, p, id, obj) ==
    IF id \in Ids(members) THEN parse_known(TypeOf(members, id), s, p, id, obj)
    ELSE Then(read_var_uint(s, p), LAMBDA length, q : At(obj, p + length))

\* An unknown member is ignored by its length; that may go past the end.
parse_custom_struct_member(members, s, p, id, obj) ==
    IF id \in Ids(members) THEN parse_known(TypeOf(members, id), s, p, id, obj)
    ELSE Then(read_var_uint(s, p), LAMBDA length, q : At(obj, q + length))

\* parse_custom_struct, had the end of the input been taken for the end mark.
parse_custom_struct_lenient(members, s, p, obj) ==
    IF p > Len(s) THEN At(obj, p)
    ELSE IF s[p] = 0 THEN At(obj, p + 1)
    ELSE Then(parse_custom_struct_member(members, s, p + 1, s[p], obj),
              LAMBDA o, q : parse_custom_struct(members, s, q, o))

parse_custom_struct(members, s, p, obj) ==
    IF p > Len(s) THEN Eof
    ELSE IF s[p] = 0 THEN At(obj, p + 1)
    ELSE Then(parse_custom_struct_member(members, s, p + 1, s[p], obj),
              LAMBDA o, q : parse_custom_struct(members, s, q, o))

\* The members in the order of the declaration, from the k-th on; then everything
\* else is ignored.  `id' is a tag that was read and did not fit, or 0.
parse_custom_struct_optimistic(members, k, s, p, obj) ==
    IF k > Len(members)
      THEN Then(parse_custom_struct(<< >>, s, p, obj),
                LAMBDA o, q : At([id |-> 0, obj |-> o], q))
    ELSE IF p > Len(s) THEN Eof
    ELSE IF s[p] # members[k].id THEN At([id |-> s[p], obj |-> obj], p + 1)
    ELSE Then(parse_known(members[k].type, s, p + 1, s[p], obj),
              LAMBDA o, q : parse_custom_struct_optimistic(members, k + 1, s, q, o))

\* The fallback, had it forgotten the tag that was already read.
fallback_from_next(members, s, p, obj) ==
    Then(parse_custom_struct_optimistic(members, 1, s, p, obj),
         LAMBDA t, q : IF t.id = 0 THEN At(t.obj, q)
                       ELSE parse_custom_struct(members, s, q, t.obj))

parse_custom_struct_with_fallback(members, s, p, obj) ==
    Then(parse_custom_struct_optimistic(members, 1, s, p, obj),
         LAMBDA t, q :
           IF t.id = 0 THEN At(t.obj, q)
           ELSE Then(parse_custom_struct_member(members, s, q, t.id, t.obj),
                     LAMBDA o, r : parse_custom_struct(members, s, r, o)))

\* The optimistic parser for structs of more than Threshold members.
parse_custom_struct_optimistic_for_large(members, s, p, obj) ==
    IF Len(members) > Threshold
      THEN parse_custom_struct_with_fallback(members, s, p, obj)
      ELSE parse_custom_struct(members, s, p, obj)

parse_tuple(T, s, p) ==
    parse_elems([i \in DOMAIN T.members |-> T.members[i].type], s, p, << >>)

\* parse<T>(stream), from position p on.
parse(T, s, p) ==
    IF p = 0 THEN Eof
    ELSE CASE T.kind = "prim" -> read_prim(T, s, p)
           [] T.kind = "uint" -> read_var_uint(s, p)
           [] T.kind = "seq" -> parse_sequence(T, s, p)
           [] T.kind = "set" -> parse_set(T, s, p)
           [] T.kind = "tuple" -> parse_tuple(T, s, p)
           [] T.kind = "struct" ->
                parse_custom_struct_optimistic_for_large(T.members, s, p, default_value(T))

(***************************************************************************)
(* One transfer: written by one version, possibly cut short, read by another. *)
(***************************************************************************)
VARIABLES reader,   \* the version of the type that is read
          parsed,   \* has it been read?
          outcome   \* what parse returned

vars == <<written, reader, parsed, outcome>>

Init ==
    /\ WriterInit
    /\ \E F \in Families : writer \in F /\ reader \in F
    /\ parsed = FALSE
    /\ outcome = Eof

parse_from_buffer ==
    /\ step \in {"written", "cut"} /\ ~parsed
    /\ parsed' = TRUE
    /\ outcome' = parse(reader, buffer, 1)
    /\ UNCHANGED <<written, reader>>

\* What is written is there before it is read, and what is cut off before that.
Next ==
    \/ ~parsed /\ WriterNext /\ UNCHANGED <<reader, parsed, outcome>>
    \/ parse_from_buffer

Spec == Init /\ [][Next]_vars

(***************************************************************************)
(* Properties.                                                             *)
(***************************************************************************)
\* A whole serialization has been read, or one that was cut short.
Whole == parsed /\ step = "written"
Cut == parsed /\ step = "cut"

RECURSIVE Project(_, _, _), LengthsAgree(_, _, _)

\* What a reader of version R should make of a value of version W: the members
\* both know, and defaults for the rest.
Project(W, R, v) ==
    CASE R.kind \in {"prim", "uint"} -> v
      [] R.kind = "seq" -> [i \in DOMAIN v |-> Project(W.elem, R.elem, v[i])]
      [] R.kind = "set" -> {Project(W.elem, R.elem, x) : x \in v}
      [] R.kind = "tuple" ->
           [i \in DOMAIN v |-> Project(W.members[i].type, R.members[i].type, v[i])]
      [] R.kind = "struct" ->
           [id \in Ids(R.members) |->
              IF id \in Ids(W.members)
              THEN Project(TypeOf(W.members, id), TypeOf(R.members, id), v[id])
              ELSE default_value(TypeOf(R.members, id))]

\* Where a member has a fixed size for the reader, the length that the writer put
\* before it takes as many bytes as the length of a member of that size.
LengthsAgree(W, R, v) ==
    CASE R.kind \in {"prim", "uint"} -> TRUE
      [] R.kind = "seq" -> \A i \in DOMAIN v : LengthsAgree(W.elem, R.elem, v[i])
      [] R.kind = "set" -> \A x \in v : LengthsAgree(W.elem, R.elem, x)
      [] R.kind = "tuple" ->
           \A i \in DOMAIN v : LengthsAgree(W.members[i].type, R.members[i].type, v[i])
      [] R.kind = "struct" ->
           \A id \in Ids(R.members) \cap Ids(W.members) :
              LET w == TypeOf(W.members, id)
                  r == TypeOf(R.members, id)
              IN  /\ LengthsAgree(w, r, v[id])
                  /\ fixed_size[r] # NoSize =>
                       static_vuint_size(aot_size[Object(w, v[id])]) = static_vuint_size(fixed_size[r])

\* A struct read by another version, with members added, removed or reordered at
\* any depth, has the members both versions know and defaults for the rest, and
\* nothing of the input is left over; provided that LengthsAgree.
Compatible ==
    Whole /\ LengthsAgree(writer, reader, value) =>
        /\ outcome.pos = Len(buffer) + 1
        /\ outcome.val = Project(writer, reader, value)

\* Optimistic parsing of large structs and normal parsing come to the same result,
\* on whole and on truncated input.
OptimisticAgrees ==
    parsed /\ LengthsAgree(writer, reader, value) =>
        LET r == parse_custom_struct(reader.members, buffer, 1, default_value(reader))
        IN  outcome.pos = r.pos /\ (r.pos # 0 => outcome.val = r.val)

\* Input that is cut short anywhere is reported, whatever the reader knows of it.
PrefixFails ==
    Cut /\ LengthsAgree(writer, reader, value) => outcome.pos = 0

\* doc/serialization.md: "forward/backward compatibility for custom structs",
\* without a condition on lengths.
CompatibleAlways ==
    Whole =>
        /\ outcome.pos = Len(buffer) + 1
        /\ outcome.val = Project(writer, reader, value)
==============================================================================
