--------------------------- MODULE MCSerialization ---------------------------
(* Small families of types for Serialization: 3 bits of payload in a byte. *)
EXTENDS Serialization, TLC

Prim(n) == [kind |-> "prim", size |-> n]
UInt == [kind |-> "uint"]
ListOf(T) == [kind |-> "seq", elem |-> T]
SetOf(T) == [kind |-> "set", elem |-> T]
Member(id, T) == [id |-> id, type |-> T]
Tuple(T, U) == [kind |-> "tuple", members |-> <<Member(1, T), Member(2, U)>>]
Struct(ms) == [kind |-> "struct", members |-> ms]

\* Every selection of the members, in every order; not the empty one, for which
\* the code has no aot_size.
Versions(ms) ==
    {Struct([i \in DOMAIN f |-> ms[f[i]]]) :
        f \in UNION {{g \in [1..n -> DOMAIN ms] : \A i, j \in 1..n : g[i] = g[j] => i = j} :
                     n \in 1..Len(ms)}}

Plain == Versions(<<Member(1, Prim(1)), Member(2, UInt), Member(3, Prim(2))>>)

\* A nested struct with and without a member of no fixed size, in a container and
\* on its own.
Nested == {Struct(<<Member(1, Prim(1)), Member(2, UInt)>>), Struct(<<Member(2, UInt)>>),
           Struct(<<Member(1, Prim(1))>>)}
WithNested ==
    UNION {Versions(<<Member(1, ListOf(n)), Member(2, n)>>) : n \in Nested}

\* Containers and tuples do not change between versions.
Containers == {Struct(<<Member(1, ListOf(Prim(2))), Member(2, Tuple(Prim(1), UInt))>>),
               Struct(<<Member(2, Tuple(Prim(1), UInt))>>),
               Struct(<<Member(3, Tuple(Prim(1), Prim(2))), Member(1, ListOf(Prim(2)))>>)}

\* A set of structs: elements that a reader cannot tell apart fall together.
Sets == {Struct(<<Member(1, SetOf(n)), Member(2, Prim(1))>>) : n \in Nested}

\* A nested struct all of whose members have a fixed size, and grow in number.
Fixed == {Struct(<<Member(1, n)>>) :
            n \in Versions(<<Member(1, Prim(1)), Member(2, Prim(1)), Member(3, Prim(2))>>)}

AllFamilies == {Plain, WithNested, Containers, Sets, Fixed}

\* The types of the families, with their parts: at most three levels of them.
WithParts(S) == S \cup UNION {Parts(T) : T \in S}
MCTypes == WithParts(WithParts(WithParts(UNION AllFamilies)))

MCDepth[T \in MCTypes] ==
    IF Parts(T) = {} THEN 0 ELSE 1 + Max({MCDepth[U] : U \in Parts(T)})

\* The values of a struct: a function of the tags.
StructValues(ms, some) ==
    FoldLeft(LAMBDA fs, m : {f @@ (m.id :> v) : f \in fs, v \in some[m.type]},
             {<< >>}, ms)

\* Some values of each type: at the boundaries of bytes and of lengths.
MCValues[T \in MCTypes] ==
    CASE T.kind = "prim" -> {1, (2 * Radix)^(T.size) - 1}
      [] T.kind = "uint" -> {0, Radix - 1, Radix, UIntLimit - 1}
      [] T.kind = "seq" ->
           {<< >>} \cup {<<v>> : v \in MCValues[T.elem]} \cup
           {[i \in 1 .. Radix |-> v] : v \in MCValues[T.elem]}
      [] T.kind = "set" ->
           {S \in SUBSET MCValues[T.elem] :
              Cardinality(S) \in {0, 1, 2, Cardinality(MCValues[T.elem])}}
      [] T.kind = "tuple" -> MCValues[T.members[1].type] \X MCValues[T.members[2].type]
      [] T.kind = "struct" -> StructValues(T.members, MCValues)

\* Some order of the elements of a set.
MCOrder(S) == FoldSet(LAMBDA x, es : Append(es, x), << >>, S)
==============================================================================
