------------------------------- MODULE Optional -------------------------------
(***************************************************************************)
(* pbsu::optional (include/bs3/utils/optional.hh): a union that may hold a *)
(* T beside a flag saying whether it does.  Every operation of the holder  *)
(* and of the optional is an action; T's own constructors and assignments  *)
(* may throw.  The cell of an object is followed apart from its flag:      *)
(* constructing over a live T, or destroying a T that is not there, leaves *)
(* the cell Broken for good.                                               *)
(***************************************************************************)
EXTENDS Integers

CONSTANTS
    Objects,        \* the variables of type optional<T> in the program
    Values,         \* the values of T, integers so that they are ordered
    Moved,          \* the value a T may be left with when it is moved from
    FromOptional,   \* what T's constructor makes of an optional<T> (TRUE for bool)
    MayThrow        \* may the constructors and assignments of T throw?

Dead   == -1        \* no T lives in the union
Broken == -2        \* a T was leaked or destroyed twice
None   == -1

ASSUME ValuesAssumption ==
    /\ Values \subseteq Nat
    /\ {Moved, FromOptional} \subseteq Values
    /\ MayThrow \in BOOLEAN

VARIABLES
    obj,        \* the objects: alive?, has_value and the union
    last        \* the last call: operation, this, other, the value and its end
vars == <<obj, last>>

Calls == {"default", "construct", "copy", "move", "destroy", "nullopt", "copy=",
          "move=", "value=", "emplace", "swap"}

\* No cell is ever Broken: no call constructs over a T that lives, or destroys
\* one that does not.
TypeOK ==
    /\ obj \in [Objects -> [alive : BOOLEAN, has : BOOLEAN, cell : Values \cup {Dead}]]
    /\ last.op \in Calls /\ last.this \in Objects /\ last.other \in Objects
    /\ last.arg \in Values /\ last.threw \in BOOLEAN

-----------------------------------------------------------------------------
\* The holder.

NotThere == [alive |-> FALSE, has |-> FALSE, cell |-> Dead]
Empty == [alive |-> TRUE, has |-> FALSE, cell |-> Dead]

construct(r, v) ==
    [alive |-> r.alive, has |-> TRUE, cell |-> IF r.cell = Dead THEN v ELSE Broken]

destroyed(cell) == IF cell \in Values THEN Dead ELSE Broken

destruct(r) == [alive |-> r.alive, has |-> FALSE, cell |-> destroyed(r.cell)]

\* A cell still live when the object goes away stays: that T is never destroyed.
destructor(r) ==
    [alive |-> FALSE, has |-> FALSE, cell |-> IF r.has THEN destroyed(r.cell) ELSE r.cell]

in_place(v) == [alive |-> TRUE, has |-> TRUE, cell |-> v]

\* Copying and moving differ in what becomes of the source only.
copy_holder(other) ==
    LET r == [alive |-> TRUE, has |-> other.has, cell |-> Dead]
    IN  IF r.has THEN construct(r, other.cell) ELSE r

move_holder(other) ==
    LET r == [alive |-> TRUE, has |-> other.has, cell |-> Dead]
    IN  IF r.has THEN construct(r, other.cell) ELSE r

\* The same holder after its T has been moved from.
MovedFrom(r) == {r, [r EXCEPT !.cell = Moved]}

-----------------------------------------------------------------------------
\* The optional's operations.

Alive(o) == obj[o].alive
Ends(op, o, p, v, threw) ==
    last' = [op |-> op, this |-> o, other |-> p, arg |-> v, threw |-> threw]

Default(o) ==
    /\ ~Alive(o)
    /\ obj' = [obj EXCEPT ![o] = Empty]
    /\ Ends("default", o, o, Moved, FALSE)

FromValue(o, v) ==
    /\ ~Alive(o)
    /\ \/ obj' = [obj EXCEPT ![o] = in_place(v)] /\ Ends("construct", o, o, v, FALSE)
       \/ MayThrow /\ UNCHANGED obj /\ Ends("construct", o, o, v, TRUE)

CopyConstruct(o, p) ==
    /\ ~Alive(o) /\ Alive(p)
    /\ \/ /\ obj' = [obj EXCEPT ![o] = copy_holder(obj[p])]
          /\ Ends("copy", o, p, Moved, FALSE)
       \/ /\ MayThrow /\ obj[p].has /\ UNCHANGED obj
          /\ Ends("copy", o, p, Moved, TRUE)

MoveConstruct(o, p) ==
    /\ ~Alive(o) /\ Alive(p)
    /\ \/ /\ \E q \in IF obj[p].has THEN MovedFrom(obj[p]) ELSE {obj[p]} :
                obj' = [obj EXCEPT ![o] = move_holder(obj[p]), ![p] = q]
          /\ Ends("move", o, p, Moved, FALSE)
       \/ /\ MayThrow /\ obj[p].has
          /\ \E q \in MovedFrom(obj[p]) : obj' = [obj EXCEPT ![p] = q]
          /\ Ends("move", o, p, Moved, TRUE)

Destroy(o) ==
    /\ Alive(o)
    /\ obj' = [obj EXCEPT ![o] = destructor(obj[o])]
    /\ Ends("destroy", o, o, Moved, FALSE)

reset(r) == IF r.has THEN destruct(r) ELSE r

AssignNullopt(o) ==
    /\ Alive(o)
    /\ obj' = [obj EXCEPT ![o] = reset(obj[o])]
    /\ Ends("nullopt", o, o, Moved, FALSE)

\* T's own assignment: done, or thrown with the target in any state of T.
Assigned(r, v, threw) ==
    IF threw THEN {[r EXCEPT !.cell = w] : w \in Values}
    ELSE {[r EXCEPT !.cell = v]}

CopyAssign(o, p) ==
    /\ Alive(o) /\ Alive(p)
    /\ \E threw \in {FALSE, MayThrow /\ obj[p].has} :
        /\ \E r \in CASE obj[o].has /\ obj[p].has -> Assigned(obj[o], obj[p].cell, threw)
                      [] ~obj[o].has /\ obj[p].has ->
                            {IF threw THEN obj[o] ELSE construct(obj[o], obj[p].cell)}
                      [] OTHER -> {reset(obj[o])} :
             obj' = [obj EXCEPT ![o] = r]
        /\ Ends("copy=", o, p, Moved, threw)

\* As above, with the source's T moved from; a self-move leaves T in any state.
MoveAssign(o, p) ==
    /\ Alive(o) /\ Alive(p)
    /\ \E threw \in {FALSE, MayThrow /\ obj[p].has} :
        /\ \E r \in CASE obj[o].has /\ obj[p].has ->
                            Assigned(obj[o], obj[p].cell, threw \/ o = p)
                      [] ~obj[o].has /\ obj[p].has ->
                            {IF threw THEN obj[o] ELSE construct(obj[o], obj[p].cell)}
                      [] OTHER -> {reset(obj[o])} :
           \E q \in IF obj[p].has THEN MovedFrom(obj[p]) ELSE {obj[p]} :
             obj' = [obj EXCEPT ![p] = q, ![o] = r]
        /\ Ends("move=", o, p, Moved, threw)

\* A wrong version: assignment done as destroy and construct anew.
AssignValueAnew(o, v) ==
    /\ Alive(o)
    /\ \E threw \in {FALSE, MayThrow} :
        /\ obj' = [obj EXCEPT ![o] = IF threw THEN reset(obj[o])
                                     ELSE construct(reset(obj[o]), v)]
        /\ Ends("value=", o, o, v, threw)

AssignValue(o, v) ==
    /\ Alive(o)
    /\ \E threw \in {FALSE, MayThrow} :
        /\ \E r \in IF obj[o].has THEN Assigned(obj[o], v, threw)
                    ELSE {IF threw THEN obj[o] ELSE construct(obj[o], v)} :
             obj' = [obj EXCEPT ![o] = r]
        /\ Ends("value=", o, o, v, threw)

\* A wrong version: emplace without its first line: the T that is there is not destroyed.
EmplaceOver(o, v) ==
    /\ Alive(o)
    /\ \E threw \in {FALSE, MayThrow} :
        /\ obj' = [obj EXCEPT ![o] = IF threw THEN obj[o] ELSE construct(obj[o], v)]
        /\ Ends("emplace", o, o, v, threw)

Emplace(o, v) ==
    /\ Alive(o)
    /\ \E threw \in {FALSE, MayThrow} :
        /\ obj' = [obj EXCEPT ![o] = IF threw THEN reset(obj[o])
                                     ELSE construct(reset(obj[o]), v)]
        /\ Ends("emplace", o, o, v, threw)

\* With this engaged and other empty, other's T is constructed from the
\* optional, not from the T in it; the other way round from the T.
Swap(o, p) ==
    LET a == obj[o]  b == obj[p] IN
    /\ a.alive /\ b.alive
    /\ \/ /\ a.has /\ b.has
          /\ \/ /\ obj' = [obj EXCEPT ![o] = [@ EXCEPT !.cell = b.cell],
                                      ![p] = [@ EXCEPT !.cell = a.cell]]
                /\ Ends("swap", o, p, Moved, FALSE)
             \/ /\ MayThrow
                /\ \E v, w \in Values :
                     obj' = [obj EXCEPT ![o] = [@ EXCEPT !.cell = v],
                                        ![p] = [@ EXCEPT !.cell = w]]
                /\ Ends("swap", o, p, Moved, TRUE)
       \/ /\ a.has /\ ~b.has
          /\ obj' = [obj EXCEPT ![p] = construct(b, FromOptional), ![o] = destruct(a)]
          /\ Ends("swap", o, p, Moved, FALSE)
       \/ /\ ~a.has /\ b.has
          /\ obj' = [obj EXCEPT ![o] = construct(a, b.cell), ![p] = destruct(b)]
          /\ Ends("swap", o, p, Moved, FALSE)
       \/ /\ MayThrow /\ a.has # b.has
          /\ \E x \in {o, p} : /\ obj[x].has
                               /\ \E q \in MovedFrom(obj[x]) : obj' = [obj EXCEPT ![x] = q]
          /\ Ends("swap", o, p, Moved, TRUE)
       \/ /\ ~a.has /\ ~b.has /\ UNCHANGED obj
          /\ Ends("swap", o, p, Moved, FALSE)

-----------------------------------------------------------------------------
\* The comparisons.  An overload that takes its operands in both orders gives
\* the pair <<optional first, optional second>>.

vsNullopt(x) ==
    [eq |-> <<~x.has, ~x.has>>, ne |-> <<x.has, x.has>>,
     lt |-> <<FALSE, x.has>>,   le |-> <<~x.has, TRUE>>,
     gt |-> <<x.has, FALSE>>,   ge |-> <<TRUE, ~x.has>>]

vsOptional(a, b) ==
    LET both == a.has /\ b.has
        eq == IF both THEN a.cell = b.cell ELSE a.has = b.has
        less(x, y) == IF both THEN x.cell < y.cell ELSE ~x.has /\ y.has
    IN  [eq |-> eq, ne |-> ~eq, lt |-> less(a, b), le |-> ~less(b, a),
         gt |-> less(b, a), ge |-> ~less(a, b)]

\* A wrong version: both orders of < written with the same test.
vsValueOneSided(x, v) ==
    LET eq == x.has /\ x.cell = v
        lt == x.has /\ x.cell < v
        gt == x.has /\ v < x.cell
    IN  [eq |-> <<eq, eq>>, ne |-> <<~eq, ~eq>>, lt |-> <<lt, gt>>,
         le |-> <<~gt, ~lt>>, gt |-> <<gt, lt>>, ge |-> <<~lt, ~gt>>]

vsValue(x, v) ==
    LET eq == x.has /\ x.cell = v
        lt == ~x.has \/ x.cell < v      \* x < v
        gt == x.has /\ v < x.cell       \* v < x
    IN  [eq |-> <<eq, eq>>,   ne |-> <<~eq, ~eq>>,
         lt |-> <<lt, gt>>,   le |-> <<~gt, ~lt>>,
         gt |-> <<gt, lt>>,   ge |-> <<~lt, ~gt>>]

-----------------------------------------------------------------------------
Init ==
    /\ obj = [o \in Objects |-> NotThere]
    /\ \E o \in Objects : last = [op |-> "destroy", this |-> o, other |-> o,
                                  arg |-> Moved, threw |-> FALSE]

Next ==
    \E o \in Objects :
        \/ Default(o) \/ Destroy(o) \/ AssignNullopt(o)
        \/ \E v \in Values : FromValue(o, v) \/ AssignValue(o, v) \/ Emplace(o, v)
        \/ \E p \in Objects : \/ CopyConstruct(o, p) \/ MoveConstruct(o, p)
                              \/ CopyAssign(o, p) \/ MoveAssign(o, p) \/ Swap(o, p)

Spec == Init /\ [][Next]_vars

-----------------------------------------------------------------------------
\* The flag tells the truth about the union, whatever has thrown: has_value is
\* set exactly while a T lives there, so that no operation reads or destroys
\* a T that is not there, none is constructed over a live one, and no T
\* outlives its optional.
FlagMatchesCell ==
    \A o \in Objects : /\ obj[o].has <=> obj[o].cell \in Values
                       /\ ~obj[o].alive => ~obj[o].has

\* What a caller sees of an object.
Val(r) == IF r.has THEN r.cell ELSE None

SameEngagement(o) == obj'[o].has = obj[o].has /\ obj'[o].alive = obj[o].alive

\* What a call that ended well has done to the two optionals it was given.
Achieved(op, r, s, v, old, other) ==
    CASE op \in {"default", "nullopt"}       -> Val(r) = None /\ r.alive
      [] op = "destroy"                      -> ~r.alive
      [] op \in {"construct", "value=", "emplace"} -> Val(r) = v
      [] op \in {"copy", "copy="}            -> Val(r) = Val(other) /\ Val(s) = Val(other)
      [] op = "move"                         -> Val(r) = Val(other) /\ s.has = other.has
      [] op = "move="                        -> r.has = other.has /\ s.has = other.has
      [] op = "swap"                         ->
            /\ r.has = other.has /\ s.has = old.has
            /\ other.has \/ ~old.has => Val(r) = Val(other) /\ Val(s) = Val(old)

\* The contract of the Library TS for every operation, over the whole run: a
\* call that ends well has its stated effect, one that throws leaves every
\* optional as engaged as it was (emplace leaves its own empty), and no call
\* touches an optional it was not given.  The effect of swap is stated for
\* values where this is empty or both hold one: otherwise the other gets what T
\* makes of an optional.
ContractStep ==
    LET o == last'.this  p == last'.other  op == last'.op IN
    /\ \A x \in Objects \ {o, p} : obj'[x] = obj[x]
    /\ last'.threw /\ op # "emplace" => SameEngagement(o) /\ SameEngagement(p)
    /\ last'.threw /\ op = "emplace" => Val(obj'[o]) = None
    /\ ~last'.threw /\ op = "move=" /\ o # p => Val(obj'[o]) = Val(obj[p])
    /\ ~last'.threw => Achieved(op, obj'[o], obj'[p], last'.arg, obj[o], obj[p])

\* Every step of a run keeps the contract of the operation it performs.
Contract == [][ContractStep]_vars

\* The one order of optionals, an empty one below every value: the answers of
\* the six operators to a and b, and with the operands in both orders.
Order(a, b) ==
    LET eq == Val(a) = Val(b)
        lt == b.has /\ (a.has => a.cell < b.cell)
        gt == a.has /\ (b.has => b.cell < a.cell)
    IN  [eq |-> eq, ne |-> ~eq, lt |-> lt, le |-> lt \/ eq, gt |-> gt, ge |-> gt \/ eq]

BothOrders(a, b) ==
    LET x == Order(a, b)  y == Order(b, a)
    IN  [eq |-> <<x.eq, y.eq>>, ne |-> <<x.ne, y.ne>>, lt |-> <<x.lt, y.lt>>,
         le |-> <<x.le, y.le>>, gt |-> <<x.gt, y.gt>>, ge |-> <<x.ge, y.ge>>]

\* Every comparison answers from the one order in which an empty optional is
\* below every value and a value compares as the optional holding it.
CompareAgrees ==
    \A a \in {obj[o] : o \in {x \in Objects : Alive(x)}} :
        /\ vsNullopt(a) = BothOrders(a, Empty)
        /\ \A b \in {obj[o] : o \in {x \in Objects : Alive(x)}} :
                vsOptional(a, b) = Order(a, b)
        /\ \A v \in Values : vsValue(a, v) = BothOrders(a, in_place(v))

=============================================================================
