---------------------------- MODULE OptionalProofs ----------------------------
(***************************************************************************)
(* Proofs about Optional, for any number of optionals, any values and any  *)
(* value a moved or converted T may have.                                  *)
(***************************************************************************)
EXTENDS Optional, TLAPS

\* An optional whose flag tells the truth about its union.
Records == [alive : BOOLEAN, has : BOOLEAN, cell : Values \cup {Dead}]
Truthful(r) == (r.has <=> r.cell \in Values) /\ (~r.alive => ~r.has)
Sound == {r \in Records : Truthful(r)}

LastOK ==
    /\ last.op \in Calls /\ last.this \in Objects /\ last.other \in Objects
    /\ last.arg \in Values /\ last.threw \in BOOLEAN

\* The inductive invariant.
IInv == obj \in [Objects -> Sound] /\ LastOK

-----------------------------------------------------------------------------
\* The cell of a sound optional tells what its flag says: Dead is no value.
LEMMA SoundCell ==
    ASSUME NEW r \in Sound
    PROVE  /\ r.alive \in BOOLEAN /\ r.has \in BOOLEAN
           /\ r.has => r.alive /\ r.cell \in Values
           /\ ~r.has => r.cell = Dead
           /\ r = [alive |-> r.alive, has |-> r.has, cell |-> r.cell]
  BY DEF Sound, Records, Truthful

LEMMA DeadIsNoValue == Dead \notin Values
  BY ValuesAssumption DEF Dead

\* What holders make of sound ones is sound (optional_holder and optional::operator=).
LEMMA HolderSound ==
    ASSUME NEW r \in Sound
    PROVE  /\ Empty \in Sound
           /\ \A v \in Values : in_place(v) \in Sound
           /\ r.alive /\ ~r.has => \A v \in Values : construct(r, v) \in Sound
           /\ r.has => destruct(r) \in Sound
           /\ reset(r) \in Sound /\ ~reset(r).has /\ reset(r).alive = r.alive
           /\ destructor(r) \in Sound
           /\ r.has => \A v \in Values : [r EXCEPT !.cell = v] \in Sound
  <1>1. r \in Records
    BY DEF Sound
  <1>2. Empty \in Sound
    BY DeadIsNoValue DEF Empty, Sound, Records, Truthful
  <1>3. ASSUME NEW v \in Values PROVE in_place(v) \in Sound
    BY DEF in_place, Sound, Records, Truthful
  <1>4. ASSUME r.alive, ~r.has, NEW v \in Values PROVE construct(r, v) \in Sound
    <2>1. r.cell = Dead
      BY <1>4, SoundCell
    <2>2. construct(r, v) = [alive |-> r.alive, has |-> TRUE, cell |-> v]
      BY <1>1, <2>1 DEF construct, Records
    <2> QED BY <1>4, <2>2, <1>1 DEF Sound, Records, Truthful
  <1>5. CASE r.has
    <2>1. r.cell \in Values
      BY <1>5, SoundCell
    <2>2. destruct(r) = [alive |-> r.alive, has |-> FALSE, cell |-> Dead]
      BY <1>1, <2>1 DEF destruct, destroyed, Records
    <2>3. destruct(r) \in Sound /\ ~destruct(r).has /\ destruct(r).alive = r.alive
      BY <2>2, <1>1, DeadIsNoValue DEF Sound, Records, Truthful
    <2>4. reset(r) = destruct(r)
      BY <1>5 DEF reset
    <2>5. destructor(r) = [alive |-> FALSE, has |-> FALSE, cell |-> Dead]
      BY <1>5, <2>1 DEF destructor, NotThere, destroyed
    <2>6. destructor(r) \in Sound
      BY <2>5, DeadIsNoValue DEF Sound, Records, Truthful
    <2>7. ASSUME NEW v \in Values PROVE [r EXCEPT !.cell = v] \in Sound
      <3>1. [r EXCEPT !.cell = v] = [alive |-> r.alive, has |-> r.has, cell |-> v]
        BY <1>1 DEF Records
      <3>2. r.alive
        BY <1>5, SoundCell
      <3> QED BY <1>5, <3>1, <3>2 DEF Sound, Records, Truthful
    <2> QED BY <1>2, <1>3, <1>5, <2>3, <2>4, <2>6, <2>7
  <1>6. CASE ~r.has
    <2>1. r.cell = Dead
      BY <1>6, SoundCell
    <2>2. reset(r) = r
      BY <1>6 DEF reset
    <2>3. destructor(r) = [alive |-> FALSE, has |-> FALSE, cell |-> Dead]
      BY <1>6, <2>1 DEF destructor, NotThere
    <2>4. destructor(r) \in Sound
      BY <2>3, DeadIsNoValue DEF Sound, Records, Truthful
    <2> QED BY <1>2, <1>3, <1>4, <1>6, <2>2, <2>4
  <1> QED BY <1>5, <1>6

\* Copies of a sound holder are sound and hold what it holds.
LEMMA CopySound ==
    ASSUME NEW r \in Sound, r.alive
    PROVE  /\ copy_holder(r) \in Sound /\ move_holder(r) \in Sound
           /\ Val(copy_holder(r)) = Val(r) /\ Val(move_holder(r)) = Val(r)
           /\ copy_holder(r).has = r.has /\ move_holder(r).has = r.has
           /\ copy_holder(r).alive /\ move_holder(r).alive
  <1>1. CASE r.has
    <2>1. r.cell \in Values
      BY <1>1, SoundCell
    <2>2. copy_holder(r) = in_place(r.cell) /\ move_holder(r) = in_place(r.cell)
      BY <1>1 DEF copy_holder, move_holder, construct, in_place
    <2> QED BY <1>1, <2>1, <2>2, HolderSound DEF in_place, Val
  <1>2. CASE ~r.has
    <2>1. r.has = FALSE
      BY <1>2, SoundCell
    <2>2. copy_holder(r) = Empty /\ move_holder(r) = Empty
      BY <2>1 DEF copy_holder, move_holder, Empty
    <2>3. Empty \in Sound
      BY HolderSound
    <2>4. Val(Empty) = Val(r) /\ Empty.has = r.has /\ Empty.alive
      BY <2>1 DEF Empty, Val
    <2> QED BY <2>2, <2>3, <2>4
  <1> QED BY <1>1, <1>2

\* Moving from the T of an engaged optional leaves it engaged and sound.
LEMMA MovedFromSound ==
    ASSUME NEW r \in Sound, r.has, NEW q \in MovedFrom(r)
    PROVE  q \in Sound /\ q.has /\ q.has = r.has /\ q.alive = r.alive
  <1>1. r.cell \in Values /\ Moved \in Values /\ r \in Records
    BY SoundCell, ValuesAssumption DEF Sound
  <1>2. [r EXCEPT !.cell = Moved] \in Sound
    BY <1>1, HolderSound
  <1> QED BY <1>1, <1>2 DEF MovedFrom, Records

\* The source of a move, engaged or not, stays as engaged as it was.
LEMMA SourceSound ==
    ASSUME NEW r \in Sound, NEW q \in IF r.has THEN MovedFrom(r) ELSE {r}
    PROVE  q \in Sound /\ q.has = r.has /\ q.alive = r.alive
  <1>1. CASE r.has
    BY <1>1, MovedFromSound
  <1>2. CASE ~r.has
    BY <1>2
  <1> QED BY <1>1, <1>2

-----------------------------------------------------------------------------
\* One lemma for each operation: it keeps the invariant and the contract.
LEMMA DefaultKeeps ==
    ASSUME IInv, NEW o \in Objects, Default(o)
    PROVE  IInv' /\ ContractStep
  <1>1. Empty \in Sound
    BY HolderSound DEF IInv
  <1>2. Moved \in Values
    BY ValuesAssumption
  <1>3. obj' = [obj EXCEPT ![o] = Empty] /\ obj \in [Objects -> Sound]
        /\ last' = [op |-> "default", this |-> o, other |-> o, arg |-> Moved, threw |-> FALSE]
    BY DEF Default, Ends, IInv
  <1>4. IInv'
    BY <1>1, <1>2, <1>3 DEF IInv, LastOK, Calls
  <1>5. ContractStep
    BY <1>1, <1>3 DEF ContractStep, Achieved, Val, Empty
  <1> QED BY <1>4, <1>5

LEMMA FromValueKeeps ==
    ASSUME IInv, NEW o \in Objects, NEW v \in Values, FromValue(o, v)
    PROVE  IInv' /\ ContractStep
  <1>1. in_place(v) \in Sound
    BY HolderSound DEF IInv
  <1>2. obj \in [Objects -> Sound]
    BY DEF IInv
  <1>3. CASE obj' = [obj EXCEPT ![o] = in_place(v)] /\ Ends("construct", o, o, v, FALSE)
    <2>1. IInv'
      BY <1>1, <1>2, <1>3 DEF IInv, LastOK, Calls, Ends
    <2>2. ContractStep
      BY <1>2, <1>3 DEF ContractStep, Achieved, Val, in_place, Ends
    <2> QED BY <2>1, <2>2
  <1>4. CASE UNCHANGED obj /\ Ends("construct", o, o, v, TRUE)
    <2>1. IInv'
      BY <1>2, <1>4 DEF IInv, LastOK, Calls, Ends
    <2>2. ContractStep
      BY <1>4 DEF ContractStep, SameEngagement, Ends
    <2> QED BY <2>1, <2>2
  <1> QED BY <1>3, <1>4 DEF FromValue

LEMMA CopyConstructKeeps ==
    ASSUME IInv, NEW o \in Objects, NEW p \in Objects, CopyConstruct(o, p)
    PROVE  IInv' /\ ContractStep
  <1>1. /\ obj \in [Objects -> Sound] /\ Moved \in Values
        /\ ~obj[o].alive /\ obj[p].alive /\ o # p
    BY ValuesAssumption DEF IInv, CopyConstruct, Alive
  <1>2. copy_holder(obj[p]) \in Sound /\ Val(copy_holder(obj[p])) = Val(obj[p])
    BY <1>1, CopySound
  <1>3. CASE obj' = [obj EXCEPT ![o] = copy_holder(obj[p])] /\ Ends("copy", o, p, Moved, FALSE)
    <2>1. IInv'
      BY <1>1, <1>2, <1>3 DEF IInv, LastOK, Calls, Ends
    <2>2. ContractStep
      BY <1>1, <1>2, <1>3 DEF ContractStep, Achieved, Ends
    <2> QED BY <2>1, <2>2
  <1>4. CASE UNCHANGED obj /\ Ends("copy", o, p, Moved, TRUE)
    <2>1. IInv'
      BY <1>1, <1>4 DEF IInv, LastOK, Calls, Ends
    <2>2. ContractStep
      BY <1>4 DEF ContractStep, SameEngagement, Ends
    <2> QED BY <2>1, <2>2
  <1> QED BY <1>3, <1>4 DEF CopyConstruct

LEMMA MoveConstructKeeps ==
    ASSUME IInv, NEW o \in Objects, NEW p \in Objects, MoveConstruct(o, p)
    PROVE  IInv' /\ ContractStep
  <1>1. /\ obj \in [Objects -> Sound] /\ Moved \in Values
        /\ ~obj[o].alive /\ obj[p].alive /\ o # p
    BY ValuesAssumption DEF IInv, MoveConstruct, Alive
  <1>2. move_holder(obj[p]) \in Sound /\ Val(move_holder(obj[p])) = Val(obj[p])
    BY <1>1, CopySound
  <1>3. ASSUME NEW q \in IF obj[p].has THEN MovedFrom(obj[p]) ELSE {obj[p]}
        PROVE  q \in Sound /\ q.has = obj[p].has /\ q.alive = obj[p].alive
    BY <1>1, SourceSound
  <1>4. CASE /\ \E q \in IF obj[p].has THEN MovedFrom(obj[p]) ELSE {obj[p]} :
                   obj' = [obj EXCEPT ![o] = move_holder(obj[p]), ![p] = q]
             /\ Ends("move", o, p, Moved, FALSE)
    <2>1. PICK q \in IF obj[p].has THEN MovedFrom(obj[p]) ELSE {obj[p]} :
                obj' = [obj EXCEPT ![o] = move_holder(obj[p]), ![p] = q]
      BY <1>4
    <2>2. q \in Sound /\ q.has = obj[p].has
      BY <1>3
    <2>3. IInv'
      BY <1>1, <1>2, <1>4, <2>1, <2>2 DEF IInv, LastOK, Calls, Ends
    <2>4. ContractStep
      BY <1>1, <1>2, <1>4, <2>1, <2>2 DEF ContractStep, Achieved, Ends
    <2> QED BY <2>3, <2>4
  <1>5. CASE /\ obj[p].has /\ \E q \in MovedFrom(obj[p]) : obj' = [obj EXCEPT ![p] = q]
             /\ Ends("move", o, p, Moved, TRUE)
    <2>1. PICK q \in MovedFrom(obj[p]) : obj' = [obj EXCEPT ![p] = q]
      BY <1>5
    <2>2. q \in Sound /\ q.has = obj[p].has /\ q.alive = obj[p].alive
      BY <1>3, <1>5
    <2>3. IInv'
      BY <1>1, <1>5, <2>1, <2>2 DEF IInv, LastOK, Calls, Ends
    <2>4. ContractStep
      BY <1>1, <1>5, <2>1, <2>2 DEF ContractStep, SameEngagement, Ends
    <2> QED BY <2>3, <2>4
  <1> QED BY <1>4, <1>5 DEF MoveConstruct

LEMMA DestroyKeeps ==
    ASSUME IInv, NEW o \in Objects, Destroy(o)
    PROVE  IInv' /\ ContractStep
  <1>1. obj \in [Objects -> Sound] /\ Moved \in Values
    BY ValuesAssumption DEF IInv
  <1>2. destructor(obj[o]) \in Sound /\ destructor(obj[o]).alive = FALSE
    BY <1>1, HolderSound DEF destructor
  <1>3. obj' = [obj EXCEPT ![o] = destructor(obj[o])] /\ Ends("destroy", o, o, Moved, FALSE)
    BY DEF Destroy
  <1>4. IInv'
    BY <1>1, <1>2, <1>3 DEF IInv, LastOK, Calls, Ends
  <1>5. ContractStep
    BY <1>1, <1>2, <1>3 DEF ContractStep, Achieved, Ends
  <1> QED BY <1>4, <1>5

LEMMA AssignNulloptKeeps ==
    ASSUME IInv, NEW o \in Objects, AssignNullopt(o)
    PROVE  IInv' /\ ContractStep
  <1>1. obj \in [Objects -> Sound] /\ Moved \in Values /\ obj[o].alive
    BY ValuesAssumption DEF IInv, AssignNullopt, Alive
  <1>2. reset(obj[o]) \in Sound /\ ~reset(obj[o]).has /\ reset(obj[o]).alive
    BY <1>1, HolderSound
  <1>3. obj' = [obj EXCEPT ![o] = reset(obj[o])] /\ Ends("nullopt", o, o, Moved, FALSE)
    BY DEF AssignNullopt
  <1>4. IInv'
    BY <1>1, <1>2, <1>3 DEF IInv, LastOK, Calls, Ends
  <1>5. ContractStep
    BY <1>1, <1>2, <1>3 DEF ContractStep, Achieved, Val, Ends
  <1> QED BY <1>4, <1>5

\* What an assignment may leave in an engaged optional, and in an empty one.
LEMMA AssignedSound ==
    ASSUME NEW r \in Sound, r.has, NEW v \in Values
    PROVE  /\ [r EXCEPT !.cell = v] \in Sound /\ [r EXCEPT !.cell = v].has = r.has
           /\ [r EXCEPT !.cell = v].alive = r.alive /\ [r EXCEPT !.cell = v].cell = v
  <1>1. r \in Records /\ [r EXCEPT !.cell = v] \in Sound
    BY HolderSound DEF Sound
  <1> QED BY <1>1 DEF Records

LEMMA ConstructedSound ==
    ASSUME NEW r \in Sound, r.alive, ~r.has, NEW v \in Values
    PROVE  /\ construct(r, v) \in Sound /\ construct(r, v).has = TRUE
           /\ construct(r, v).alive = r.alive /\ construct(r, v).cell = v
  <1>1. r.cell = Dead /\ construct(r, v) \in Sound
    BY SoundCell, HolderSound
  <1> QED BY <1>1 DEF construct

\* The contract of an assignment or a swap, from its two outcomes.
LEMMA ContractOf ==
    ASSUME NEW op \in Calls, op # "emplace", NEW o \in Objects, NEW p \in Objects,
           NEW threw \in BOOLEAN, Ends(op, o, p, Moved, threw),
           \A x \in Objects \ {o, p} : obj'[x] = obj[x],
           threw => SameEngagement(o) /\ SameEngagement(p),
           ~threw /\ op = "move=" /\ o # p => Val(obj'[o]) = Val(obj[p]),
           ~threw => Achieved(op, obj'[o], obj'[p], Moved, obj[o], obj[p])
    PROVE  ContractStep
  <1>1. /\ last'.op = op /\ last'.this = o /\ last'.other = p
        /\ last'.arg = Moved /\ last'.threw = threw
    BY DEF Ends
  <1> QED BY <1>1 DEF ContractStep

LEMMA AssignValueKeeps ==
    ASSUME IInv, NEW o \in Objects, NEW v \in Values, AssignValue(o, v)
    PROVE  IInv' /\ ContractStep
  <1>1. obj \in [Objects -> Sound] /\ obj[o].alive /\ MayThrow \in BOOLEAN /\ obj[o] \in Sound
    BY ValuesAssumption DEF IInv, AssignValue, Alive
  <1>2. PICK threw \in {FALSE, MayThrow} :
            /\ \E r \in IF obj[o].has THEN Assigned(obj[o], v, threw)
                        ELSE {IF threw THEN obj[o] ELSE construct(obj[o], v)} :
                 obj' = [obj EXCEPT ![o] = r]
            /\ Ends("value=", o, o, v, threw)
    BY DEF AssignValue
  <1>3. threw \in BOOLEAN
    BY <1>1, <1>2
  <1>4. PICK r \in IF obj[o].has THEN Assigned(obj[o], v, threw)
                   ELSE {IF threw THEN obj[o] ELSE construct(obj[o], v)} :
            obj' = [obj EXCEPT ![o] = r]
    BY <1>2
  <1>5. /\ r \in Sound /\ r.alive = obj[o].alive
        /\ threw => r.has = obj[o].has
        /\ ~threw => r.has /\ r.cell = v
    <2>1. CASE obj[o].has
      <3>1. PICK w \in Values : r = [obj[o] EXCEPT !.cell = w] /\ (~threw => w = v)
        BY <1>4, <2>1 DEF Assigned
      <3> QED BY <1>1, <2>1, <3>1, AssignedSound
    <2>2. CASE ~obj[o].has
      BY <1>1, <1>3, <1>4, <2>2, ConstructedSound
    <2> QED BY <2>1, <2>2
  <1>6. IInv'
    BY <1>1, <1>2, <1>3, <1>4, <1>5 DEF IInv, LastOK, Calls, Ends
  <1>7. ContractStep
    BY <1>1, <1>2, <1>3, <1>4, <1>5 DEF ContractStep, Achieved, SameEngagement, Val, Ends
  <1> QED BY <1>6, <1>7

LEMMA EmplaceKeeps ==
    ASSUME IInv, NEW o \in Objects, NEW v \in Values, Emplace(o, v)
    PROVE  IInv' /\ ContractStep
  <1>1. obj \in [Objects -> Sound] /\ obj[o].alive /\ MayThrow \in BOOLEAN /\ obj[o] \in Sound
    BY ValuesAssumption DEF IInv, Emplace, Alive
  <1>2. PICK threw \in {FALSE, MayThrow} :
            /\ obj' = [obj EXCEPT ![o] = IF threw THEN reset(obj[o])
                                         ELSE construct(reset(obj[o]), v)]
            /\ Ends("emplace", o, o, v, threw)
    BY DEF Emplace
  <1>3. threw \in BOOLEAN
    BY <1>1, <1>2
  <1>4. reset(obj[o]) \in Sound /\ ~reset(obj[o]).has /\ reset(obj[o]).alive
    BY <1>1, HolderSound
  <1>5. construct(reset(obj[o]), v) \in Sound /\ construct(reset(obj[o]), v).has = TRUE
        /\ construct(reset(obj[o]), v).cell = v
    BY <1>4, ConstructedSound
  <1>6. IInv'
    BY <1>1, <1>2, <1>3, <1>4, <1>5 DEF IInv, LastOK, Calls, Ends
  <1>7. ContractStep
    BY <1>1, <1>2, <1>3, <1>4, <1>5 DEF ContractStep, Achieved, Val, Ends
  <1> QED BY <1>6, <1>7

LEMMA CopyAssignKeeps ==
    ASSUME IInv, NEW o \in Objects, NEW p \in Objects, CopyAssign(o, p)
    PROVE  IInv' /\ ContractStep
  <1>1. /\ obj \in [Objects -> Sound] /\ Moved \in Values /\ MayThrow \in BOOLEAN
        /\ obj[o].alive /\ obj[p].alive /\ obj[o] \in Sound /\ obj[p] \in Sound
    BY ValuesAssumption DEF IInv, CopyAssign, Alive
  <1>2. PICK threw \in BOOLEAN :
            /\ threw => obj[p].has
            /\ \E r \in CASE obj[o].has /\ obj[p].has -> Assigned(obj[o], obj[p].cell, threw)
                          [] ~obj[o].has /\ obj[p].has ->
                                {IF threw THEN obj[o] ELSE construct(obj[o], obj[p].cell)}
                          [] OTHER -> {reset(obj[o])} :
                 obj' = [obj EXCEPT ![o] = r]
            /\ Ends("copy=", o, p, Moved, threw)
    BY <1>1 DEF CopyAssign
  <1>3. threw \in BOOLEAN /\ (threw => obj[p].has)
    BY <1>2
  <1>4. PICK r : /\ obj' = [obj EXCEPT ![o] = r]
                 /\ r \in CASE obj[o].has /\ obj[p].has -> Assigned(obj[o], obj[p].cell, threw)
                            [] ~obj[o].has /\ obj[p].has ->
                                  {IF threw THEN obj[o] ELSE construct(obj[o], obj[p].cell)}
                            [] OTHER -> {reset(obj[o])}
    BY <1>2
  <1>5. /\ r \in Sound /\ r.alive = obj[o].alive
        /\ threw => r.has = obj[o].has
        /\ ~threw => Val(r) = Val(obj[p])
    <2>1. CASE obj[o].has /\ obj[p].has
      <3>1. obj[p].cell \in Values
        BY <1>1, <2>1, SoundCell
      <3>2. PICK w \in Values : r = [obj[o] EXCEPT !.cell = w] /\ (~threw => w = obj[p].cell)
        BY <1>4, <2>1, <3>1 DEF Assigned
      <3>3. r \in Sound /\ r.alive = obj[o].alive /\ r.has = obj[o].has /\ r.cell = w
        BY <1>1, <2>1, <3>2, AssignedSound
      <3>4. ~threw => Val(r) = Val(obj[p])
        BY <2>1, <3>2, <3>3 DEF Val
      <3> QED BY <2>1, <3>3, <3>4
    <2>2. CASE ~obj[o].has /\ obj[p].has
      <3>1. obj[p].cell \in Values /\ r = IF threw THEN obj[o] ELSE construct(obj[o], obj[p].cell)
        BY <1>1, <1>4, <2>2, SoundCell
      <3> QED BY <1>1, <1>3, <2>2, <3>1, ConstructedSound DEF Val
    <2>3. CASE ~obj[p].has
      <3>1. r = reset(obj[o])
        BY <1>4, <2>3
      <3> QED BY <1>1, <1>3, <2>3, <3>1, HolderSound DEF Val
    <2> QED BY <2>1, <2>2, <2>3
  <1>6. IInv'
    BY <1>1, <1>2, <1>3, <1>4, <1>5 DEF IInv, LastOK, Calls, Ends
  <1>7. /\ obj'[o] = r /\ obj'[p] = IF o = p THEN r ELSE obj[p]
        /\ \A x \in Objects \ {o, p} : obj'[x] = obj[x]
    BY <1>1, <1>4
  <1>8. threw => SameEngagement(o) /\ SameEngagement(p)
    BY <1>1, <1>5, <1>7 DEF SameEngagement
  <1>9. ~threw => Achieved("copy=", obj'[o], obj'[p], Moved, obj[o], obj[p])
    BY <1>5, <1>7 DEF Achieved
  <1>10. ContractStep
    BY <1>2, <1>3, <1>7, <1>8, <1>9, ContractOf DEF Calls
  <1> QED BY <1>6, <1>10

LEMMA MoveAssignKeeps ==
    ASSUME IInv, NEW o \in Objects, NEW p \in Objects, MoveAssign(o, p)
    PROVE  IInv' /\ ContractStep
  <1>1. /\ obj \in [Objects -> Sound] /\ Moved \in Values /\ MayThrow \in BOOLEAN
        /\ obj[o].alive /\ obj[p].alive /\ obj[o] \in Sound /\ obj[p] \in Sound
    BY ValuesAssumption DEF IInv, MoveAssign, Alive
  <1>2. PICK threw \in BOOLEAN :
            /\ threw => obj[p].has
            /\ \E r \in CASE obj[o].has /\ obj[p].has ->
                                Assigned(obj[o], obj[p].cell, threw \/ o = p)
                          [] ~obj[o].has /\ obj[p].has ->
                                {IF threw THEN obj[o] ELSE construct(obj[o], obj[p].cell)}
                          [] OTHER -> {reset(obj[o])} :
               \E q \in IF obj[p].has THEN MovedFrom(obj[p]) ELSE {obj[p]} :
                 obj' = [obj EXCEPT ![p] = q, ![o] = r]
            /\ Ends("move=", o, p, Moved, threw)
    BY <1>1 DEF MoveAssign
  <1>3. PICK r, q : /\ obj' = [obj EXCEPT ![p] = q, ![o] = r]
                    /\ q \in IF obj[p].has THEN MovedFrom(obj[p]) ELSE {obj[p]}
                    /\ r \in CASE obj[o].has /\ obj[p].has ->
                                        Assigned(obj[o], obj[p].cell, threw \/ o = p)
                               [] ~obj[o].has /\ obj[p].has ->
                                     {IF threw THEN obj[o] ELSE construct(obj[o], obj[p].cell)}
                               [] OTHER -> {reset(obj[o])}
    BY <1>2
  <1>4. q \in Sound /\ q.has = obj[p].has /\ q.alive = obj[p].alive
    BY <1>1, <1>3, SourceSound
  <1>5. /\ r \in Sound /\ r.alive = obj[o].alive
        /\ threw => r.has = obj[o].has
        /\ ~threw => r.has = obj[p].has /\ (o # p => Val(r) = Val(obj[p]))
    <2>1. CASE obj[o].has /\ obj[p].has
      <3>1. obj[p].cell \in Values /\ obj[o].has = TRUE /\ obj[p].has = TRUE
        BY <1>1, <2>1, SoundCell
      <3>2. PICK w \in Values : /\ r = [obj[o] EXCEPT !.cell = w]
                                /\ ~threw /\ o # p => w = obj[p].cell
        BY <1>3, <2>1, <3>1 DEF Assigned
      <3>3. r \in Sound /\ r.alive = obj[o].alive /\ r.has = obj[o].has /\ r.cell = w
        BY <1>1, <2>1, <3>2, AssignedSound
      <3>4. ~threw /\ o # p => Val(r) = Val(obj[p])
        BY <3>1, <3>2, <3>3 DEF Val
      <3> QED BY <3>1, <3>3, <3>4
    <2>2. CASE ~obj[o].has /\ obj[p].has
      <3>1. /\ obj[p].cell \in Values /\ obj[p].has = TRUE
            /\ r = IF threw THEN obj[o] ELSE construct(obj[o], obj[p].cell)
        BY <1>1, <1>3, <2>2, SoundCell
      <3> QED BY <1>1, <2>2, <3>1, ConstructedSound DEF Val
    <2>3. CASE ~obj[p].has
      <3>1. r = reset(obj[o]) /\ obj[p].has = FALSE /\ ~threw
        BY <1>1, <1>2, <1>3, <2>3, SoundCell
      <3>2. r \in Sound /\ r.has = FALSE /\ r.alive = obj[o].alive
        BY <1>1, <3>1, HolderSound, SoundCell
      <3> QED BY <3>1, <3>2 DEF Val
    <2> QED BY <2>1, <2>2, <2>3
  <1>6. /\ obj'[o] = r /\ obj'[p] = IF o = p THEN r ELSE q
        /\ \A x \in Objects \ {o, p} : obj'[x] = obj[x]
        /\ obj' \in [Objects -> Sound]
    BY <1>1, <1>3, <1>4, <1>5
  <1>7. IInv'
    BY <1>1, <1>2, <1>6 DEF IInv, LastOK, Calls, Ends
  <1>8. threw => SameEngagement(o) /\ SameEngagement(p)
    BY <1>4, <1>5, <1>6 DEF SameEngagement
  <1>9. ~threw => /\ Achieved("move=", obj'[o], obj'[p], Moved, obj[o], obj[p])
                  /\ o # p => Val(obj'[o]) = Val(obj[p])
    BY <1>4, <1>5, <1>6 DEF Achieved
  <1>10. ContractStep
    BY <1>2, <1>6, <1>8, <1>9, ContractOf DEF Calls
  <1> QED BY <1>7, <1>10

LEMMA SwapKeeps ==
    ASSUME IInv, NEW o \in Objects, NEW p \in Objects, Swap(o, p)
    PROVE  IInv' /\ ContractStep
  <1> DEFINE a == obj[o]
             b == obj[p]
  <1>1. /\ obj \in [Objects -> Sound] /\ {Moved, FromOptional} \subseteq Values
        /\ MayThrow \in BOOLEAN /\ a.alive /\ b.alive /\ a \in Sound /\ b \in Sound
    BY ValuesAssumption DEF IInv, Swap
  <1>2. \* It is enough to say what becomes of the two.
        ASSUME NEW r \in Sound, NEW s \in Sound, NEW threw \in BOOLEAN, o = p => r = s,
               obj' = [obj EXCEPT ![o] = r, ![p] = s], Ends("swap", o, p, Moved, threw),
               threw => /\ r.has = a.has /\ r.alive = a.alive
                        /\ s.has = b.has /\ s.alive = b.alive,
               ~threw => /\ r.has = b.has /\ s.has = a.has
                         /\ b.has \/ ~a.has => Val(r) = Val(b) /\ Val(s) = Val(a)
        PROVE  IInv' /\ ContractStep
    <2>1. /\ obj'[o] = r /\ obj'[p] = s /\ obj' \in [Objects -> Sound]
          /\ \A x \in Objects \ {o, p} : obj'[x] = obj[x]
      BY <1>1, <1>2
    <2>2. IInv'
      BY <1>1, <1>2, <2>1 DEF IInv, LastOK, Calls, Ends
    <2>3. threw => SameEngagement(o) /\ SameEngagement(p)
      BY <1>2, <2>1 DEF SameEngagement
    <2>4. ~threw => Achieved("swap", obj'[o], obj'[p], Moved, obj[o], obj[p])
      BY <1>2, <2>1 DEF Achieved
    <2>5. ContractStep
      BY <1>1, <1>2, <2>1, <2>3, <2>4, ContractOf DEF Calls
    <2> QED BY <2>2, <2>5
  <1>3. CASE /\ a.has /\ b.has /\ Ends("swap", o, p, Moved, FALSE)
             /\ obj' = [obj EXCEPT ![o] = [@ EXCEPT !.cell = b.cell],
                                   ![p] = [@ EXCEPT !.cell = a.cell]]
    <2>1. a.cell \in Values /\ b.cell \in Values /\ a.has = TRUE /\ b.has = TRUE
      BY <1>1, <1>3, SoundCell
    <2> DEFINE r == [a EXCEPT !.cell = b.cell]
               s == [b EXCEPT !.cell = a.cell]
    <2>2. r \in Sound /\ r.has = a.has /\ r.alive = a.alive /\ r.cell = b.cell
      BY <1>1, <1>3, <2>1, AssignedSound
    <2>3. s \in Sound /\ s.has = b.has /\ s.alive = b.alive /\ s.cell = a.cell
      BY <1>1, <1>3, <2>1, AssignedSound
    <2>4. obj' = [obj EXCEPT ![o] = r, ![p] = s] /\ (o = p => r = s)
      BY <1>1, <1>3
    <2> HIDE DEF r, s
    <2>5. Val(r) = Val(b) /\ Val(s) = Val(a)
      BY <2>1, <2>2, <2>3 DEF Val
    <2> QED BY <1>2, <1>3, <2>1, <2>2, <2>3, <2>4, <2>5
  <1>4. CASE /\ a.has /\ b.has /\ Ends("swap", o, p, Moved, TRUE)
             /\ \E v, w \in Values : obj' = [obj EXCEPT ![o] = [@ EXCEPT !.cell = v],
                                                        ![p] = [@ EXCEPT !.cell = w]]
    <2>1. PICK v \in Values, w \in Values :
                obj' = [obj EXCEPT ![o] = [@ EXCEPT !.cell = v], ![p] = [@ EXCEPT !.cell = w]]
      BY <1>4
    <2> DEFINE s == [b EXCEPT !.cell = w]
               r == IF o = p THEN s ELSE [a EXCEPT !.cell = v]
    <2>2. s \in Sound /\ s.has = b.has /\ s.alive = b.alive
      BY <1>1, <1>4, AssignedSound
    <2>3. r \in Sound /\ r.has = a.has /\ r.alive = a.alive
      BY <1>1, <1>4, <2>2, AssignedSound
    <2>4. obj' = [obj EXCEPT ![o] = r, ![p] = s] /\ (o = p => r = s)
      BY <1>1, <2>1 DEF Sound, Records
    <2> HIDE DEF r, s
    <2> QED BY <1>2, <1>4, <2>2, <2>3, <2>4
  <1>5. CASE /\ a.has /\ ~b.has /\ Ends("swap", o, p, Moved, FALSE)
             /\ obj' = [obj EXCEPT ![p] = construct(b, FromOptional), ![o] = destruct(a)]
    <2> DEFINE r == destruct(a)
               s == construct(b, FromOptional)
    <2>1. o # p /\ a.has = TRUE /\ b.has = FALSE
      BY <1>1, <1>5, SoundCell
    <2>2. r \in Sound /\ r.has = FALSE
      BY <1>1, <1>5, HolderSound DEF destruct
    <2>3. s \in Sound /\ s.has = TRUE
      BY <1>1, <1>5, ConstructedSound
    <2>4. obj' = [obj EXCEPT ![o] = r, ![p] = s]
      BY <1>1, <1>5, <2>1
    <2> HIDE DEF r, s
    <2> QED BY <1>2, <1>5, <2>1, <2>2, <2>3, <2>4
  <1>6. CASE /\ ~a.has /\ b.has /\ Ends("swap", o, p, Moved, FALSE)
             /\ obj' = [obj EXCEPT ![o] = construct(a, b.cell), ![p] = destruct(b)]
    <2> DEFINE r == construct(a, b.cell)
               s == destruct(b)
    <2>1. o # p /\ a.has = FALSE /\ b.has = TRUE /\ b.cell \in Values
      BY <1>1, <1>6, SoundCell
    <2>2. r \in Sound /\ r.has = TRUE /\ r.cell = b.cell
      BY <1>1, <1>6, <2>1, ConstructedSound
    <2>3. s \in Sound /\ s.has = FALSE
      BY <1>1, <1>6, HolderSound DEF destruct
    <2>4. obj' = [obj EXCEPT ![o] = r, ![p] = s]
      BY <1>6
    <2> HIDE DEF r, s
    <2>5. Val(r) = Val(b) /\ Val(s) = Val(a)
      BY <2>1, <2>2, <2>3 DEF Val
    <2>6. o = p => r = s
      BY <2>1
    <2>7. r.has = b.has /\ s.has = a.has
      BY <2>1, <2>2, <2>3
    <2>8. Ends("swap", o, p, Moved, FALSE)
      BY <1>6
    <2> QED BY <1>2, <2>2, <2>3, <2>4, <2>5, <2>6, <2>7, <2>8
  <1>7. CASE /\ a.has # b.has /\ Ends("swap", o, p, Moved, TRUE)
             /\ \E x \in {o, p} : /\ obj[x].has
                                  /\ \E q \in MovedFrom(obj[x]) : obj' = [obj EXCEPT ![x] = q]
    <2>0. PICK x \in {o, p} : /\ obj[x].has
                              /\ \E q \in MovedFrom(obj[x]) : obj' = [obj EXCEPT ![x] = q]
      BY <1>7
    <2>1. PICK q \in MovedFrom(obj[x]) : obj' = [obj EXCEPT ![x] = q]
      BY <2>0
    <2>2. q \in Sound /\ q.has = obj[x].has /\ q.alive = obj[x].alive /\ o # p
      BY <1>1, <1>7, <2>0, <2>1, MovedFromSound
    <2> DEFINE r == IF x = o THEN q ELSE a
               s == IF x = p THEN q ELSE b
    <2>3. /\ r \in Sound /\ r.has = a.has /\ r.alive = a.alive
          /\ s \in Sound /\ s.has = b.has /\ s.alive = b.alive
      BY <1>1, <2>1, <2>2
    <2>4. obj' = [obj EXCEPT ![o] = r, ![p] = s]
      BY <1>1, <2>0, <2>1, <2>2
    <2> HIDE DEF r, s
    <2> QED BY <1>2, <1>7, <2>2, <2>3, <2>4
  <1>8. CASE ~a.has /\ ~b.has /\ UNCHANGED obj /\ Ends("swap", o, p, Moved, FALSE)
    <2>1. a.has = FALSE /\ b.has = FALSE
      BY <1>1, <1>8, SoundCell
    <2>2. obj' = [obj EXCEPT ![o] = a, ![p] = b] /\ (o = p => a = b)
      BY <1>1, <1>8
    <2>3. Val(a) = Val(b)
      BY <2>1 DEF Val
    <2> QED BY <1>1, <1>2, <1>8, <2>1, <2>2, <2>3
  <1> QED BY <1>3, <1>4, <1>5, <1>6, <1>7, <1>8 DEF Swap

-----------------------------------------------------------------------------
\* Every step keeps the invariant and the contract.
LEMMA StepKeeps ==
    ASSUME IInv, Next PROVE IInv' /\ ContractStep
  <1>1. PICK o \in Objects :
            \/ Default(o) \/ Destroy(o) \/ AssignNullopt(o)
            \/ \E v \in Values : FromValue(o, v) \/ AssignValue(o, v) \/ Emplace(o, v)
            \/ \E p \in Objects : \/ CopyConstruct(o, p) \/ MoveConstruct(o, p)
                                  \/ CopyAssign(o, p) \/ MoveAssign(o, p) \/ Swap(o, p)
    BY DEF Next
  <1>2. CASE Default(o) \/ Destroy(o) \/ AssignNullopt(o)
    BY <1>2, DefaultKeeps, DestroyKeeps, AssignNulloptKeeps
  <1>3. ASSUME NEW v \in Values, FromValue(o, v) \/ AssignValue(o, v) \/ Emplace(o, v)
        PROVE  IInv' /\ ContractStep
    BY <1>3, FromValueKeeps, AssignValueKeeps, EmplaceKeeps
  <1>4. ASSUME NEW p \in Objects, CopyConstruct(o, p) \/ MoveConstruct(o, p)
        PROVE  IInv' /\ ContractStep
    BY <1>4, CopyConstructKeeps, MoveConstructKeeps
  <1>5. ASSUME NEW p \in Objects, CopyAssign(o, p) \/ MoveAssign(o, p) \/ Swap(o, p)
        PROVE  IInv' /\ ContractStep
    BY <1>5, CopyAssignKeeps, MoveAssignKeeps, SwapKeeps
  <1> QED BY <1>1, <1>2, <1>3, <1>4, <1>5

LEMMA InitSound ==
    ASSUME Init PROVE IInv
  <1>1. NotThere \in Sound /\ Moved \in Values
    BY DeadIsNoValue, ValuesAssumption DEF NotThere, Sound, Records, Truthful
  <1> QED BY <1>1 DEF Init, IInv, LastOK, Calls

\* An invariant of every run: whatever the constructors and assignments of T
\* throw, each optional's flag agrees with its union.
THEOREM SoundAlways == Spec => []IInv
  <1>1. Init => IInv
    BY InitSound
  <1>2. IInv /\ [Next]_vars => IInv'
    <2>1. ASSUME IInv, UNCHANGED vars PROVE IInv'
      BY <2>1 DEF IInv, LastOK, vars
    <2> QED BY <2>1, StepKeeps
  <1> QED BY <1>1, <1>2, PTL DEF Spec

\* has_value is set exactly while a T lives in the union, so no T is destroyed
\* twice, leaked or read when it is not there.
THEOREM FlagTruth == Spec => [](TypeOK /\ FlagMatchesCell)
  <1>1. IInv => TypeOK /\ FlagMatchesCell
    <2> SUFFICES ASSUME IInv PROVE TypeOK /\ FlagMatchesCell
      OBVIOUS
    <2>1. Sound \subseteq Records
      BY DEF Sound
    <2>2. TypeOK
      BY <2>1 DEF IInv, LastOK, TypeOK, Records
    <2>3. FlagMatchesCell
      BY DEF IInv, FlagMatchesCell, Sound, Truthful
    <2> QED BY <2>2, <2>3
  <1> QED BY <1>1, SoundAlways, PTL

\* Every operation keeps the contract of the Library TS, for any T.
THEOREM ContractKept == Spec => Contract
  <1>1. IInv /\ [Next]_vars => [ContractStep]_vars
    BY StepKeeps
  <1> QED BY <1>1, SoundAlways, PTL DEF Spec, Contract

\* The comparison of two sound optionals is the one order: values are integers.
LEMMA OptionalOrder ==
    ASSUME NEW a \in Sound, NEW b \in Sound
    PROVE  vsOptional(a, b) = Order(a, b)
  <1>1. /\ a.has \in BOOLEAN /\ (a.has => a.cell \in Int /\ a.cell # None)
        /\ b.has \in BOOLEAN /\ (b.has => b.cell \in Int /\ b.cell # None)
    BY SoundCell, ValuesAssumption DEF None
  <1> QED BY <1>1 DEF vsOptional, Order, Val

\* So are the comparisons with nullopt and with a value.
LEMMA NulloptOrder ==
    ASSUME NEW a \in Sound
    PROVE  vsNullopt(a) = BothOrders(a, Empty)
  <1>1. a.has \in BOOLEAN /\ (a.has => a.cell \in Int /\ a.cell # None)
    BY SoundCell, ValuesAssumption DEF None
  <1> QED BY <1>1 DEF vsNullopt, BothOrders, Order, Val, Empty

LEMMA ValueOrder ==
    ASSUME NEW a \in Sound, NEW v \in Values
    PROVE  vsValue(a, v) = BothOrders(a, in_place(v))
  <1>1. /\ a.has \in BOOLEAN /\ (a.has => a.cell \in Int /\ a.cell # None)
        /\ v \in Int /\ v # None
    BY SoundCell, ValuesAssumption DEF None
  <1> QED BY <1>1 DEF vsValue, BothOrders, Order, Val, in_place

\* Every comparison operator answers from the one order of optionals.
THEOREM ComparisonsAgree == Spec => []CompareAgrees
  <1>1. IInv => CompareAgrees
    BY OptionalOrder, NulloptOrder, ValueOrder DEF IInv, CompareAgrees
  <1> QED BY <1>1, SoundAlways, PTL

=============================================================================
