---------------------------- MODULE IndexedStore ----------------------------
(***************************************************************************)
(* What an indexed file promises its users, without bytes: a map that is     *)
(* either there as a whole or not there at all.  A session edits a draft;    *)
(* the only map that ever becomes visible is the complete draft of the       *)
(* session, in one step.  A session may spoil the file, from its first       *)
(* change until its end, but never shows part of itself.                     *)
(***************************************************************************)
CONSTANTS Keys, Values, NoValue,
          Broken,     \* the file does not open
          NoSession   \* nobody has it open for output

VARIABLES store,      \* the map one finds when opening the file, or Broken
          draft       \* the map of the session that is under way

Maps == [Keys -> Values \cup {NoValue}]

TypeOK == store \in Maps \cup {Broken} /\ draft \in Maps \cup {NoSession}

Init == store = Broken /\ draft = NoSession

\* A session on the contents that are there.
Begin ==
    /\ draft = NoSession
    /\ store # Broken
    /\ draft' = store
    /\ UNCHANGED store

\* A session on a new or overwritten file.
Create ==
    /\ draft = NoSession
    /\ draft' = [k \in Keys |-> NoValue]
    /\ store' = Broken

Put(k, v) ==
    /\ draft # NoSession
    /\ draft' = [draft EXCEPT ![k] = v]
    /\ store' \in {store, Broken}

Spoil ==
    /\ draft # NoSession
    /\ store' = Broken
    /\ UNCHANGED draft

Commit ==
    /\ draft # NoSession
    /\ store' = draft
    /\ UNCHANGED draft

\* The session ends, well or badly.
End ==
    /\ draft # NoSession
    /\ draft' = NoSession
    /\ store' \in {store, Broken, draft}

Next ==
    \/ Begin
    \/ Create
    \/ \E k \in Keys, v \in Values : Put(k, v)
    \/ Spoil
    \/ Commit
    \/ End

Spec == Init /\ [][Next]_<<store, draft>>
==============================================================================
