----------------------------- MODULE MCUtilities -----------------------------
(***************************************************************************)
(* The utilities, which share no state, side by side: a behaviour uses one *)
(* of them, part, from any of its initial states, and leaves the others as *)
(* they are before they are used.  Optional and RangeAdaptors are          *)
(* extended, OutputIterators is an instance.                               *)
(***************************************************************************)
EXTENDS Optional, RangeAdaptors

VARIABLES part, w0, w, mem, sent, idiom, rvalue
outputVars == <<w0, w, mem, sent, idiom, rvalue>>

\* Writers nested up to four deep, with each kind over each other kind.
W == INSTANCE OutputIterators WITH
    Writers <- {}, Values <- {}, Keep <- {}, Idioms <- {}, MaxWrites <- 0
Simple == {W!pointer("a"), W!inserter("a")}
Filters == {W!filtering_writer(x) : x \in Simple}
Transforms == {W!transformed_writer("f", x) : x \in Simple \cup Filters}
MCWriters ==
    Simple \cup Filters \cup Transforms \cup {W!filtering_writer(x) : x \in Transforms}
        \cup {W!multiplex_writer(<<x, W!pointer("b")>>) : x \in Simple \cup Filters \cup Transforms}
        \cup {W!filtering_writer(W!multiplex_writer(<<x, W!filtering_writer(W!inserter("b"))>>)) :
                x \in Simple}
        \cup {W!spread_writer(<<x, W!inserter("b")>>) : x \in Simple \cup Filters}
        \cup {W!transformed_writer("g", W!multiplex_writer(<<W!pointer("b"), x>>)) : x \in Transforms}

Output == INSTANCE OutputIterators WITH
    Writers <- MCWriters, Values <- {"x", "y"}, Keep <- {"x"},
    Idioms <- {"copy", "post"}, MaxWrites <- 4

-----------------------------------------------------------------------------
Unused ==
    /\ part # "output" => w0 = W!pointer("a") /\ idiom = "copy" /\ rvalue = FALSE
    /\ part # "optional" => last.this = CHOOSE o \in Objects : TRUE

MCInit ==
    /\ part \in {"optional", "adaptors", "output"}
    /\ Init /\ AdaptorsInit /\ Output!Init
    /\ Unused

MCNext ==
    \/ part = "optional" /\ Next
       /\ UNCHANGED <<part, adaptors, outputVars>>
    \/ part = "adaptors" /\ AdaptorsNext
       /\ UNCHANGED <<part, vars, outputVars>>
    \/ part = "output" /\ Output!Next
       /\ UNCHANGED <<part, vars, adaptors>>

MCSpec == MCInit /\ [][MCNext]_<<part, vars, adaptors, outputVars>>

-----------------------------------------------------------------------------
\* Every output of nested writers gets exactly the values they mean, without gaps.
Delivered == Output!Delivered
==============================================================================
