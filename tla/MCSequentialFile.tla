--------------------------- MODULE MCSequentialFile ---------------------------
(* Small instances of SequentialFile for TLC. *)
EXTENDS SequentialFile, TLC

Interchangeable == Permutations(Types) \cup Permutations(Iters) \cup Permutations(Realms)
===============================================================================
