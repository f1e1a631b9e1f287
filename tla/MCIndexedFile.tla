---------------------------- MODULE MCIndexedFile ----------------------------
(* Small instances of IndexedFile for TLC. *)
EXTENDS IndexedFile, TLC

Interchangeable == Permutations(Keys) \cup Permutations(Values)
==============================================================================
