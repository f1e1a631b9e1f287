----------------------------- MODULE MCZipRanges -----------------------------
(* A small instance of ZipRanges for TLC. *)
EXTENDS ZipRanges

\* Equal and unequal lengths, an empty range, and map_indexed over 4 elements and none.
MCShapes == {<<3, 3>>, <<2, 4>>, <<4, 3, 5>>, <<0, 2>>, <<4, 15>>, <<0, 15>>}
==============================================================================
