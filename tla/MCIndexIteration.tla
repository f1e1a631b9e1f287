--------------------------- MODULE MCIndexIteration ---------------------------
\* IndexIteration with interchangeable handles and iterators.
EXTENDS IndexIteration, TLC

Interchangeable == Permutations(Handles) \cup Permutations(Iters)
=============================================================================
