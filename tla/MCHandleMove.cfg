SPECIFICATION Spec
CONSTANTS
    Keys = {1}
    Values = {1, 2}
    Handles = {h1, h2}
    Iters = {i1}
    MaxBlocks = 1
    Starts = {"begin"}
SYMMETRY Interchangeable
INVARIANT WritesToItsFile
CHECK_DEADLOCK FALSE
