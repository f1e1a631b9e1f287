SPECIFICATION Spec
CONSTANTS
    Keys = {1, 2, 3}
    Values = {1, 2}
    Handles = {h1, h2}
    Iters = {i1, i2}
    MaxBlocks = 2
    Starts = {"begin", "rbegin", "lower_bound", "upper_bound", "find"}
SYMMETRY Interchangeable
INVARIANTS TypeOK Complete ReadsRight NothingLost
CHECK_DEADLOCK FALSE
