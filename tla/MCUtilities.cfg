SPECIFICATION MCSpec
CONSTANTS
    Objects = {a, b, c}
    Values = {0, 1, 2}
    Moved = 0
    FromOptional = 1
    MayThrow = TRUE
    N = 5
    Accept = {1, 3}
    Iterators = {i, j}
    Kinds = {"map", "skip", "ephemeral", "filter", "plain"}
INVARIANTS
    FlagMatchesCell CompareAgrees RestIsGiven InOrderOnce
    Delivered
PROPERTY Contract
CHECK_DEADLOCK FALSE
