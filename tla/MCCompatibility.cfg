SPECIFICATION Spec
CONSTANTS
    Radix = 8
    UIntLimit = 256
    Threshold = 1
    PackWidth = 2
    Families <- AllFamilies
    Types <- MCTypes
    Depth <- MCDepth
    Values <- MCValues
    Order <- MCOrder
INVARIANTS TypeOK SizeExact Compatible OptimisticAgrees PrefixFails
CHECK_DEADLOCK FALSE
