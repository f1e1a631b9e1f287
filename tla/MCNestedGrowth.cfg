SPECIFICATION Spec
CONSTANTS
    Radix = 8
    UIntLimit = 256
    Threshold = 1
    PackWidth = 2
    Families <- AllFamilies
    Types <- MCTypes
    Depth <- MCDepth
    Values <- MCValues
    Order <- MCOrder
INVARIANT CompatibleAlways
CHECK_DEADLOCK FALSE
