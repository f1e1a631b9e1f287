SPECIFICATION Spec
CONSTANTS
    Keys = {k1}
    Values = {v1, v2}
    NoValue = NoValue
    Realms = {r1}
    KeyIds = {7}
    Readers = {}
    Broken = Broken
    NoSession = NoSession
    HeaderSize = 1
    MarkerSize = 2
    DataSizes = {1}
    IndexSizes = {1}
    MaxLen = 9
SYMMETRY Interchangeable
INVARIANT SequentialSameContents
