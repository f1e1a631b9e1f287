SPECIFICATION FairSpec
CONSTANTS
    Keys = {k1, k2}
    Values = {v1, v2}
    NoValue = NoValue
    Realms = {r1}
    KeyIds = {7}
    Readers = {}
    Broken = Broken
    NoSession = NoSession
    HeaderSize = 1
    MarkerSize = 2
    DataSizes = {2}
    IndexSizes = {1}
    MaxLen = 11
PROPERTIES Publication ImplementsStore
