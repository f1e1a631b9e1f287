SPECIFICATION Spec
CONSTANTS
    Keys = {k1}
    Values = {v1, v2}
    NoValue = NoValue
    Realms = {r1, r2}
    KeyIds = {7, 8}
    Readers = {x}
    Broken = Broken
    NoSession = NoSession
    HeaderSize = 1
    MarkerSize = 2
    DataSizes = {2}
    IndexSizes = {1}
    MaxLen = 11
SYMMETRY Interchangeable
INVARIANTS TypeOK ReadYourWrites LazySnapshot OpenSound Durable ReaderSnapshot OneKeyType
PROPERTY AppendOnly
