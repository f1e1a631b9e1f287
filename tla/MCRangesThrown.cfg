SPECIFICATION Spec
CONSTANTS
    Types = {t1, t2}
    NoType = NoType
    Realms = {r1}
    Iters = {i1}
    Nobody = Nobody
    MaxItems = 4
SYMMETRY Interchangeable
INVARIANT OwnTypeAlways
