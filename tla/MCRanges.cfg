SPECIFICATION Spec
CONSTANTS
    Types = {t1, t2}
    NoType = NoType
    Realms = {r1, r2}
    Iters = {i1, i2}
    Nobody = Nobody
    MaxItems = 5
SYMMETRY Interchangeable
INVARIANTS TypeOK NothingInvented OwnType EndMeansAll
