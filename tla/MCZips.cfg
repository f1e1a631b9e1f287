SPECIFICATION Spec
CONSTANTS
    Shapes <- MCShapes
    Iters = {i, j}
    Half = 8
    Debug = TRUE
INVARIANTS TypeOK InStep ComparesAsIndex WrapsBack
