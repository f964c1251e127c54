\* operator= applied to a live pd_t: does the lifecycle stay memory safe?
CONSTANTS
    N = 2
    jit = jit
    simple = simple
    Impls = {jit, simple}
    ImplOrder <- MCImplOrder
    Pds = {c1, c2}
    p1 = p1
    Prims <- MCPrims
    MaxCells = 8
    NoData = NoData
    WithAssign = TRUE
SYMMETRY MCSymmetry
SPECIFICATION Spec
INVARIANT NoMemoryFault
