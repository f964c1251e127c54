CONSTANTS
    Isas = {"sse41", "avx2", "avx512_core"}
    SrcTypes = {"f32"}
    MaxDic = 18
SPECIFICATION Spec
\* The kernel returns after its last loop; nothing follows in the model.
CHECK_DEADLOCK FALSE
INVARIANTS
    InBounds
    ExactCover
