CONSTANTS
    GpuRuntime = TRUE
    GpuCounts = {0, 1}
    Indices <- MCIndices
    Backends <- MCBackends
    MaxEngines = 2
    MaxStreams = 1
    NoArgv = NoArgv
    Data = {0, 1}
    Sizes = {0, 2}
    Handles = {1}
    MaxMems = 1
    ClMayFail = TRUE
SPECIFICATION Spec
\* The example ends at exit() when an OpenCL call fails.
CHECK_DEADLOCK FALSE
INVARIANTS
    RegTypeOK
    CountAgreement
    CreateContract
    StartContract
