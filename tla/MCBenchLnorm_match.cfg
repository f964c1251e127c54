CONSTANTS
    GpuRuntime = FALSE
    GpuCounts = {0}
    Indices <- MCIndices
    Backends <- MCBackends
    MaxEngines = 4
    MaxStreams = 4
    TgtKinds <- MCTgtKinds
    MaxInits = 1
    FixTimesChoices = {0, 2}
    MaxMs = 3
    MinTimes = 2
    IterMs = {1, 2}
    ExecMayFail = TRUE
    NCombos = 3
    NoPattern = NoPattern
SPECIFICATION Spec
\* The benchmark process ends after finalize(), or exits when init() fails.
CHECK_DEADLOCK FALSE
INVARIANT
    AllMatchingRun
