CONSTANTS
    Mb = 1
    Dic = 2
    T = 2
    GateVals <- MCGateVals
    BiasVals <- MCBiasVals
    Acts = {"relu", "tanh", "logistic"}
    Alphas <- MCAlphas
    TestModes = {FALSE}
    ScaleVals = {2}
    DiffVals = {1, 2}
    MaxBwdRuns = 1
SPECIFICATION Spec
INVARIANTS
    GradientAtPreActivation
