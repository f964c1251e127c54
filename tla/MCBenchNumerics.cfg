CONSTANT Inputs <- MCInputs
SPECIFICATION Spec
INVARIANT SaturatedFits
