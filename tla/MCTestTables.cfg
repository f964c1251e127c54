CONSTANT Problems <- MCProblems
\* The floating-point and integer test binaries.
CONSTANT Builds = {"fp32", "fp16", "u8s8s32"}
SPECIFICATION TablesSpec
\* Both walks end: the offsets after the last element of dst, the table
\* after the last row of the last suite.
CHECK_DEADLOCK FALSE
INVARIANT OffsetsMatchLayout
INVARIANT InverseRoundTrip
INVARIANT TableMatchesContract
