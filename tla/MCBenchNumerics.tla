--------------------------- MODULE MCBenchNumerics ---------------------------
(* Float inputs around every limit of the three saturated types: the       *)
(* halves that round up or down to a limit, and the floats next to 2^31.   *)
EXTENDS BenchNumerics

MCInputs ==
    { Num(0, 0), Num(-3, -1), Num(5, -1), Num(-257, -1), Num(511, -1),
      Num(127, 0), Num(255, 0), Num(-1, 31), Num(-16777215, 7),
      Num(16777215, 7), Num(1, 31), Num(1, 40) }
=============================================================================
