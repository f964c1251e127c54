--------------------------- MODULE MCRnnPostgemm ---------------------------
(* RnnPostgemm with one batch row of two channels over two time steps.    *)
(* The gate values reach every side of relu's threshold (negative, zero,  *)
(* positive) and, with a bias, values above one.                          *)
EXTENDS RnnPostgemm

MCGateVals == -1..1
MCBiasVals == 0..1
MCAlphas == {0, 2}
MCNegAlphas == {-1}
=============================================================================
