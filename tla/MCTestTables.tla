---------------------------- MODULE MCTestTables ----------------------------
(* The two test-side reference checks walked side by side: the benchdnn    *)
(* convolution offsets over the shapes of MCConvOffsets, and the rows of   *)
(* the GEMM gtest table over its builds.  The two walks share no state, so *)
(* every state of the run is a pair of states of the two.                  *)
EXTENDS MCConvOffsets

CONSTANTS Builds

VARIABLES build, suite, row, verdict

G == INSTANCE GemmTable

gemmVars == <<build, suite, row, verdict>>

TablesInit == Init /\ G!Init

TablesNext ==
    \/ Next /\ UNCHANGED gemmVars
    \/ G!Next /\ UNCHANGED vars

TablesSpec == TablesInit /\ [][TablesNext]_<<vars, gemmVars>>

\* Every row of the GEMM table gets the status it expects (GemmTable's
\* TableMatchesContract: the expect_to_fail rows break the documented
\* row-major contract and no other row does).
TableMatchesContract == G!TableMatchesContract
=============================================================================
