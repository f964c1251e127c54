------------------------------ MODULE GemmTable ------------------------------
(***************************************************************************)
(* The GEMM test table of tests/gtests/in/gemm_in.h run against the       *)
(* argument contract of dnnl_sgemm and dnnl_gemm_{u,s}8s8s32 in           *)
(* include/dnnl.h.  A row is (transa, transb, M, N, K, lda, ldb, ldc) and  *)
(* whether the test expects dnnl_invalid_arguments; alpha, beta, the      *)
(* offsets of the integer GEMM (test_igemm_params) and the packing        *)
(* (test_pack_params) do not enter the argument check and are left out,   *)
(* so each INST_TEST_CASE is the sequence of its distinct rows in table   *)
(* order.  The gtest runner executes the suites of one build one row at a  *)
(* time and compares the returned status with the row's expectation.      *)
(***************************************************************************)
EXTENDS Integers, Sequences

CONSTANTS
    Builds      \* the data types the test binary is compiled for

\* A row the test expects to succeed, and one it expects to fail with
\* dnnl_invalid_arguments (expect_to_fail = true).
P(ta, tb, m, n, k, lda, ldb, ldc) ==
    [ta |-> ta, tb |-> tb, m |-> m, n |-> n, k |-> k,
     lda |-> lda, ldb |-> ldb, ldc |-> ldc, fail |-> FALSE]
F(ta, tb, m, n, k, lda, ldb, ldc) ==
    [P(ta, tb, m, n, k, lda, ldb, ldc) EXCEPT !.fail = TRUE]

TestGEMM ==
    <<F("t","n",3,2,1,2,5,8), F("n","n",3,2,2,1,5,8), F("n","t",3,2,2,3,1,8),
      F("n","d",3,2,1,3,3,3), P("N","N",1,1,1,4,4,4), P("N","n",30,20,10,60,50,80),
      P("n","T",30,20,10,60,50,80), P("T","N",30,20,10,60,50,80),
      P("t","t",30,20,10,60,50,80), P("N","n",31,21,11,61,51,81),
      P("n","T",31,21,11,61,51,81), P("T","N",31,21,11,61,51,81),
      P("t","t",31,21,11,61,51,81), P("n","n",100,100,2,100,100,100),
      P("n","t",100,2,100,100,100,100), P("t","n",2,100,100,100,100,100),
      P("t","t",2,100,100,100,100,100), P("n","n",2,2,10000,10000,2,2),
      P("t","t",2,2,10000,2,10000,2), P("n","n",2000,2000,2000,2000,2000,2000),
      P("n","n",3000,3000,3000,3000,3000,3000),
      P("t","n",2000,2000,2000,2000,2000,2000),
      P("t","n",3000,3000,3000,3000,3000,3000),
      P("n","t",2000,2000,2000,2000,2000,2000),
      P("n","t",3000,3000,3000,3000,3000,3000),
      P("t","t",2000,2000,2000,2000,2000,2000),
      P("t","t",3000,3000,3000,3000,3000,3000)>>

TestGEMV ==
    <<P("n","n",2000,1,1000,1000,1,1), P("n","n",1,3000,2000,2000,3000,3000),
      P("t","n",2000,1,1000,2000,1,1), P("t","n",1,3000,2000,1,3000,3000),
      P("n","t",2000,1,1000,1000,1000,1), P("n","t",1,3000,2000,2000,2000,3000),
      P("t","t",2000,1,1000,2000,1000,1), P("t","t",1,3000,2000,1,2000,3000)>>

TestGEMM_packed ==
    <<F("t","n",3,2,1,2,5,8), F("n","n",3,2,2,1,5,8), F("n","t",3,2,2,3,1,8),
      F("n","d",3,2,1,3,3,3), P("N","n",31,21,11,61,51,81),
      P("n","T",31,21,11,61,51,81), P("T","N",31,21,11,61,51,81),
      P("t","t",31,21,11,61,51,81), P("n","n",100,100,2,100,100,100),
      P("n","t",100,2,100,100,100,100), P("n","n",2,2,10000,10000,2,2),
      P("n","n",100,1,100,100,100,100), P("n","n",1,100,100,100,100,100),
      P("n","n",3000,3000,3000,3000,3000,3000),
      P("t","n",3000,3000,3000,3000,3000,3000),
      P("n","t",3000,3000,3000,3000,3000,3000),
      P("t","t",3000,3000,3000,3000,3000,3000),
      P("n","n",200,20000,2000,2000,20000,20000),
      P("n","n",2000,2000,2000,2000,2000,2000),
      P("n","n",2000,5000,2000,2000,5000,5000),
      P("n","n",5000,100,2000,2000,100,100),
      P("t","n",2000,2000,2000,2000,2000,2000),
      P("t","n",2000,5000,2000,2000,5000,5000),
      P("t","n",5000,100,2000,5000,100,100),
      P("n","t",2000,2000,2000,2000,2000,2000),
      P("t","t",2000,2000,2000,2000,2000,2000),
      P("t","t",2000,5000,2000,2000,2000,5000),
      P("t","t",5000,100,2000,5000,2000,100), P("n","n",150,150,8000,8000,150,150),
      P("n","t",200,200,8000,8000,8000,200), P("t","n",200,300,8000,200,300,300)>>

TestGEMM_expected_failures ==
    <<F("t","n",3,2,1,2,5,8), F("n","n",3,2,2,1,5,8), F("n","t",3,2,2,3,1,8),
      F("n","d",3,2,1,3,3,3)>>

TestGEMM_general_cases_fix_offset ==
    <<P("N","n",30,20,10,60,50,80), P("n","T",30,20,10,60,50,80),
      P("T","N",30,20,10,60,50,80), P("t","t",30,20,10,60,50,80),
      P("n","n",100,100,2,100,100,100), P("n","t",100,2,100,100,100,100),
      P("t","n",2,100,100,100,100,100), P("t","t",2,100,100,100,100,100),
      P("n","n",2,2,10000,10000,2,2)>>

TestGEMM_general_cases_col_offset == TestGEMM_general_cases_fix_offset

TestGEMM_general_cases_row_offset == TestGEMM_general_cases_fix_offset

TestGEMM_fractional_scales_fix_offset ==
    <<P("n","T",30,20,10,60,50,80), P("n","T",30,20,10,120,120,120),
      P("T","N",30,20,10,60,50,80), P("t","t",30,20,10,60,50,80),
      P("n","n",100,100,2,100,100,100), P("n","t",100,2,100,100,100,100),
      P("t","n",2,100,100,100,100,100), P("t","t",2,100,100,100,100,100),
      P("n","n",2,2,10000,10000,2,2)>>

TestGEMM_fractional_scales_col_offset == TestGEMM_fractional_scales_fix_offset

TestGEMM_fractional_scales_row_offset == TestGEMM_fractional_scales_fix_offset

TestIGEMV == TestGEMV

TestIGEMV_kblocking ==
    <<P("t","n",20,1,7000,20,1,500), P("t","t",50,1,7000,50,7000,500),
      P("t","n",400,1,7000,400,1,500), P("t","t",500,1,7000,500,7000,500),
      P("t","n",500,1,7000,500,1,500), P("n","n",1,40,7000,7000,40,500),
      P("t","n",1,10,7000,7000,10,10), P("n","n",1,400,7000,7000,400,500),
      P("t","n",1,100,7000,7000,100,500), P("t","n",1,10,7000,7000,10,500),
      P("t","n",1,550,7000,7000,550,550)>>

TestIGEMM_packed ==
    <<P("N","n",30,20,10,60,50,80), P("n","T",30,20,10,60,50,80),
      P("T","N",30,20,10,60,50,80), P("t","t",30,20,10,60,50,80),
      P("n","n",100,100,2,100,100,100), P("n","t",100,2,100,100,100,100),
      P("t","n",2,100,100,100,100,100), P("t","t",2,100,100,100,100,100),
      P("n","n",2,2,10000,10000,2,2), P("n","t",100,1,100,100,100,100),
      P("t","n",1,100,100,100,100,100), P("t","t",1,100,100,100,100,100),
      P("N","n",200,1,200,200,200,200), P("t","N",200,1,200,200,200,200),
      P("T","N",1,200,200,1,200,200), P("n","T",1,200,200,200,200,200)>>

TestIGEMM_heavy ==
    <<P("n","n",3000,3000,3000,3000,3000,3000),
      P("t","n",3000,3000,3000,3000,3000,3000),
      P("n","t",3000,3000,3000,3000,3000,3000),
      P("t","t",3000,3000,3000,3000,3000,3000)>>

TestIGEMM_packed_heavy ==
    <<P("n","n",3000,3000,3000,3000,3000,3000),
      P("t","n",3000,3000,3000,3000,3000,3000),
      P("n","t",3000,3000,3000,3000,3000,3000),
      P("t","t",3000,3000,3000,3000,3000,3000),
      P("n","n",2000,5000,2000,2000,5000,5000),
      P("t","n",2000,5000,2000,2000,5000,5000),
      P("n","n",200,20000,2000,2000,20000,20000),
      P("n","n",5000,100,2000,2000,100,100), P("t","n",5000,100,2000,5000,100,100),
      P("n","n",150,150,8000,8000,150,150), P("n","t",200,200,8000,8000,8000,200),
      P("t","n",200,300,8000,200,300,300)>>

\* The suites the preprocessor keeps: the floating-point build
\* (FP16, FP32, BF16BF16F32; TestGEMM_packed for FP32 only), or the
\* integer one.
Suites(b) ==
    CASE b = "fp32" -> <<TestGEMM, TestGEMV, TestGEMM_packed>>
      [] b \in {"fp16", "bf16bf16f32"} -> <<TestGEMM, TestGEMV>>
      [] b \in {"u8s8s32", "s8s8s32"} ->
           <<TestGEMM_expected_failures,
             TestGEMM_general_cases_fix_offset, TestGEMM_general_cases_col_offset,
             TestGEMM_general_cases_row_offset,
             TestGEMM_fractional_scales_fix_offset,
             TestGEMM_fractional_scales_col_offset,
             TestGEMM_fractional_scales_row_offset,
             TestIGEMV, TestIGEMV_kblocking, TestIGEMM_packed, TestIGEMM_heavy,
             TestIGEMM_packed_heavy>>

NoTrans(t) == t \in {"n", "N"}

\* Mutant: the leading dimensions of column-major BLAS storage.
GemmStatusColMajor(r) ==
    IF ~({r.ta, r.tb} \subseteq {"n", "N", "t", "T"}) THEN "invalid_arguments"
    ELSE IF \/ r.lda < IF NoTrans(r.ta) THEN r.m ELSE r.k
            \/ r.ldb < IF NoTrans(r.tb) THEN r.k ELSE r.n
            \/ r.ldc < r.m
         THEN "invalid_arguments" ELSE "success"

\* The status the GEMM functions return for a row: transa and transb are
\* one of n, N, t, T, and with op(A) m by k, op(B) k by n and C m by n
\* stored in row-major order every leading dimension spans a stored row.
GemmStatus(r) ==
    IF ~({r.ta, r.tb} \subseteq {"n", "N", "t", "T"}) THEN "invalid_arguments"
    ELSE IF \/ r.lda < IF NoTrans(r.ta) THEN r.k ELSE r.m
            \/ r.ldb < IF NoTrans(r.tb) THEN r.n ELSE r.k
            \/ r.ldc < r.n
         THEN "invalid_arguments" ELSE "success"

VARIABLES
    build,      \* the binary being run
    suite,      \* index of the INST_TEST_CASE being run
    row,        \* index of the row in it
    verdict     \* outcome of the last row: "none", "passed" or "failed"

vars == <<build, suite, row, verdict>>

Init ==
    /\ build \in Builds
    /\ suite = 1 /\ row = 1
    /\ verdict = "none"

\* One parameterised test: the call, then EXPECT of the status the row
\* names (dnnl_invalid_arguments when expect_to_fail, success otherwise).
RunRow ==
    LET ss == Suites(build)
        r  == ss[suite][row]
        st == GemmStatus(r)
    IN  /\ suite <= Len(ss)
        /\ verdict' = IF st = (IF r.fail THEN "invalid_arguments" ELSE "success")
                      THEN "passed" ELSE "failed"
        /\ IF row < Len(ss[suite])
           THEN row' = row + 1 /\ UNCHANGED suite
           ELSE suite' = suite + 1 /\ row' = 1
        /\ UNCHANGED build

Next == RunRow

Spec == Init /\ [][Next]_vars

-----------------------------------------------------------------------------
(* Properties *)

\* Every row of the table gets the status it expects: the rows marked
\* expect_to_fail break the documented row-major contract (a transposition
\* character or a leading dimension) and no other row does, in every build.
TableMatchesContract == verdict # "failed"
=============================================================================
