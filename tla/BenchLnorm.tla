----------------------------- MODULE BenchLnorm -----------------------------
(***************************************************************************)
(* A benchdnn run of the layer-norm driver (tests/benchdnn/lnorm/         *)
(* bench_lnorm.cpp): init(), then bench() reaches a problem-size argument  *)
(* and calls check_correctness(), which walks the combinations of the      *)
(* option lists in order, skips by the --match pattern, runs doit() (that  *)
(* executes on engine_tgt/stream_tgt and ends with measure_perf), and      *)
(* counts the test; then finalize().  Combinations are 1..NCombos in loop  *)
(* order; a pattern is the set of combinations whose string it matches.    *)
(***************************************************************************)
EXTENDS MeasurePerf, FiniteSets

CONSTANTS
    NCombos,     \* |dir| * |dt| * |data_tag| * |stat_tag| * |flags| * |inplace|
    NoPattern    \* pattern == NULL

VARIABLES
    drv,         \* "start", "loop" (in check_correctness), "perf" (in doit), "done"
    combo,       \* the combination the loop is at
    pattern,     \* NoPattern or the set of matching combinations
    ran,         \* combinations doit() was called for
    tests        \* benchdnn_stat.tests

lnormVars == <<drv, combo, pattern, ran, tests>>
vars == <<sessionVars, perfVars, lnormVars>>

Combos == 1..NCombos
Patterns == {NoPattern} \cup SUBSET Combos

\* match_regex(pstr, pattern) for combination c.
Matches(c) == IF pattern = NoPattern THEN TRUE ELSE c \in pattern

Init ==
    /\ SessionInit
    /\ PerfInit
    /\ drv = "start" /\ combo = 1 /\ pattern \in Patterns
    /\ ran = {} /\ tests = 0

\* bench() meets a problem-size argument: check_correctness().
CheckStart ==
    /\ phase = "ready" /\ drv = "start"
    /\ drv' = "loop" /\ combo' = 1
    /\ UNCHANGED <<pattern, ran, tests, sessionVars, perfVars>>

\* The end of one combination: parse_result, the perf report and
\* benchdnn_stat.tests++.
Counted ==
    /\ tests' = tests + 1
    /\ ran' = ran \cup {combo}
    /\ combo' = combo + 1

\* One turn of the loop for a combination that does not match the pattern:
\* `return` ends check_correctness.
VisitSkip ==
    /\ drv = "loop" /\ combo \in Combos
    /\ ~Matches(combo)
    /\ drv' = "done"
    /\ UNCHANGED <<combo, pattern, ran, tests, sessionVars, perfVars>>

\* One turn for a matching combination: doit() creates the pd and primitive
\* on engine_tgt and executes on stream_tgt; an unimplemented problem ends
\* there, otherwise measure_perf() follows.
VisitRun ==
    /\ drv = "loop" /\ combo \in Combos
    /\ Matches(combo)
    /\ fault' = Touch(Touch(fault, engines, engine_tgt, "engine_use_after_destroy"),
                      streams, stream_tgt, "stream_use_after_destroy")
    /\ \E created \in BOOLEAN :
         IF created
         THEN /\ MeasureStart
              /\ IF perf_mode
                 THEN drv' = "perf" /\ UNCHANGED <<combo, ran, tests>>
                 ELSE Counted /\ UNCHANGED drv
         ELSE Counted /\ UNCHANGED <<drv, perf, times, total_ms, perfRes>>
    /\ UNCHANGED <<pattern, perf_mode, fix_times, gpuCount, engines, streams,
                   lastCall, benchVars>>

\* measure_perf() has returned: the combination is counted.
PerfDone ==
    /\ drv = "perf" /\ perf = "idle"
    /\ Counted
    /\ drv' = "loop"
    /\ UNCHANGED <<pattern, sessionVars, perfVars>>

\* The loop is past the last combination.
LoopEnd ==
    /\ drv = "loop" /\ combo = NCombos + 1
    /\ drv' = "done"
    /\ UNCHANGED <<combo, pattern, ran, tests, sessionVars, perfVars>>

\* main: init(), the driver, finalize().
Next ==
    \/ BenchInit /\ drv' = "start" /\ UNCHANGED <<combo, pattern, ran, tests, perfVars>>
    \/ CheckStart
    \/ VisitSkip
    \/ VisitRun
    \/ PerfIter /\ UNCHANGED lnormVars
    \/ PerfDone
    \/ LoopEnd
    \/ drv = "done" /\ BenchFinalize /\ UNCHANGED <<lnormVars, perfVars>>

\* One process running one statement after another.
Spec == Init /\ [][Next]_vars /\ WF_vars(Next)

-----------------------------------------------------------------------------
(* Properties *)

AllMatchingRun ==
    drv = "done" => {c \in Combos : Matches(c)} \subseteq ran
=============================================================================
