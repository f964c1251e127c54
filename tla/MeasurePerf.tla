---------------------------- MODULE MeasurePerf ----------------------------
(***************************************************************************)
(* measure_perf() of tests/benchdnn/dnnl_common.hpp: in performance mode  *)
(* the primitive is run with execute_and_wait on stream_tgt until either   *)
(* fix_times_per_prb runs were timed or, without a fixed count, at least   *)
(* max_ms_per_prb ms and min_times_per_prb runs.  Time is counted in whole *)
(* units; every run takes a duration from IterMs (at least one unit: the   *)
(* clock advances).  total_ms is only compared with max_ms_per_prb, so it  *)
(* is kept saturated at MaxMs.                                             *)
(***************************************************************************)
EXTENDS BenchSession

CONSTANTS
    FixTimesChoices,  \* fix_times_per_prb values (0: not fixed)
    MaxMs,            \* max_ms_per_prb
    MinTimes,         \* min_times_per_prb
    IterMs,           \* durations of one execute_and_wait
    ExecMayFail       \* whether execute_and_wait can return an error

VARIABLES
    perf_mode,        \* bench_mode & PERF
    fix_times,        \* fix_times_per_prb
    perf,             \* "idle" or "loop"
    times,            \* t.times()
    total_ms,         \* t.total_ms()
    perfRes           \* what the last measure_perf returned: "OK" or "FAIL"

perfVars == <<perf_mode, fix_times, perf, times, total_ms, perfRes>>

\* t.total_ms() after a run of d units, saturated at MaxMs.
Elapsed(ms, d) == IF ms + d >= MaxMs THEN MaxMs ELSE ms + d

PerfInit ==
    /\ perf_mode \in BOOLEAN
    /\ fix_times \in FixTimesChoices
    /\ perf = "idle" /\ times = 0 /\ total_ms = 0 /\ perfRes = "OK"

\* The loop's stop condition after t.stamp().
Stop(n, ms) ==
    \/ fix_times > 0 /\ n >= fix_times
    \/ fix_times = 0 /\ ms >= MaxMs /\ n >= MinTimes

\* Entry of measure_perf(): t.reset() and the loop in performance mode,
\* an immediate OK otherwise.
MeasureStart ==
    IF perf_mode
    THEN perf' = "loop" /\ times' = 0 /\ total_ms' = 0 /\ UNCHANGED perfRes
    ELSE perfRes' = "OK" /\ UNCHANGED <<perf, times, total_ms>>

PerfIter ==
    /\ perf = "loop"
    /\ fault' = Touch(Touch(fault, streams, stream_tgt, "stream_use_after_destroy"),
                      engines, engine_tgt, "engine_use_after_destroy")
    /\ \E ok \in IF ExecMayFail THEN BOOLEAN ELSE {TRUE}, d \in IterMs :
         IF ~ok
         THEN perf' = "idle" /\ perfRes' = "FAIL" /\ UNCHANGED <<times, total_ms>>
         ELSE /\ times' = times + 1
              /\ total_ms' = Elapsed(total_ms, d)
              /\ IF Stop(times + 1, Elapsed(total_ms, d))
                 THEN perf' = "idle" /\ perfRes' = "OK"
                 ELSE UNCHANGED <<perf, perfRes>>
    /\ UNCHANGED <<perf_mode, fix_times, gpuCount, engines, streams, lastCall, benchVars>>

=============================================================================
