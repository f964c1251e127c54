---------------------------- MODULE MCBenchLnorm ----------------------------
(* A CPU-only build (the gpu engine kind has no factory), one CPU engine, *)
(* three problem combinations, and perf settings small enough that both   *)
(* stop rules of measure_perf are met after a few runs.                    *)
EXTENDS BenchLnorm

MCIndices == {0}
MCBackends == {"native"}
MCTgtKinds == {"cpu", "gpu"}
=============================================================================
