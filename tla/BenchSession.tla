---------------------------- MODULE BenchSession ----------------------------
(***************************************************************************)
(* benchdnn's engine and stream globals (tests/benchdnn/dnnl_common.hpp):  *)
(* init() creates engine_ref/stream_ref on the CPU and, unless engine_tgt  *)
(* is already set, engine_tgt/stream_tgt of engine_tgt_kind; drivers run   *)
(* problems on them; finalize() destroys all four.  A failing call under   *)
(* DNN_SAFE(..., CRIT) exits the process.                                  *)
(***************************************************************************)
EXTENDS EngineRegistry

CONSTANTS
    TgtKinds,   \* the engine kinds --engine can select
    MaxInits    \* how many times the process calls init()

VARIABLES
    engine_tgt_kind,
    engine_ref, engine_tgt, stream_ref, stream_tgt,  \* cells, 0 is NULL
    phase,      \* "start", "ready" (after init), "idle" (after finalize), "exited"
    inits       \* init() calls so far

benchVars == <<engine_tgt_kind, engine_ref, engine_tgt, stream_ref, stream_tgt, phase, inits>>
sessionVars == <<regVars, benchVars>>

EngineRec(kind, backend, index) ==
    [st |-> "live", kind |-> kind, backend |-> backend, index |-> index]

\* dnnl_stream_destroy / dnnl_engine_destroy of a global: NULL is a no-op.
Deleted(objs, c) == IF c = 0 THEN objs ELSE [objs EXCEPT ![c].st = "deleted"]

SessionInit ==
    /\ RegInit
    /\ engine_tgt_kind \in TgtKinds
    /\ engine_ref = 0 /\ engine_tgt = 0 /\ stream_ref = 0 /\ stream_tgt = 0
    /\ phase = "start"
    /\ inits = 0

\* init(): engine_ref and stream_ref are always (re)created; the target pair
\* only while engine_tgt is NULL.  A target kind without an engine makes
\* dnnl_engine_create fail and the process exit.
BenchInit ==
    /\ phase \in {"start", "idle"}
    /\ inits < MaxInits
    /\ inits' = inits + 1
    /\ CreateWithBackendStatus("cpu", "native", 0) = "success"
    /\ LET er == NewCell(ECells, engines)
           eng1 == [engines EXCEPT ![er] = EngineRec("cpu", "native", 0)]
           sr == NewCell(SCells, streams)
           str1 == [streams EXCEPT ![sr] = [st |-> "live", eng |-> er]]
       IN
       /\ engine_ref' = er /\ stream_ref' = sr
       /\ IF engine_tgt # 0
          THEN /\ engines' = eng1 /\ streams' = str1
               /\ lastCall' = OtherCall
               /\ phase' = "ready"
               /\ UNCHANGED <<engine_tgt, stream_tgt>>
          ELSE IF CreateStatus(engine_tgt_kind, 0) = "success"
          THEN LET et == NewCell(ECells, eng1)
                   st == NewCell(SCells, str1)
               IN /\ engines' = [eng1 EXCEPT ![et] =
                                   EngineRec(engine_tgt_kind, DefaultBackend(engine_tgt_kind), 0)]
                  /\ streams' = [str1 EXCEPT ![st] = [st |-> "live", eng |-> et]]
                  /\ engine_tgt' = et /\ stream_tgt' = st
                  /\ lastCall' = OtherCall
                  /\ phase' = "ready"
          ELSE /\ engines' = eng1 /\ streams' = str1
               /\ lastCall' = Call("create", engine_tgt_kind, 0, "invalid_arguments")
               /\ phase' = "exited"
               /\ UNCHANGED <<engine_tgt, stream_tgt>>
    /\ UNCHANGED <<gpuCount, fault, engine_tgt_kind>>

\* Mutant: engine_ref is destroyed twice and engine_tgt never.
BenchFinalizeRefTwice ==
    /\ phase = "ready"
    /\ streams' = Deleted(Deleted(streams, stream_ref), stream_tgt)
    /\ engines' = Deleted(Deleted(engines, engine_ref), engine_ref)
    /\ fault' = Touch(Touch(Touch(Touch(fault,
                    streams, stream_ref, "stream_double_destroy"),
                    Deleted(streams, stream_ref), stream_tgt, "stream_double_destroy"),
                    engines, engine_ref, "engine_double_destroy"),
                    Deleted(engines, engine_ref), engine_ref, "engine_double_destroy")
    /\ lastCall' = OtherCall
    /\ phase' = "idle"
    /\ UNCHANGED <<gpuCount, engine_tgt_kind, engine_ref, engine_tgt, stream_ref, stream_tgt, inits>>

\* Mutant: stream_tgt is not destroyed.
BenchFinalizeKeepTgtStream ==
    /\ phase = "ready"
    /\ streams' = Deleted(streams, stream_ref)
    /\ engines' = Deleted(Deleted(engines, engine_ref), engine_tgt)
    /\ fault' = Touch(Touch(Touch(fault,
                    streams, stream_ref, "stream_double_destroy"),
                    engines, engine_ref, "engine_double_destroy"),
                    Deleted(engines, engine_ref), engine_tgt, "engine_double_destroy")
    /\ lastCall' = OtherCall
    /\ phase' = "idle"
    /\ UNCHANGED <<gpuCount, engine_tgt_kind, engine_ref, engine_tgt, stream_ref, stream_tgt, inits>>

\* finalize(): destroys stream_ref, stream_tgt, engine_ref, engine_tgt in
\* that order and leaves the four globals as they are.
BenchFinalize ==
    /\ phase = "ready"
    /\ streams' = Deleted(Deleted(streams, stream_ref), stream_tgt)
    /\ engines' = Deleted(Deleted(engines, engine_ref), engine_tgt)
    /\ fault' = Touch(Touch(Touch(Touch(fault,
                    streams, stream_ref, "stream_double_destroy"),
                    Deleted(streams, stream_ref), stream_tgt, "stream_double_destroy"),
                    engines, engine_ref, "engine_double_destroy"),
                    Deleted(engines, engine_ref), engine_tgt, "engine_double_destroy")
    /\ lastCall' = OtherCall
    /\ phase' = "idle"
    /\ UNCHANGED <<gpuCount, engine_tgt_kind, engine_ref, engine_tgt, stream_ref, stream_tgt, inits>>

-----------------------------------------------------------------------------
(* Properties *)

\* No driver problem runs on an engine or stream that was already
\* destroyed, and finalize() destroys none twice.
BenchNoFault == fault = "none"

\* After finalize() no engine or stream that init() created is left alive.
SessionReleases ==
    phase = "idle" =>
        /\ \A c \in ECells : ~Live(engines, c)
        /\ \A c \in SCells : ~Live(streams, c)
=============================================================================
