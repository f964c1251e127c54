--------------------------- MODULE EngineRegistry ---------------------------
(***************************************************************************)
(* The engine registry of src/common/engine.cpp and the streams created on *)
(* engines.  A factory exists for (cpu, native), and for (gpu, ocl) in a   *)
(* build with the OpenCL runtime; count/create without a backend use the   *)
(* kind's default backend.  The machine's OpenCL device count is chosen   *)
(* at the start and never changes.  Engine and stream objects live in bounded      *)
(* cells that are never reused, so every use of a destroyed object is      *)
(* seen.                                                                   *)
(***************************************************************************)
EXTENDS Naturals

CONSTANTS
    GpuRuntime,    \* DNNL_GPU_RUNTIME == DNNL_RUNTIME_OCL
    GpuCounts,     \* the device counts a machine may have
    Indices,       \* the index arguments a caller passes (size_t)
    Backends,      \* the backend_kind arguments a caller passes
    MaxEngines,    \* engine objects a behaviour may create
    MaxStreams     \* stream objects a behaviour may create

VARIABLES
    gpuCount,    \* devices the OpenCL factory reports on this machine
    engines,     \* cell -> [st, kind, backend, index]
    streams,     \* cell -> [st, eng]
    lastCall,    \* the last registry call: [op, kind, index, status]
    fault        \* "none" or the first misuse of a destroyed object

regVars == <<gpuCount, engines, streams, lastCall, fault>>

Kinds == {"any", "cpu", "gpu"}
ECells == 1..MaxEngines
SCells == 1..MaxStreams
Free == [st |-> "free"]

\* get_engine_factory(kind, backend_kind): which factories the build has.
HasFactory(kind, backend) ==
    \/ kind = "cpu" /\ backend = "native"
    \/ GpuRuntime /\ kind = "gpu" /\ backend = "ocl"

\* engine_factory_t::count(): one CPU engine; the OpenCL device count.
FactoryCount(kind) == IF kind = "cpu" THEN 1 ELSE gpuCount

\* get_default_backend(kind).
DefaultBackend(kind) == IF GpuRuntime /\ kind = "gpu" THEN "ocl" ELSE "native"

\* dnnl_engine_get_count(kind).
GetCount(kind) ==
    IF HasFactory(kind, DefaultBackend(kind)) THEN FactoryCount(kind) ELSE 0

\* Mutant: a missing factory is reported as unimplemented.
CreateWithBackendStatusUnimpl(kind, backend, index) ==
    IF ~HasFactory(kind, backend) THEN "unimplemented"
    ELSE IF index >= FactoryCount(kind) THEN "invalid_arguments" ELSE "success"

\* dnnl_engine_create_with_backend(): the status of the argument checks.
CreateWithBackendStatus(kind, backend, index) ==
    IF ~HasFactory(kind, backend) \/ index >= FactoryCount(kind)
    THEN "invalid_arguments" ELSE "success"

\* Mutant: create ignores the default backend of the kind.
CreateStatusNative(kind, index) == CreateWithBackendStatus(kind, "native", index)

\* dnnl_engine_create(): the same with the kind's default backend.
CreateStatus(kind, index) == CreateWithBackendStatus(kind, DefaultBackend(kind), index)

\* dnnl_engine_get_kind(engine, &kind) and dnnl_engine_get_backend_kind():
\* the kind and backend the engine was created with.
EngineGetKind(e) == engines[e].kind
EngineGetBackendKind(e) == engines[e].backend

\* The lowest cell never used yet.
NewCell(cells, objs) == CHOOSE c \in cells : objs[c] = Free /\ \A d \in cells : objs[d] = Free => c <= d
HasNewCell(cells, objs) == \E c \in cells : objs[c] = Free

Call(op, kind, index, status) == [op |-> op, kind |-> kind, index |-> index, status |-> status]
OtherCall == Call("other", "none", 0, "success")

Live(objs, c) == c # 0 /\ objs[c].st = "live"

\* A use of a handle: note the first use of a destroyed object.
Touch(f, objs, c, what) == IF f = "none" /\ c # 0 /\ objs[c].st = "deleted" THEN what ELSE f

-----------------------------------------------------------------------------
RegInit ==
    /\ gpuCount \in GpuCounts
    /\ engines = [c \in ECells |-> Free]
    /\ streams = [c \in SCells |-> Free]
    /\ lastCall = Call("none", "none", 0, "none")
    /\ fault = "none"

\* ef->engine_create(engine, index) after the checks passed.
EngineCreated(kind, backend, index) ==
    LET c == NewCell(ECells, engines) IN
    engines' = [engines EXCEPT ![c] = [st |-> "live", kind |-> kind,
                                       backend |-> backend, index |-> index]]

\* A create call that returned status st.
CreateCall(op, st, kind, backend, index) ==
    /\ lastCall' = Call(op, kind, index, st)
    /\ IF st = "success"
       THEN HasNewCell(ECells, engines) /\ EngineCreated(kind, backend, index)
       ELSE UNCHANGED engines
    /\ UNCHANGED <<gpuCount, streams, fault>>

\* Mutant: the factory is looked up for the default backend, whatever
\* backend was asked for.
EngineCreateWithBackendDefaultLookup(kind, backend, index) ==
    CreateCall("create_with_backend", CreateStatus(kind, index), kind, backend, index)

\* dnnl_engine_create_with_backend(engine, kind, backend_kind, index).
EngineCreateWithBackend(kind, backend, index) ==
    CreateCall("create_with_backend", CreateWithBackendStatus(kind, backend, index),
               kind, backend, index)

\* dnnl_engine_create(engine, kind, index).
EngineCreate(kind, index) ==
    CreateCall("create", CreateStatus(kind, index), kind, DefaultBackend(kind), index)

\* dnnl_engine_destroy(): deletes the engine whatever still refers to it
\* (the reference count is a TODO).
EngineDestroy(e) ==
    /\ engines[e].st # "free"
    /\ engines' = [engines EXCEPT ![e].st = "deleted"]
    /\ fault' = Touch(fault, engines, e, "engine_double_destroy")
    /\ lastCall' = OtherCall
    /\ UNCHANGED <<gpuCount, streams>>

\* dnnl_stream_create(stream, engine, flags): the stream keeps the engine.
StreamCreate(e) ==
    /\ engines[e].st # "free"
    /\ HasNewCell(SCells, streams)
    /\ LET s == NewCell(SCells, streams) IN
       streams' = [streams EXCEPT ![s] = [st |-> "live", eng |-> e]]
    /\ fault' = Touch(fault, engines, e, "engine_use_after_destroy")
    /\ lastCall' = OtherCall
    /\ UNCHANGED <<gpuCount, engines>>

\* execute_and_wait() on a stream: dnnl_primitive_execute then
\* dnnl_stream_wait, both through the stream's engine.
StreamUse(s) ==
    /\ streams[s].st # "free"
    /\ fault' = Touch(Touch(fault, streams, s, "stream_use_after_destroy"),
                      engines, streams[s].eng, "engine_use_after_destroy")
    /\ lastCall' = OtherCall
    /\ UNCHANGED <<gpuCount, engines, streams>>

\* dnnl_stream_destroy().
StreamDestroy(s) ==
    /\ streams[s].st # "free"
    /\ streams' = [streams EXCEPT ![s].st = "deleted"]
    /\ fault' = Touch(fault, streams, s, "stream_double_destroy")
    /\ lastCall' = OtherCall
    /\ UNCHANGED <<gpuCount, engines>>

\* A client of the C API that only passes handles it still owns.
ClientNext ==
    \/ \E k \in Kinds, i \in Indices : EngineCreate(k, i)
    \/ \E k \in Kinds, b \in Backends, i \in Indices : EngineCreateWithBackend(k, b, i)
    \/ \E e \in ECells : Live(engines, e) /\ EngineDestroy(e)
    \/ \E e \in ECells : Live(engines, e) /\ StreamCreate(e)
    \/ \E s \in SCells : Live(streams, s) /\ StreamUse(s)
    \/ \E s \in SCells : Live(streams, s) /\ StreamDestroy(s)

ClientSpec == RegInit /\ [][ClientNext]_regVars

-----------------------------------------------------------------------------
(* Properties *)

RegTypeOK ==
    /\ \A c \in ECells :
         engines[c] = Free \/ (engines[c].st \in {"live", "deleted"}
                               /\ engines[c].kind \in Kinds /\ engines[c].index \in Indices)
    /\ \A c \in SCells : streams[c] = Free \/ streams[c].eng \in ECells
    /\ lastCall.status \in {"none", "success", "invalid_arguments"}

\* dnnl_engine_get_count and dnnl_engine_create agree: a create(kind, i)
\* call succeeds exactly when i is below get_count(kind), for every kind,
\* although each looks up the factory of the kind's default backend itself.
CountAgreement ==
    lastCall.op = "create" =>
        (lastCall.status = "success" <=> lastCall.index < GetCount(lastCall.kind))

\* Every engine a caller obtained, through either create call, comes from a
\* factory the build registers and has an index below that factory's count:
\* out-of-range requests are invalid_arguments, never an engine.
CreateContract ==
    \A c \in ECells :
        engines[c] # Free =>
            /\ HasFactory(engines[c].kind, engines[c].backend)
            /\ engines[c].index < FactoryCount(engines[c].kind)

\* An engine is not deleted while a stream created on it is alive (what the
\* reference count of the TODO in dnnl_engine_destroy would ensure).
NoOrphanStream ==
    \A s \in SCells : Live(streams, s) => Live(engines, streams[s].eng)

=============================================================================
