---------------------------- MODULE ExampleMemIO ----------------------------
(***************************************************************************)
(* parse_engine_kind, CHECK, read_from_dnnl_memory and                    *)
(* write_to_dnnl_memory of examples/example_utils.h, used by an example   *)
(* that parses its command line, creates its engine under CHECK, and then *)
(* calls the helpers as a client of the C API that also                   *)
(* creates and destroys engines and streams (EngineRegistry).  A memory   *)
(* object has an engine, a size in bytes (dnnl_memory_desc_get_size), a   *)
(* data handle that is set (DNNL_MEMORY_ALLOCATE) or NULL                 *)
(* (DNNL_MEMORY_NONE), and contents; a user buffer is the handle the      *)
(* example passes.  A byte is a member of Data.                           *)
(*                                                                         *)
(* intended is not in the code: it is what a memory should hold after the *)
(* calls so far, its initial contents until a write_to_dnnl_memory gives  *)
(* it the user's data.                                                     *)
(***************************************************************************)
EXTENDS EngineRegistry, Sequences

CONSTANTS
    NoArgv,      \* the command line before main runs
    Data,        \* byte values
    Sizes,       \* dnnl_memory_desc_get_size of the descriptors used
    Handles,     \* the user buffers
    MaxMems,     \* memory objects a behaviour may create
    ClMayFail    \* whether clEnqueueRead/WriteBuffer can fail

VARIABLES
    mems,        \* cell -> Free or [st, eng, bytes, ptr, buf]
    usr,         \* handle -> byte index -> byte
    intended,    \* cell -> the contents the memory should hold
    argv,        \* the command line after the program name, or NoArgv
    engine_kind, \* what parse_engine_kind returned, or "none"
    exitCode     \* "running", or the status the example passed to exit()

memVars == <<mems, usr, intended, argv, engine_kind, exitCode>>
vars == <<regVars, memVars>>

MCells == 1..MaxMems
MaxSize == CHOOSE n \in Sizes : \A k \in Sizes : k <= n
Bytes(n) == 0..n-1

\* The first n bytes of buffer b replaced by those of src.
CopyPrefix(b, src, n) == [i \in DOMAIN b |-> IF i < n THEN src[i] ELSE b[i]]

\* dnnl_memory_get_engine + dnnl_engine_get_kind on a memory.
EngKind(m) == EngineGetKind(mems[m].eng)

\* The stream and queue of the GPU path, and dnnl_engine_get_kind, use the
\* memory's engine.
TouchEngine(m) == Touch(fault, engines, mems[m].eng, "engine_use_after_destroy")

Init ==
    /\ RegInit
    /\ mems = [c \in MCells |-> Free]
    /\ usr \in [Handles -> [Bytes(MaxSize) -> Data]]
    /\ intended = [c \in MCells |-> <<>>]
    /\ argv = NoArgv
    /\ engine_kind = "none"
    /\ exitCode = "running"

\* The command lines an example may be run with (argv[1..argc-1]).
Argvs == {<<>>, <<"cpu">>, <<"gpu">>, <<"xpu">>, <<"cpu", "gpu">>}

\* Mutant: the GPU is returned without asking the registry for a device.
ParseEngineKindNoCount(args) ==
    CASE Len(args) = 0                                 -> "cpu"
      [] Len(args) = 1 /\ args[1] = "cpu"              -> "cpu"
      [] Len(args) = 1 /\ args[1] = "gpu"              -> "gpu"
      [] OTHER                                         -> "exit(1)"

\* parse_engine_kind(argc, argv): CPU with no argument, the named kind
\* with one, "exit(1)" for a GPU that dnnl_engine_get_count(dnnl_gpu)
\* does not report or for any other command line.
ParseEngineKind(args) ==
    CASE Len(args) = 0                                 -> "cpu"
      [] Len(args) = 1 /\ args[1] = "cpu"              -> "cpu"
      [] Len(args) = 1 /\ args[1] = "gpu" /\ GetCount("gpu") # 0 -> "gpu"
      [] OTHER                                         -> "exit(1)"

\* CHECK(f): print and exit(2) when f did not return dnnl_success.
Check(status) == IF status = "success" THEN "running" ELSE "exit(2)"

\* The example's main up to its engine: engine_kind = parse_engine_kind(
\* argc, argv), then CHECK(dnnl_engine_create(&engine, engine_kind, 0)).
ExampleStart(args) ==
    LET k == ParseEngineKind(args) IN
    /\ argv = NoArgv
    /\ argv' = args
    /\ IF k = "exit(1)"
       THEN /\ exitCode' = "exit(1)"
            /\ UNCHANGED <<regVars, engine_kind>>
       ELSE /\ engine_kind' = k
            /\ EngineCreate(k, 0)
            /\ exitCode' = Check(CreateStatus(k, 0))
    /\ UNCHANGED <<mems, usr, intended>>

\* dnnl_memory_create(&mem, md, engine, DNNL_MEMORY_ALLOCATE or
\* DNNL_MEMORY_NONE): allocated contents are whatever the allocator left.
MemCreate(e, n, alloc) ==
    /\ HasNewCell(MCells, mems)
    /\ \E b \in [Bytes(n) -> Data] :
         LET m == NewCell(MCells, mems) IN
         /\ mems' = [mems EXCEPT ![m] = [st |-> "live", eng |-> e, bytes |-> n,
                                         ptr |-> alloc, buf |-> b]]
         /\ intended' = [intended EXCEPT ![m] = b]
    /\ fault' = Touch(fault, engines, e, "engine_use_after_destroy")
    /\ UNCHANGED <<gpuCount, engines, streams, lastCall, usr, argv, engine_kind, exitCode>>

\* dnnl_memory_destroy().
MemDestroy(m) ==
    /\ mems' = [mems EXCEPT ![m].st = "deleted"]
    /\ UNCHANGED <<regVars, usr, intended, argv, engine_kind, exitCode>>

\* clEnqueueRead/WriteBuffer's result on m: a failure prints and exits.
\* A memory created with DNNL_MEMORY_NONE has no OpenCL buffer, and the
\* enqueue of a NULL cl_mem fails.
ClResults(m) == IF ~mems[m].ptr THEN {FALSE}
                ELSE IF ClMayFail THEN BOOLEAN ELSE {TRUE}

\* read_from_dnnl_memory(handle, mem): on the CPU the bytes are copied from
\* the data handle when it is not NULL; on the GPU a new stream's queue
\* reads the OpenCL buffer with a blocking clEnqueueReadBuffer.
ReadFromDnnlMemory(h, m) ==
    LET n == mems[m].bytes IN
    /\ fault' = TouchEngine(m)
    /\ IF EngKind(m) = "cpu"
       THEN /\ IF mems[m].ptr
               THEN usr' = [usr EXCEPT ![h] = CopyPrefix(usr[h], mems[m].buf, n)]
               ELSE UNCHANGED usr
            /\ UNCHANGED exitCode
       ELSE \E ok \in ClResults(m) :
              IF ok
              THEN usr' = [usr EXCEPT ![h] = CopyPrefix(usr[h], mems[m].buf, n)]
                   /\ UNCHANGED exitCode
              ELSE exitCode' = "exit(1)" /\ UNCHANGED usr
    /\ UNCHANGED <<gpuCount, engines, streams, lastCall, mems, intended, argv, engine_kind>>

\* The bytes of m from the user buffer h (what a write promises).
Written(m, h) == [i \in DOMAIN mems[m].buf |-> usr[h][i]]

\* write_to_dnnl_memory(handle, mem).  The CPU branch has the same loop as
\* the read: ((char *)handle)[i] = ((char *)ptr)[i].
WriteToDnnlMemory(h, m) ==
    LET n == mems[m].bytes IN
    /\ fault' = TouchEngine(m)
    /\ IF EngKind(m) = "cpu"
       THEN /\ IF mems[m].ptr
               THEN /\ usr' = [usr EXCEPT ![h] = CopyPrefix(usr[h], mems[m].buf, n)]
                    /\ intended' = [intended EXCEPT ![m] = Written(m, h)]
               ELSE UNCHANGED <<usr, intended>>
            /\ UNCHANGED <<mems, exitCode>>
       ELSE \E ok \in ClResults(m) :
              IF ok
              THEN /\ mems' = [mems EXCEPT ![m].buf = Written(m, h)]
                   /\ intended' = [intended EXCEPT ![m] = Written(m, h)]
                   /\ UNCHANGED <<usr, exitCode>>
              ELSE exitCode' = "exit(1)" /\ UNCHANGED <<usr, mems, intended>>
    /\ UNCHANGED <<gpuCount, engines, streams, lastCall, argv, engine_kind>>

\* The example program: C API calls on live objects, and the two helpers,
\* until it exits.
Next ==
    /\ exitCode = "running"
    /\ \/ \E args \in Argvs : ExampleStart(args)
       \/ argv # NoArgv /\ ClientNext /\ UNCHANGED memVars
       \/ \E e \in ECells, n \in Sizes, alloc \in BOOLEAN :
            argv # NoArgv /\ Live(engines, e) /\ MemCreate(e, n, alloc)
       \/ \E m \in MCells : Live(mems, m) /\ MemDestroy(m)
       \/ \E h \in Handles, m \in MCells : Live(mems, m) /\ ReadFromDnnlMemory(h, m)
       \/ \E h \in Handles, m \in MCells : Live(mems, m) /\ WriteToDnnlMemory(h, m)

Spec == Init /\ [][Next]_vars

-----------------------------------------------------------------------------
(* Properties *)

\* An example run with no argument or "cpu" gets a CPU engine; run with
\* "gpu" it gets a GPU engine exactly when the build has the OpenCL runtime
\* and the machine a device, and otherwise exits with 1 and a message; any
\* other command line exits with 1.  It never stops at exit(2) in the
\* CHECK of its dnnl_engine_create: parse_engine_kind asks
\* dnnl_engine_get_count, and create must agree with it through the
\* default backend of the kind.
StartContract ==
    argv # NoArgv =>
        /\ exitCode # "exit(2)"
        /\ argv \in {<<>>, <<"cpu">>} => engine_kind = "cpu"
        /\ argv = <<"gpu">> =>
             (engine_kind = "gpu" <=> GpuRuntime /\ gpuCount > 0)
        /\ argv \notin {<<>>, <<"cpu">>, <<"gpu">>} => exitCode = "exit(1)"
        /\ engine_kind # "none" =>
             \E c \in ECells : engines[c] # Free /\ engines[c].kind = engine_kind

\* Every memory holds what the calls so far promise: the data of the last
\* write_to_dnnl_memory into it, so a later read returns what was written.
HoldsLastWrite ==
    \A m \in MCells : Live(mems, m) => mems[m].buf = intended[m]
=============================================================================
