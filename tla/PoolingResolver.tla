--------------------------- MODULE PoolingResolver ---------------------------
(***************************************************************************)
(* Resolution of pooling primitive descriptors over the jit pooling        *)
(* candidates of src/cpu/jit_uni_pooling.hpp.  The catalogue Cands lists   *)
(* jit_uni_pooling_fwd_t / _bwd_t instantiations per (ISA tier, dtype) in  *)
(* registration order.  Two iterators run one after the other, as a        *)
(* training loop uses them: "fwd" over a forward op desc, "bwd" over the   *)
(* backward op desc with the fetched forward pd as hint.  An iterator      *)
(* tries one candidate's pd_t::init() per step (the loop inside            *)
(* dnnl_primitive_desc_iterator_create / _next).  The 2D case is          *)
(* modelled (ndims() == 4, so the 16c/8c blocked tags).                    *)
(***************************************************************************)
EXTENDS Naturals, Sequences

CONSTANTS
    Cands,        \* sequence of [isa, dt, kind \in {"fwd","bwd"}]
    Problems,     \* the (fwd, bwd) op desc pairs a user can build
    AvailIsas,    \* the ISA sets the CPU capability detection can report
    KeepHint      \* TRUE: the user keeps the fwd pd alive while it is a hint

VARIABLES
    prob,      \* the op descs (fixed for a run)
    avail,     \* ISA tiers the running CPU supports
    it,        \* iterator per direction: [st, idx, start]
    status,    \* last status returned by create/next per direction
    pd,        \* the fetched (user-owned) pd per direction, or NoPd
    hint,      \* the fwd pd the bwd iterator was created with
    hintLive,  \* whether that fwd pd object still exists
    fault,     \* "none" or "stale_hint" (read of a destroyed hint)
    prim,      \* the primitive per direction: its own copy of the pd, or NoPd
    wsMem,     \* the user's workspace memory: [md, data], or NoMem
    wsRead     \* what the last backward execution read from it, or NoRead

execVars == <<prim, wsMem, wsRead>>
vars == <<prob, avail, it, status, pd, hint, hintLive, fault, prim, wsMem, wsRead>>

K == Len(Cands)
Dirs == {"fwd", "bwd"}
NoPd == [cand |-> 0]
NoIt == [st |-> "none", idx |-> 0, start |-> 0]
NoMem == [md |-> "none", data |-> "none"]
NoRead == [wrote |-> "none", reads |-> "none"]

\* desired_fmt_tag(): 16-channel blocking for the AVX-512 tiers, 8 otherwise.
DesiredFmtTag(isa) ==
    IF isa \in {"avx512_common", "avx512_core"} THEN "nChw16c" ELSE "nChw8c"

\* jit_uni_pooling_bwd_t::pd_t::desired_fmt_tag(), the same choice made
\* again for the backward pd.
BwdDesiredFmtTag(isa) ==
    IF isa \in {"avx512_common", "avx512_core"} THEN "nChw16c" ELSE "nChw8c"

\* set_default_params(): a dst (diff_src) left as `any` takes the layout of
\* src (diff_dst).
Resolved(f, from) == IF f = "any" THEN from ELSE f

\* jit_uni_pool_kernel<isa>::init_conf(): the kernel needs the ISA at runtime.
InitConf(c) == c.isa \in avail

\* Mutant: only checks that the hint has some workspace.
CompareWsPresent(h, ws) == h # NoPd /\ h.ws # "none"

\* compare_ws(hint): a hint exists and its workspace md equals ours.
CompareWs(h, ws) == h # NoPd /\ h.ws = ws

\* Mutant: the workspace is set up for inference instead of training.
FwdWsInference(c) ==
    IF prob.alg = "max" /\ prob.prop # "training"
    THEN Resolved(prob.dst, prob.src) ELSE "none"

\* jit_uni_pooling_fwd_t::pd_t::init().
FwdWs(c) ==
    IF prob.alg = "max" /\ prob.prop = "training"
    THEN Resolved(prob.dst, prob.src) ELSE "none"
FwdInit(c) ==
    /\ c.kind = "fwd"
    /\ ~prob.zero
    /\ prob.dt = c.dt
    /\ prob.attrDefault
    /\ prob.src = DesiredFmtTag(c.isa)
    /\ Resolved(prob.dst, prob.src) = DesiredFmtTag(c.isa)
    /\ InitConf(c)

\* jit_uni_pooling_bwd_t::pd_t::init(); the workspace is laid out as diff_dst.
BwdWs(c) == IF prob.alg = "max" THEN prob.diffDst ELSE "none"
BwdPrecheck(c) ==
    /\ c.kind = "bwd"
    /\ ~prob.zero
    /\ prob.dt = c.dt
    /\ prob.attrDefault
    /\ prob.diffDst = BwdDesiredFmtTag(c.isa)
    /\ Resolved(prob.diffSrc, prob.diffDst) = BwdDesiredFmtTag(c.isa)
BwdInit(c, h) ==
    /\ BwdPrecheck(c)
    /\ prob.alg = "max" => CompareWs(h, BwdWs(c))
    /\ InitConf(c)

PdInit(d, k, h) == IF d = "fwd" THEN FwdInit(Cands[k]) ELSE BwdInit(Cands[k], h)

\* The resolved pd a successful init() leaves behind (fetch() clones it).
PdOf(d, k) ==
    [cand |-> k,
     fmt  |-> IF d = "fwd" THEN Resolved(prob.dst, prob.src)
              ELSE Resolved(prob.diffSrc, prob.diffDst),
     ws   |-> IF d = "fwd" THEN FwdWs(Cands[k]) ELSE BwdWs(Cands[k]),
     hint |-> IF d = "bwd" THEN hint.cand ELSE 0]

\* The hint a direction's iterator passes to init(): bwd only.
HintOf(d) == IF d = "bwd" THEN hint ELSE NoPd

\* init() of candidate k reads the hint's workspace md (compare_ws) only for
\* max pooling; a destroyed hint makes the outcome undefined.
ReadsStaleHint(d, k) ==
    /\ d = "bwd" /\ ~hintLive /\ hint # NoPd /\ prob.alg = "max"
    /\ BwdPrecheck(Cands[k])

Outcomes(d, k) ==
    IF ReadsStaleHint(d, k) THEN BOOLEAN ELSE {PdInit(d, k, HintOf(d))}

\* The candidate loop runs inside one create/next call: the user's next call
\* starts only when no iterator is searching.
UserTurn == \A d \in Dirs : it[d].st # "search"

-----------------------------------------------------------------------------
Init ==
    /\ prob \in Problems
    /\ avail \in AvailIsas
    /\ it = [d \in Dirs |-> NoIt]
    /\ status = [d \in Dirs |-> "none"]
    /\ pd = [d \in Dirs |-> NoPd]
    /\ hint = NoPd
    /\ hintLive = FALSE
    /\ fault = "none"
    /\ prim = [d \in Dirs |-> NoPd]
    /\ wsMem = NoMem
    /\ wsRead = NoRead

\* dnnl_primitive_desc_iterator_create(op_desc, attr, engine, hint): the bwd
\* iterator is given the user's fetched fwd pd (NULL when there is none).
IterCreate(d) ==
    /\ UserTurn
    /\ it[d].st = "none"
    /\ it' = [it EXCEPT ![d] = [st |-> "search", idx |-> 0, start |-> 0]]
    /\ hint' = IF d = "bwd" THEN pd["fwd"] ELSE hint
    /\ hintLive' = IF d = "bwd" THEN pd["fwd"] # NoPd ELSE hintLive
    /\ UNCHANGED <<prob, avail, status, pd, fault, execVars>>

\* dnnl_primitive_desc_iterator_next(): resume after the current candidate.
IterNext(d) ==
    /\ UserTurn
    /\ it[d].st = "at"
    /\ it' = [it EXCEPT ![d] = [st |-> "search", idx |-> @.idx, start |-> @.idx]]
    /\ UNCHANGED <<prob, avail, status, pd, hint, hintLive, fault, execVars>>

\* Mutant: an ended iterator stays positioned past the last candidate.
TryEndPastLast(d) ==
    /\ it[d].st = "search"
    /\ LET k == it[d].idx + 1 IN
       IF k > K
       THEN /\ it' = [it EXCEPT ![d] = IF @.start = 0 THEN NoIt
                                        ELSE [st |-> "end", idx |-> k, start |-> 0]]
            /\ status' = [status EXCEPT ![d] = IF it[d].start = 0
                                  THEN "unimplemented" ELSE "iterator_ends"]
            /\ UNCHANGED fault
       ELSE \E ok \in Outcomes(d, k) :
            /\ it' = [it EXCEPT ![d] = [st |-> IF ok THEN "at" ELSE "search",
                                        idx |-> k, start |-> @.start]]
            /\ status' = IF ok THEN [status EXCEPT ![d] = "success"] ELSE status
            /\ fault' = IF ReadsStaleHint(d, k) THEN "stale_hint" ELSE fault
    /\ UNCHANGED <<prob, avail, pd, hint, hintLive, execVars>>

\* One turn of the iterator's loop: try the next candidate's init().
\* Past the last one, creation fails (unimplemented, no iterator is left)
\* and next() reports iterator_ends.
Try(d) ==
    /\ it[d].st = "search"
    /\ LET k == it[d].idx + 1 IN
       IF k > K
       THEN /\ it' = [it EXCEPT ![d] = IF @.start = 0 THEN NoIt
                                        ELSE [st |-> "end", idx |-> 0, start |-> 0]]
            /\ status' = [status EXCEPT ![d] = IF it[d].start = 0
                                  THEN "unimplemented" ELSE "iterator_ends"]
            /\ UNCHANGED fault
       ELSE \E ok \in Outcomes(d, k) :
            /\ it' = [it EXCEPT ![d] = [st |-> IF ok THEN "at" ELSE "search",
                                        idx |-> k, start |-> @.start]]
            /\ status' = IF ok THEN [status EXCEPT ![d] = "success"] ELSE status
            /\ fault' = IF ReadsStaleHint(d, k) THEN "stale_hint" ELSE fault
    /\ UNCHANGED <<prob, avail, pd, hint, hintLive, execVars>>

\* dnnl_primitive_desc_iterator_fetch(): a user-owned clone of the current pd.
Fetch(d) ==
    /\ UserTurn
    /\ it[d].st = "at"
    /\ pd[d] = NoPd
    /\ pd' = [pd EXCEPT ![d] = PdOf(d, it[d].idx)]
    /\ UNCHANGED <<prob, avail, it, status, hint, hintLive, fault, execVars>>

\* dnnl_primitive_desc_iterator_destroy().
IterDestroy(d) ==
    /\ UserTurn
    /\ it[d].st \in {"at", "end"}
    /\ it' = [it EXCEPT ![d] = NoIt]
    /\ UNCHANGED <<prob, avail, status, pd, hint, hintLive, fault, execVars>>

\* dnnl_primitive_desc_destroy() on a fetched pd.  Destroying the fwd pd that
\* a live bwd iterator holds as hint leaves that pointer dangling.
PdDestroy(d) ==
    /\ UserTurn
    /\ pd[d] # NoPd
    /\ d = "fwd" /\ KeepHint => it["bwd"].st = "none"
    /\ pd' = [pd EXCEPT ![d] = NoPd]
    /\ hintLive' = IF d = "fwd" THEN FALSE ELSE hintLive
    /\ UNCHANGED <<prob, avail, it, status, hint, fault, execVars>>

-----------------------------------------------------------------------------
(* Primitives.  The user creates a primitive from a fetched pd, allocates   *)
(* the workspace from the forward pd's workspace md and runs a training     *)
(* step: forward, then backward.  Both kernels address the workspace in     *)
(* their own channel blocking (jpp_.c_block), whatever its md says;         *)
(* execute_forward and execute_forward_3d (and the backward pair) differ    *)
(* only in the spatial rank and write or read the workspace alike.          *)

\* dnnl_primitive_desc_query_md(pd, dnnl_query_workspace_md, 0): the zero
\* md when no workspace is needed.
WorkspaceMd(p) == p.ws

\* The user allocates the workspace memory the forward pd asks for.
WsCreate ==
    /\ UserTurn
    /\ pd["fwd"] # NoPd /\ WorkspaceMd(pd["fwd"]) # "none"
    /\ wsMem = NoMem
    /\ wsMem' = [md |-> WorkspaceMd(pd["fwd"]), data |-> "empty"]
    /\ UNCHANGED <<prob, avail, it, status, pd, hint, hintLive, fault, prim, wsRead>>

\* dnnl_primitive_create(): the jit_uni_pooling_{fwd,bwd}_t constructor
\* builds the jit_uni_pool_kernel<isa> from the pd's jpp_; the primitive
\* keeps its own pd.
PrimCreate(d) ==
    /\ UserTurn
    /\ pd[d] # NoPd /\ prim[d] = NoPd
    /\ prim' = [prim EXCEPT ![d] = pd[d]]
    /\ UNCHANGED <<prob, avail, it, status, pd, hint, hintLive, fault, wsMem, wsRead>>

\* dnnl_primitive_execute() of the forward primitive: execute() hands src,
\* dst and the workspace (CTX_OUT_MEM, NULL without one) to the kernel,
\* which stores the max indices in its own blocking.
ExecFwd ==
    /\ UserTurn
    /\ prim["fwd"] # NoPd
    /\ WorkspaceMd(prim["fwd"]) # "none" => wsMem # NoMem
    /\ wsMem' = IF WorkspaceMd(prim["fwd"]) = "none" THEN wsMem
                ELSE [wsMem EXCEPT !.data = DesiredFmtTag(Cands[prim["fwd"].cand].isa)]
    /\ UNCHANGED <<prob, avail, it, status, pd, hint, hintLive, fault, prim, wsRead>>

\* dnnl_primitive_execute() of the backward primitive: for max pooling the
\* kernel reads the workspace (CTX_IN_MEM) the forward step wrote.
ExecBwd ==
    /\ UserTurn
    /\ prim["bwd"] # NoPd
    /\ WorkspaceMd(prim["bwd"]) # "none" => wsMem.data \notin {"none", "empty"}
    /\ wsRead' = IF WorkspaceMd(prim["bwd"]) = "none" THEN wsRead
                 ELSE [wrote |-> wsMem.data,
                       reads |-> BwdDesiredFmtTag(Cands[prim["bwd"].cand].isa)]
    /\ UNCHANGED <<prob, avail, it, status, pd, hint, hintLive, fault, prim, wsMem>>

\* dnnl_primitive_destroy(): the destructor deletes kernel_.
PrimDestroy(d) ==
    /\ UserTurn
    /\ prim[d] # NoPd
    /\ prim' = [prim EXCEPT ![d] = NoPd]
    /\ UNCHANGED <<prob, avail, it, status, pd, hint, hintLive, fault, wsMem, wsRead>>

Next ==
    \/ \E d \in Dirs :
        \/ IterCreate(d) \/ IterNext(d) \/ Try(d) \/ Fetch(d)
        \/ IterDestroy(d) \/ PdDestroy(d)
        \/ PrimCreate(d) \/ PrimDestroy(d)
    \/ WsCreate \/ ExecFwd \/ ExecBwd

Spec == Init /\ [][Next]_vars

-----------------------------------------------------------------------------
(* Properties *)

TypeOK ==
    /\ prob \in Problems
    /\ avail \in AvailIsas
    /\ \A d \in Dirs :
         /\ it[d].st \in {"none", "search", "at", "end"}
         /\ it[d].idx \in 0..K /\ it[d].start \in 0..K
         /\ status[d] \in {"none", "success", "unimplemented", "iterator_ends"}
         /\ pd[d] = NoPd \/ pd[d].cand \in 1..K
    /\ hintLive \in BOOLEAN
    /\ fault \in {"none", "stale_hint"}
    /\ \A d \in Dirs : prim[d] = NoPd \/ prim[d].cand \in 1..K
    /\ wsMem.data \in {"none", "empty", "nChw8c", "nChw16c"}
    /\ wsRead.wrote \in {"none", "nChw8c", "nChw16c"}

\* Every backward max-pooling execution reads a workspace that a forward
\* execution wrote, and the forward kernel stored the max indices in the
\* channel blocking the backward kernel reads them in (16c for AVX-512, 8c
\* otherwise).  Neither kernel looks at the workspace md: the agreement
\* rests on the init() tag guards, on compare_ws against the hint, and on
\* the user's primitives being built from pds of the same problem.
WsReadAsWritten ==
    wsRead # NoRead => wsRead.wrote = wsRead.reads

\* Given a training forward pd as hint, backward resolution fails only when
\* the user's diff layouts differ from the layout that forward pd resolved
\* its dst to: the forward workspace is always acceptable to a backward
\* candidate of the same tier.
BwdFollowsFwd ==
    (/\ status["bwd"] = "unimplemented" /\ it["bwd"].st # "search"
     /\ hint # NoPd /\ prob.prop = "training")
        => \/ prob.diffDst # hint.fmt
           \/ Resolved(prob.diffSrc, prob.diffDst) # hint.fmt

\* No init() reads the workspace md of a forward pd the user destroyed.
NoStaleHint == fault = "none"

=============================================================================
