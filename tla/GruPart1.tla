------------------------------ MODULE GruPart1 ------------------------------
(***************************************************************************)
(* The code generated by jit_uni_gru_cell_postgemm_part1_fwd::generate()  *)
(* (src/cpu/rnn/jit_uni_gru_cell_postgemm_1.hpp), run on one row: a       *)
(* vector loop over vlen-byte chunks of gate 0 and gate 1, then a scalar  *)
(* remainder loop, both driven by loop_cnt, a count of gate bytes.  The   *)
(* state is the counter and the four address registers as byte offsets   *)
(* from the start of their buffers.  Values are not modelled; the model   *)
(* records every byte each instruction loads or stores.                    *)
(*                                                                         *)
(* The buffers of a row: ws_gates holds gate 0 at [0, D) and gate 1 at    *)
(* [D, 2D) with D = dic * gate_dt_size; bias holds gate 0 at [0, 4 dic)   *)
(* and gate 1 at [4 dic, 8 dic); states_t_l and states_tm1_l hold         *)
(* dic * hstate_dt_size bytes.                                             *)
(***************************************************************************)
EXTENDS Integers

CONSTANTS
    Isas,       \* the isa template arguments
    SrcTypes,   \* the src_data_t template arguments: "f32", "u8"
    MaxDic      \* rnn_.dic ranges over 0..MaxDic

VARIABLES
    isa, src_t, dic,       \* the kernel's template arguments and rnn_.dic
    pc,                    \* "start", "vec", "rem" or "done"
    loop_cnt,              \* r11
    ws_g, bias, st, st_tm1,  \* abi_param1..4 as byte offsets
    g0Writes,              \* byte of gate 0 -> stores to it
    stWrites,              \* byte of states_t_l -> stores to it
    oob                    \* some load or store left its block

vars == <<isa, src_t, dic, pc, loop_cnt, ws_g, bias, st, st_tm1, g0Writes, stWrites, oob>>

\* cpu_isa_traits<isa>::vlen.
VlenOf == [sse41 |-> 16, avx2 |-> 32, avx512_core |-> 64]

\* The sizes of generate() for the current template arguments.
vlen == VlenOf[isa]
vlen_dst == IF src_t = "u8" THEN vlen \div 4 ELSE vlen
hstate_dt_size == IF src_t = "u8" THEN 1 ELSE 4
gate_dt_size == 4
bias_dt_size == 4

D == dic * gate_dt_size
StBytes == dic * hstate_dt_size

\* An access of len bytes at off stays inside [lo, hi).
Inside(off, len, lo, hi) == lo <= off /\ off + len <= hi

\* Whether a step's loads and stores all stay inside their blocks: gate 0
\* and gate 1 of ws_gates and bias at the current offsets, and the two
\* states.
AccessOk(gLen, bLen, stLen) ==
    /\ Inside(ws_g, gLen, 0, D) /\ Inside(D + ws_g, gLen, D, 2 * D)
    /\ Inside(bias, bLen, 0, dic * bias_dt_size)
    /\ Inside(dic * bias_dt_size + bias, bLen, dic * bias_dt_size, 2 * dic * bias_dt_size)
    /\ Inside(st_tm1, stLen, 0, StBytes) /\ Inside(st, stLen, 0, StBytes)

\* One more store to the bytes [off, off + len) that lie in the map's domain.
Stored(w, off, len) ==
    [b \in DOMAIN w |-> IF off <= b /\ b < off + len THEN w[b] + 1 ELSE w[b]]

Init ==
    /\ isa \in Isas /\ src_t \in SrcTypes /\ dic \in 0..MaxDic
    /\ pc = "start" /\ loop_cnt = 0
    /\ ws_g = 0 /\ bias = 0 /\ st = 0 /\ st_tm1 = 0
    /\ g0Writes = [b \in 0..(dic * gate_dt_size) - 1 |-> 0]
    /\ stWrites = [b \in 0..(dic * hstate_dt_size) - 1 |-> 0]
    /\ oob = FALSE

\* Mutant: the vector loop is taken while any byte is left.
AfterVecAnyLeft(cnt) ==
    IF cnt > 0 THEN "vec" ELSE "done"

\* Where the code goes with cnt bytes left, before or after a vector
\* iteration: `cmp(loop_cnt, vlen); jge/jl`, then `cmp(loop_cnt, 0); je`.
AfterVec(cnt) ==
    IF cnt >= vlen THEN "vec" ELSE IF cnt = 0 THEN "done" ELSE "rem"

\* mov(loop_cnt, rnn_.dic * gate_dt_size) and the first tests.
Start ==
    /\ pc = "start"
    /\ loop_cnt' = D
    /\ pc' = AfterVec(D)
    /\ UNCHANGED <<isa, src_t, dic, ws_g, bias, st, st_tm1, g0Writes, stWrites, oob>>

\* Mutant: gate 0 is not stored back for postgemm_part2.
VecIterNoStore ==
    /\ pc = "vec"
    /\ oob' = (oob \/ ~AccessOk(vlen, vlen, vlen))
    /\ stWrites' = Stored(stWrites, st, vlen)
    /\ ws_g' = ws_g + vlen /\ bias' = bias + vlen
    /\ st' = st + vlen_dst /\ st_tm1' = st_tm1 + vlen_dst
    /\ loop_cnt' = loop_cnt - vlen
    /\ pc' = AfterVec(loop_cnt - vlen)
    /\ UNCHANGED <<isa, src_t, dic, g0Writes>>

\* One iteration of vector_loop: uni_vmovups loads of vlen bytes of both
\* gates, both biases and states_tm1_l; stores of vlen bytes to gate 0 and
\* to states_t_l; the address and counter updates and the jge.
VecIter ==
    /\ pc = "vec"
    /\ oob' = (oob \/ ~AccessOk(vlen, vlen, vlen))
    /\ g0Writes' = Stored(g0Writes, ws_g, vlen)
    /\ stWrites' = Stored(stWrites, st, vlen)
    /\ ws_g' = ws_g + vlen /\ bias' = bias + vlen
    /\ st' = st + vlen_dst /\ st_tm1' = st_tm1 + vlen_dst
    /\ loop_cnt' = loop_cnt - vlen
    /\ pc' = AfterVec(loop_cnt - vlen)
    /\ UNCHANGED <<isa, src_t, dic>>

\* One iteration of rem_loop: uni_vmovss / vaddss / vmulss move 4 bytes at
\* a time; the addresses advance by the element sizes; `jg` while bytes
\* are left.
RemIter ==
    /\ pc = "rem"
    /\ oob' = (oob \/ ~AccessOk(gate_dt_size, 4, 4))
    /\ g0Writes' = Stored(g0Writes, ws_g, 4)
    /\ stWrites' = Stored(stWrites, st, 4)
    /\ ws_g' = ws_g + gate_dt_size /\ bias' = bias + bias_dt_size
    /\ st' = st + hstate_dt_size /\ st_tm1' = st_tm1 + hstate_dt_size
    /\ loop_cnt' = loop_cnt - gate_dt_size
    /\ pc' = IF loop_cnt - gate_dt_size > 0 THEN "rem" ELSE "done"
    /\ UNCHANGED <<isa, src_t, dic>>

Next == Start \/ VecIter \/ RemIter

Spec == Init /\ [][Next]_vars

-----------------------------------------------------------------------------
(* Properties *)

\* No load or store of the kernel leaves its block of the row, for any
\* dic, including the tails the vector loop does not cover.
InBounds == ~oob

\* When the kernel returns, every byte of gate 0 and of states_t_l has
\* been stored exactly once: the vector and remainder loops split the row
\* with neither gap nor overlap.
ExactCover ==
    pc = "done" =>
        /\ \A b \in DOMAIN g0Writes : g0Writes[b] = 1
        /\ \A b \in DOMAIN stWrites : stWrites[b] = 1
=============================================================================
