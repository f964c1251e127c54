---------------------------- MODULE RnnKernelConf ----------------------------
(***************************************************************************)
(* The configuration of the OpenCL reference RNN kernel                    *)
(* (src/ocl/rnn/jit_ref_rnn_kernel.hpp): init_jit<prop> calls init_conf,   *)
(* which copies the pd's switches into jit_rnn_conf_t jrnn and, for every  *)
(* tensor, its ndims into jrnn and its strides into jit_off (set_offsets); *)
(* init_const_def then turns jrnn and jit_off into the kernel's -D         *)
(* macros.  Several fields are written only under a condition and read     *)
(* only under another; a field init_conf did not write holds whatever      *)
(* jrnn held before.  Values of ndims and strides are not modelled: a      *)
(* field is written or not.  The pd comes from one of the RNN descriptor   *)
(* initialisers of the C API, with some optional tensors passed.           *)
(***************************************************************************)
EXTENDS FiniteSets, Sequences

Switches == {"is_fwd", "with_bias", "with_src_iter", "with_src_iter_c",
             "with_dst_iter", "with_dst_iter_c", "is_lbr"}
\* The switches and the cell kind init_conf copies into jrnn.
Conf == Switches \cup {"cell_kind"}

\* The tensors whose offsets the kernel may receive.
FwdPlain  == {"src_layer", "src_iter", "weights_layer", "weights_iter", "bias",
              "dst_layer", "dst_iter"}
DiffPlain == {"diff_src_layer", "diff_src_iter", "diff_weights_layer",
              "diff_weights_iter", "diff_bias", "diff_dst_layer", "diff_dst_iter"}
Tensors == FwdPlain \cup DiffPlain \cup
           {"src_iter_c", "dst_iter_c", "diff_src_iter_c", "diff_dst_iter_c"}
Fields == Tensors \X {"ndims", "off"}

Diff(t) == "diff_" \o t

-----------------------------------------------------------------------------
(* The RNN descriptor initialisers of include/dnnl.h.  Each lists the      *)
(* tensors it always uses and the optional ones ("if used") a caller may  *)
(* pass as NULL or a zero md; a backward initialiser takes each optional  *)
(* tensor together with its diff.  The workspace is left out: the kernel  *)
(* gets its offsets from rnn_conf, not as a tensor.                       *)

Always(fwd) ==
    {"src_layer", "weights_layer", "weights_iter", "dst_layer"}
    \cup (IF fwd THEN {} ELSE {"diff_src_layer", "diff_weights_layer",
                               "diff_weights_iter", "diff_dst_layer"})

dnnl_vanilla_rnn_forward_desc_init ==
    [cell |-> "vanilla_rnn", fwd |-> TRUE, opt |-> {"src_iter", "bias", "dst_iter"}]
dnnl_vanilla_rnn_backward_desc_init ==
    [cell |-> "vanilla_rnn", fwd |-> FALSE, opt |-> {"src_iter", "bias", "dst_iter"}]
dnnl_lstm_forward_desc_init ==
    [cell |-> "vanilla_lstm", fwd |-> TRUE,
     opt |-> {"src_iter", "src_iter_c", "bias", "dst_iter", "dst_iter_c"}]
dnnl_lstm_backward_desc_init ==
    [cell |-> "vanilla_lstm", fwd |-> FALSE,
     opt |-> {"src_iter", "src_iter_c", "bias", "dst_iter", "dst_iter_c"}]
dnnl_gru_forward_desc_init ==
    [cell |-> "vanilla_gru", fwd |-> TRUE, opt |-> {"src_iter", "bias", "dst_iter"}]
dnnl_gru_backward_desc_init ==
    [cell |-> "vanilla_gru", fwd |-> FALSE, opt |-> {"src_iter", "bias", "dst_iter"}]
dnnl_lbr_gru_forward_desc_init ==
    [cell |-> "lbr_gru", fwd |-> TRUE, opt |-> {"src_iter", "bias", "dst_iter"}]
dnnl_lbr_gru_backward_desc_init ==
    [cell |-> "lbr_gru", fwd |-> FALSE, opt |-> {"src_iter", "bias", "dst_iter"}]

DescInits ==
    {dnnl_vanilla_rnn_forward_desc_init, dnnl_vanilla_rnn_backward_desc_init,
     dnnl_lstm_forward_desc_init, dnnl_lstm_backward_desc_init,
     dnnl_gru_forward_desc_init, dnnl_gru_backward_desc_init,
     dnnl_lbr_gru_forward_desc_init, dnnl_lbr_gru_backward_desc_init}

\* The tensors the documentation says the primitive uses, given the
\* optional ones the caller passed.
DocUses(d, g) ==
    Always(d.fwd) \cup g \cup (IF d.fwd THEN {} ELSE {Diff(t) : t \in g})

\* rnn_pd_t's answers for a descriptor: with_X() when X's md was passed
\* and is not zero; rnn_conf.is_lbr for the LBR GRU cell.
PdSwitches(d, g) ==
    [is_fwd |-> d.fwd, with_bias |-> "bias" \in g,
     with_src_iter |-> "src_iter" \in g, with_src_iter_c |-> "src_iter_c" \in g,
     with_dst_iter |-> "dst_iter" \in g, with_dst_iter_c |-> "dst_iter_c" \in g,
     is_lbr |-> d.cell = "lbr_gru", cell_kind |-> d.cell]

VARIABLES
    desc,        \* the descriptor initialiser the caller used
    given,       \* the optional tensors it passed
    pd,          \* switch -> the rnn_pd / rnn_conf answer
    phase,       \* "pd", "conf" (after init_jit) or "defs" (after init_const_def)
    jrnn,        \* switch -> the value jrnn holds, or "uninit"
    written,     \* the ndims and offset fields init_conf wrote
    defines,     \* switch -> the value of its IS_* / WITH_* macro, or "none"
    offDefs,     \* the tensors whose offset macros were defined
    uninitRead   \* init_const_def read a field init_conf left unwritten

vars == <<desc, given, pd, phase, jrnn, written, defines, offDefs, uninitRead>>

Init ==
    /\ desc \in DescInits
    /\ given \in SUBSET desc.opt
    /\ pd = PdSwitches(desc, given)
    /\ phase = "pd"
    /\ jrnn = [s \in Conf |-> "uninit"]
    /\ written = {}
    /\ defines = [s \in Conf |-> "none"]
    /\ offDefs = {}
    /\ uninitRead = FALSE

\* The tensors init_conf handles for switches w: the forward ones, the c
\* states under with_*_iter_c, and under !is_fwd the diff tensors.
ConfTensors(w) ==
    FwdPlain
    \cup {t \in {"src_iter_c"} : w["with_src_iter_c"]}
    \cup {t \in {"dst_iter_c"} : w["with_dst_iter_c"]}
    \cup (IF w["is_fwd"] THEN {}
          ELSE DiffPlain
               \cup {t \in {"diff_src_iter_c"} : w["with_src_iter_c"]}
               \cup {t \in {"diff_dst_iter_c"} : w["with_dst_iter_c"]})

\* Mutant: the dst c-state switch is copied from with_src_iter_c.
CopySwitchesCrossed(w) == [w EXCEPT !["with_dst_iter_c"] = w["with_src_iter_c"]]

\* jrnn.is_fwd = rnn_conf.is_fwd; jrnn.with_bias = rnn_pd->with_bias(); ...;
\* jrnn.cell_kind = rnn_pd->cell_kind().
CopySwitches(w) == w

\* init_conf(jrnn, rnn_conf, rnn_pd, ...): the switches, then every ndims
\* under its condition, then set_offsets under the same conditions.
InitConf ==
    LET j == CopySwitches(pd) IN
    /\ jrnn' = j
    /\ written' = ConfTensors(j) \X {"ndims", "off"}

\* init_jit<aprop> (forward: fake descriptors for the diff tensors) or
\* init_jit<backward>: the pd's prop kind picks the template; both call
\* init_conf.
InitJit ==
    /\ phase = "pd"
    /\ \E prop \in {"forward", "backward"} :
         /\ (prop = "backward") = ~pd["is_fwd"]
         /\ InitConf
    /\ phase' = "conf"
    /\ UNCHANGED <<desc, given, pd, defines, offDefs, uninitRead>>

\* The tensors whose offsets init_const_def defines, under jrnn's switches.
DefTensors(j) ==
    FwdPlain
    \cup {t \in {"src_iter_c"} : j["with_src_iter_c"]}
    \cup {t \in {"dst_iter_c"} : j["with_dst_iter_c"]}
    \cup (IF j["is_fwd"] THEN {}
          ELSE DiffPlain
               \cup {t \in {"diff_src_iter_c"} : j["with_src_iter_c"]}
               \cup {t \in {"diff_dst_iter_c"} : j["with_dst_iter_c"]})

\* Mutant: the SRC_I_C offsets are defined whatever with_src_iter_c says.
InitConstDefUnguarded ==
    LET ts == DefTensors(jrnn) \cup {"src_iter_c"} IN
    /\ phase = "conf"
    /\ defines' = jrnn
    /\ offDefs' = ts
    /\ uninitRead' = ~(ts \X {"ndims", "off"} \subseteq written)
    /\ phase' = "defs"
    /\ UNCHANGED <<desc, given, pd, jrnn, written>>

\* init_const_def(kernel_ctx, jrnn, jit_off): define_int of every switch,
\* then def_offsets(jit_off.X_off, kernel_ctx, "X", jrnn.X_ndims) for the
\* tensors of DefTensors.
InitConstDef ==
    LET ts == DefTensors(jrnn) IN
    /\ phase = "conf"
    /\ defines' = jrnn
    /\ offDefs' = ts
    /\ uninitRead' = ~(ts \X {"ndims", "off"} \subseteq written)
    /\ phase' = "defs"
    /\ UNCHANGED <<desc, given, pd, jrnn, written>>

Next == InitJit \/ InitConstDef

Spec == Init /\ [][Next]_vars

-----------------------------------------------------------------------------
(* Properties *)

\* init_const_def reads only fields init_conf wrote: every ndims and
\* jit_off entry passed to def_offsets was set by set_offsets and the
\* ndims assignment under the same switches, never left from before.
NoUninitRead == ~uninitRead

\* The switch that tells the kernel whether an optional tensor is used.
Gate(t) ==
    CASE t \in {"src_iter", "diff_src_iter"}     -> "with_src_iter"
      [] t \in {"src_iter_c", "diff_src_iter_c"} -> "with_src_iter_c"
      [] t \in {"bias", "diff_bias"}             -> "with_bias"
      [] t \in {"dst_iter", "diff_dst_iter"}     -> "with_dst_iter"
      [] t \in {"dst_iter_c", "diff_dst_iter_c"} -> "with_dst_iter_c"
      [] OTHER -> "none"

\* The tensors the compiled kernel addresses: those with offset macros
\* whose WITH_* macro, if they have one, is on.
KernelUses == {t \in offDefs : Gate(t) = "none" \/ defines[Gate(t)] = TRUE}

\* The kernel compiled for an RNN primitive addresses exactly the tensors
\* the C API documents for the initialiser and the optional descriptors
\* the caller passed (c states for an LSTM only when given, diffs only for
\* backward), and its IS_FWD, IS_LBR and CELL_KIND macros name that
\* initialiser's cell and direction.  The offsets of src_iter and dst_iter,
\* defined whatever was passed, are used only under their WITH_* macro.
KernelFollowsDesc ==
    phase = "defs" =>
        /\ KernelUses = DocUses(desc, given)
        /\ defines["is_fwd"] = desc.fwd
        /\ defines["is_lbr"] = (desc.cell = "lbr_gru")
        /\ defines["cell_kind"] = desc.cell
=============================================================================
