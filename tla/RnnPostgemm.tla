---------------------------- MODULE RnnPostgemm ----------------------------
(***************************************************************************)
(* The vanilla RNN postgemm of src/cpu/rnn/ref_postgemm_rnn.cpp, as the   *)
(* cell driver runs it over the time steps of one (layer, direction).     *)
(*                                                                         *)
(* Forward (training): for each time step the GEMM leaves pre-activation  *)
(* gates in ws_gates; the postgemm adds the bias, applies the activation  *)
(* and writes the result to both ws_gates and states_t_l.  Backward: the  *)
(* cell driver walks time in reverse; the postgemm reads the stored gate  *)
(* g, computes dH from the two diff_states buffers, and writes            *)
(* dH * act'(g) over ws_gates in place.                                    *)
(*                                                                         *)
(* Values are small integers: relu and the linear activation of the test  *)
(* mode are exact on them.  tanh and logistic values are terms: tanh(s)   *)
(* is <<"tanh", s>>, and a function of math_utils applied to a term it    *)
(* cannot simplify stays a term, so only true identities equate values.  The rows i of parallel_nd write disjoint      *)
(* elements, so a postgemm call is one step.  pre, dH and read are not    *)
(* in the code: they record what each cell computed, for the properties.  *)
(***************************************************************************)
EXTENDS Integers

CONSTANTS
    Mb, Dic,        \* rnn.mb, rnn.dic
    T,              \* time steps the cell driver walks
    GateVals,       \* values the GEMM leaves in ws_gates
    BiasVals,       \* values of bias(0, j)
    Acts,           \* the cell's activation kind: relu, tanh or logistic
    Alphas,         \* pd_->desc()->alpha
    TestModes,      \* rnn_tparams_.test_mode_
    ScaleVals,      \* rnn_tparams_.scales_[0] in the test mode
    DiffVals,       \* values in the diff_states buffers
    MaxBwdRuns      \* backward executions per forward execution

VARIABLES
    act, alpha, test_mode, scale,  \* fixed by the pd and its attributes
    bias,        \* j -> bias(0, j)
    ws,          \* t -> (i, j) -> ws_gates(i, 0, j) of time step t
    states,      \* t -> (i, j) -> states_t_l(i, j)
    pre,         \* t -> (i, j) -> the pre-activation the forward cell saw
    dH,          \* t -> (i, j) -> the dH the backward cell used
    read,        \* t -> (i, j) -> the ws_gates value the backward cell read
    pass,        \* "idle", "fwd" or "bwd": the primitive being executed
    fwdT,        \* the forward cell driver's next time step
    bwdT,        \* the backward cell driver's next time step
    trained,     \* a forward execution has completed
    bwdRuns,     \* backward executions since the last forward one
    bwdDone      \* time steps the current backward execution has done

vars == <<act, alpha, test_mode, scale, bias, ws, states, pre, dH, read,
          pass, fwdT, bwdT, trained, bwdRuns, bwdDone>>

Steps == 1..T
Cells == (0..Mb-1) \X (0..Dic-1)
Zero == [c \in Cells |-> 0]

\* Mutant: the derivative takes zero as positive.
relu_bwd_ge(s, a) == IF s >= 0 THEN 1 ELSE a

\* relu_fwd(s, alpha) and relu_bwd(s, alpha) of math_utils.
relu_fwd(s, a) == IF s > 0 THEN s ELSE s * a
relu_bwd(s, a) == IF s > 0 THEN 1 ELSE a

\* tanh_fwd, and one_m_square(s) = 1 - s * s: on h = tanh(x) it is
\* 1 - tanh(x)^2, the derivative of tanh at x.
tanh_fwd(s) == <<"tanh", s>>
one_m_square(h) == IF h[1] = "tanh" THEN <<"dtanh", h[2]>> ELSE <<"one_m_square", h>>

\* logistic_fwd, and x_m_square(s) = s - s * s: on h = logistic(x) it is
\* logistic(x) (1 - logistic(x)), the derivative of logistic at x.
logistic_fwd(s) == <<"logistic", s>>
x_m_square(h) == IF h[1] = "logistic" THEN <<"dlogistic", h[2]>> ELSE <<"x_m_square", h>>

\* The specialisations activation<alg_kind, prop_kind>(s, alpha, clipping).
Activation(k, prop, s, a) ==
    CASE k = "relu"     /\ prop = "fwd" -> relu_fwd(s, a)
      [] k = "relu"     /\ prop = "bwd" -> relu_bwd(s, a)
      [] k = "tanh"     /\ prop = "fwd" -> tanh_fwd(s)
      [] k = "tanh"     /\ prop = "bwd" -> one_m_square(s)
      [] k = "logistic" /\ prop = "fwd" -> logistic_fwd(s)
      [] k = "logistic" /\ prop = "bwd" -> x_m_square(s)

\* linear(s, alpha, clipping).
linear(s, a) == a * s

\* dH * func1(g): a product with a term (tanh or logistic outside the
\* test mode) stays a term.
Mul(d, v) == IF act = "relu" \/ test_mode THEN d * v ELSE <<"mul", d, v>>

\* `if (scales != nullptr) alpha = scales[0]`: the test mode passes the
\* scales of rnn_tparams_, the normal mode nullptr.
EffAlpha == IF test_mode THEN scale ELSE alpha

\* The forward function of rnn_postgemm_fwd_f32_t: act_f, or linear_f in
\* the test mode.
FwdFunc(s) == IF test_mode THEN linear(s, EffAlpha) ELSE Activation(act, "fwd", s, alpha)

\* The backward function of rnn_postgemm_bwd_f32_t.
BwdFunc(g) == IF test_mode THEN linear(g, EffAlpha) ELSE Activation(act, "bwd", g, alpha)

Init ==
    /\ act \in Acts /\ alpha \in Alphas /\ test_mode \in TestModes /\ scale \in ScaleVals
    /\ bias \in [0..Dic-1 -> BiasVals]
    /\ ws = [t \in Steps |-> Zero] /\ states = ws
    /\ pre = ws /\ dH = ws /\ read = ws
    /\ pass = "idle" /\ fwdT = 1 /\ bwdT = 0
    /\ trained = FALSE /\ bwdRuns = 0 /\ bwdDone = {}

\* dnnl_primitive_execute of the forward training primitive.
ExecFwd ==
    /\ pass = "idle"
    /\ pass' = "fwd" /\ fwdT' = 1 /\ bwdDone' = {}
    /\ dH' = [t \in Steps |-> Zero] /\ read' = dH'
    /\ UNCHANGED <<act, alpha, test_mode, scale, bias, ws, states, pre,
                   bwdT, trained, bwdRuns>>

\* rnn_postgemm_template (forward) after the GEMM of time step t.
FwdPostgemm(t, gates) ==
    LET s == [c \in Cells |-> gates[c] + bias[c[2]]] IN
    /\ ws' = [ws EXCEPT ![t] = [c \in Cells |-> FwdFunc(s[c])]]
    /\ states' = [states EXCEPT ![t] = [c \in Cells |-> FwdFunc(s[c])]]
    /\ pre' = [pre EXCEPT ![t] = s]

\* One forward cell: the GEMM leaves any gates, then the postgemm.
FwdCell ==
    /\ pass = "fwd" /\ fwdT \in Steps
    /\ \E gates \in [Cells -> GateVals] : FwdPostgemm(fwdT, gates)
    /\ fwdT' = fwdT + 1
    /\ IF fwdT = T THEN pass' = "idle" /\ trained' = TRUE /\ bwdRuns' = 0
                   ELSE UNCHANGED <<pass, trained, bwdRuns>>
    /\ UNCHANGED <<act, alpha, test_mode, scale, bias, dH, read, bwdT, bwdDone>>

\* dnnl_primitive_execute of the backward primitive, with the workspace of
\* the last forward execution.
ExecBwd ==
    /\ pass = "idle" /\ trained /\ bwdRuns < MaxBwdRuns
    /\ pass' = "bwd" /\ bwdT' = T /\ bwdRuns' = bwdRuns + 1 /\ bwdDone' = {}
    /\ UNCHANGED <<act, alpha, test_mode, scale, bias, ws, states, pre, dH, read,
                   fwdT, trained>>

\* rnn_postgemm_template (backward) at time step t: dH is
\* diff_states_t_lp1(n_states, i, j) + diff_states_tp1_l(0, i, j).
BwdPostgemm(t, lp1, tp1) ==
    LET d == [c \in Cells |-> lp1[c] + tp1[c]] IN
    /\ ws' = [ws EXCEPT ![t] = [c \in Cells |-> Mul(d[c], BwdFunc(ws[t][c]))]]
    /\ dH' = [dH EXCEPT ![t] = d]
    /\ read' = [read EXCEPT ![t] = ws[t]]

\* One backward cell, time walking from T down to 1.
BwdCell ==
    /\ pass = "bwd" /\ bwdT \in Steps
    /\ \E lp1, tp1 \in [Cells -> DiffVals] : BwdPostgemm(bwdT, lp1, tp1)
    /\ bwdT' = bwdT - 1
    /\ bwdDone' = bwdDone \cup {bwdT}
    /\ IF bwdT = 1 THEN pass' = "idle" ELSE UNCHANGED pass
    /\ UNCHANGED <<act, alpha, test_mode, scale, bias, states, pre, fwdT, trained, bwdRuns>>

Next == ExecFwd \/ FwdCell \/ ExecBwd \/ BwdCell

Spec == Init /\ [][Next]_vars

-----------------------------------------------------------------------------
(* Properties *)

\* The derivative of the forward function at the pre-activation s.
Deriv(s) ==
    CASE test_mode       -> EffAlpha
      [] act = "relu"     -> IF s > 0 THEN 1 ELSE alpha
      [] act = "tanh"     -> <<"dtanh", s>>
      [] act = "logistic" -> <<"dlogistic", s>>

\* The gradient the backward postgemm leaves in ws_gates is dH times the
\* derivative of the forward function at the pre-activation, although the
\* code only has the post-activation value to compute it from.
GradientAtPreActivation ==
    \A t \in bwdDone : ws[t] = [c \in Cells |-> Mul(dH[t][c], Deriv(pre[t][c]))]
=============================================================================
