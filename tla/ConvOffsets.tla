----------------------------- MODULE ConvOffsets -----------------------------
(***************************************************************************)
(* The offset functions of tests/benchdnn/conv/conv_common.hpp: src, wei,  *)
(* bia and dst offsets of a convolution problem prb_t and their inverses.  *)
(* The model walks every element of the four tensors in loop order, as the *)
(* reference convolution and the comparison of results do, and at each    *)
(* element evaluates the code's offset and inverse.  Integer / and % of   *)
(* the code are \div and % (all operands are non-negative), evaluated in  *)
(* the code's left-to-right order: g * p->ic / p->g is (g * ic) \div g.    *)
(***************************************************************************)
EXTENDS Integers, Sequences, SequencesExt

CONSTANTS
    Problems    \* the desc_t shapes: records of g, mb, ic, id, ih, iw, oc,
                \* od, oh, ow, kd, kh, kw

VARIABLES
    p,          \* the problem
    kind,       \* the tensor being walked: "src", "wei", "bia", "dst", "done"
    pos         \* the logical index of the current element

vars == <<p, kind, pos>>

Tensors == <<"src", "wei", "bia", "dst">>

\* The logical dimensions of each tensor, outermost first.
Dims(k) ==
    CASE k = "src" -> <<p.mb, p.g, p.ic \div p.g, p.id, p.ih, p.iw>>
      [] k = "wei" -> <<p.g, p.oc \div p.g, p.ic \div p.g, p.kd, p.kh, p.kw>>
      [] k = "bia" -> <<p.g, p.oc \div p.g>>
      [] k = "dst" -> <<p.mb, p.g, p.oc \div p.g, p.od, p.oh, p.ow>>

Zeros(n) == [i \in 1..n |-> 0]

\* The element after idx in loop order (the innermost index moves
\* fastest), or <<>> after the last one.
RECURSIVE Succ(_, _)
Succ(idx, dims) ==
    IF idx = <<>> THEN <<>>
    ELSE IF Last(idx) + 1 < Last(dims)
         THEN Front(idx) \o <<Last(idx) + 1>>
         ELSE LET f == Succ(Front(idx), Front(dims)) IN
              IF f = <<>> THEN <<>> ELSE f \o <<0>>

\* The reference: the dense row-major offset of idx in a tensor of dims.
RECURSIVE RowMajor(_, _)
RowMajor(idx, dims) ==
    IF idx = <<>> THEN 0 ELSE RowMajor(Front(idx), Front(dims)) * Last(dims) + Last(idx)

Volume(dims) == FoldLeft(LAMBDA a, b : a * b, 1, dims)

-----------------------------------------------------------------------------
(* The code *)

src_off_f(mb, g, ic, id, ih, iw) ==
    (((mb * p.ic + (g * p.ic) \div p.g + ic) * p.id + id) * p.ih + ih) * p.iw + iw

\* Mutant: the channel block of the inverse is p->ic, not p->ic / p->g.
inv_src_off_f_nogroup(off) ==
    LET iw == off % p.iw        o1 == off \div p.iw
        ih == o1 % p.ih         o2 == o1 \div p.ih
        id == o2 % p.id         o3 == o2 \div p.id
        ic == o3 % p.ic         o4 == o3 \div p.ic
        g  == o4 % p.g          o5 == o4 \div p.g
        mb == o5 % p.mb         o6 == o5 \div p.mb
    IN  <<<<mb, g, ic, id, ih, iw>>, o6>>

\* The indices the inverse writes, and the off that assert(off == 0) tests.
inv_src_off_f(off) ==
    LET iw == off % p.iw        o1 == off \div p.iw
        ih == o1 % p.ih         o2 == o1 \div p.ih
        id == o2 % p.id         o3 == o2 \div p.id
        ic == o3 % (p.ic \div p.g)   o4 == o3 \div (p.ic \div p.g)
        g  == o4 % p.g          o5 == o4 \div p.g
        mb == o5 % p.mb         o6 == o5 \div p.mb
    IN  <<<<mb, g, ic, id, ih, iw>>, o6>>

\* Mutant: the input-channel block is scaled by p->ic, not p->ic / p->g.
wei_off_f_nogroup(g, oc, ic, kd, kh, kw) ==
    LET a == (g * p.oc) \div p.g + oc
        b == a * p.ic + ic
    IN  ((b * p.kd + kd) * p.kh + kh) * p.kw + kw

\* ((g * p->oc / p->g + oc) * p->ic / p->g + ic), then kd, kh, kw.
wei_off_f(g, oc, ic, kd, kh, kw) ==
    LET a == (g * p.oc) \div p.g + oc
        b == (a * p.ic) \div p.g + ic
    IN  ((b * p.kd + kd) * p.kh + kh) * p.kw + kw

inv_wei_off_f(off) ==
    LET kw == off % p.kw        o1 == off \div p.kw
        kh == o1 % p.kh         o2 == o1 \div p.kh
        kd == o2 % p.kd         o3 == o2 \div p.kd
        ic == o3 % (p.ic \div p.g)   o4 == o3 \div (p.ic \div p.g)
        oc == o4 % (p.oc \div p.g)   o5 == o4 \div (p.oc \div p.g)
        g  == o5 % p.g          o6 == o5 \div p.g
    IN  <<<<g, oc, ic, kd, kh, kw>>, o6>>

bia_off_f(g, oc) == (g * p.oc) \div p.g + oc

inv_bia_off_f(off) ==
    LET oc == off % (p.oc \div p.g)   o1 == off \div (p.oc \div p.g)
        g  == o1 % p.g                o2 == o1 \div p.g
    IN  <<<<g, oc>>, o2>>

dst_off_f(mb, g, oc, od, oh, ow) ==
    (((mb * p.oc + (g * p.oc) \div p.g + oc) * p.od + od) * p.oh + oh) * p.ow + ow

inv_dst_off_f(off) ==
    LET ow == off % p.ow        o1 == off \div p.ow
        oh == o1 % p.oh         o2 == o1 \div p.oh
        od == o2 % p.od         o3 == o2 \div p.od
        oc == o3 % (p.oc \div p.g)   o4 == o3 \div (p.oc \div p.g)
        g  == o4 % p.g          o5 == o4 \div p.g
        mb == o5 % p.mb         o6 == o5 \div p.mb
    IN  <<<<mb, g, oc, od, oh, ow>>, o6>>

\* The code's offset of the current element, and its inverse.
Off(k, i) ==
    CASE k = "src" -> src_off_f(i[1], i[2], i[3], i[4], i[5], i[6])
      [] k = "wei" -> wei_off_f(i[1], i[2], i[3], i[4], i[5], i[6])
      [] k = "bia" -> bia_off_f(i[1], i[2])
      [] k = "dst" -> dst_off_f(i[1], i[2], i[3], i[4], i[5], i[6])

Inv(k, off) ==
    CASE k = "src" -> inv_src_off_f(off)
      [] k = "wei" -> inv_wei_off_f(off)
      [] k = "bia" -> inv_bia_off_f(off)
      [] k = "dst" -> inv_dst_off_f(off)

-----------------------------------------------------------------------------
Init ==
    /\ p \in Problems
    /\ kind = "src"
    /\ pos = Zeros(6)

\* The next element of the tensor, or the first of the next tensor.
Advance ==
    /\ kind # "done"
    /\ LET s == Succ(pos, Dims(kind))
           n == CHOOSE j \in 1..4 : Tensors[j] = kind
       IN  IF s # <<>> THEN kind' = kind /\ pos' = s
           ELSE IF n = 4 THEN kind' = "done" /\ pos' = <<>>
           ELSE kind' = Tensors[n + 1] /\ pos' = Zeros(Len(Dims(Tensors[n + 1])))
    /\ UNCHANGED p

Next == Advance

Spec == Init /\ [][Next]_vars

\* Every element's offset, computed by the code with its mixed grouping
\* (g * ic / g, (.. + oc) * ic / g), is exactly the element's position in
\* the dense layout of its tensor, and so lies in 0..volume - 1: the
\* reference and the library's buffers agree on where each element is.
OffsetsMatchLayout ==
    kind # "done" =>
        /\ Off(kind, pos) = RowMajor(pos, Dims(kind))
        /\ Off(kind, pos) < Volume(Dims(kind))

\* The inverse of every element's offset gives back its indices, and the
\* assert(off == 0) at the end of the inverse holds: a mismatch is reported
\* at the element where it happened.
InverseRoundTrip ==
    kind # "done" => Inv(kind, Off(kind, pos)) = <<pos, 0>>
=============================================================================
