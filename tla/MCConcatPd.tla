----------------------------- MODULE MCConcatPd -----------------------------
(* Model-checking instance of ConcatPd: two inputs, two reorder           *)
(* implementations in registration order, two pd_t objects, one           *)
(* ref_concat_t primitive.                                                 *)
EXTENDS ConcatPd, TLC

CONSTANTS jit, simple, p1

MCImplOrder == <<jit, simple>>
MCPrims == {p1}

\* The pd_t objects are interchangeable.
MCSymmetry == Permutations(Pds)
=============================================================================
