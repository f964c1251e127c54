-------------------------- MODULE MCPoolingResolver --------------------------
(* A catalogue of jit pooling candidates, fastest tier first, and the op    *)
(* descs a user can build from the layouts those candidates tell apart.     *)
EXTENDS PoolingResolver

MCCands ==
    << [isa |-> "avx512_common", dt |-> "f32", kind |-> "fwd"],
       [isa |-> "avx512_common", dt |-> "f32", kind |-> "bwd"],
       [isa |-> "avx",           dt |-> "f32", kind |-> "fwd"],
       [isa |-> "avx",           dt |-> "f32", kind |-> "bwd"],
       [isa |-> "sse41",         dt |-> "f32", kind |-> "fwd"],
       [isa |-> "sse41",         dt |-> "f32", kind |-> "bwd"] >>

\* Problems that differ only where no guard tells them apart are enumerated
\* once: an explicit dst (diff_src) equal to the layout `any` resolves to
\* behaves as `any`, average pooling keeps no workspace whatever the
\* forward prop kind, and a zero-volume problem is refused before its
\* attributes are looked at.
MCProblems ==
    {p \in [alg: {"max", "avg"}, prop: {"training", "inference"}, dt: {"f32"},
            src: {"nChw8c", "nChw16c"}, dst: {"any", "nChw16c"},
            diffDst: {"nChw8c", "nChw16c"}, diffSrc: {"any", "nChw8c"},
            zero: BOOLEAN, attrDefault: BOOLEAN] :
        /\ p.dst # p.src
        /\ p.diffSrc # p.diffDst
        /\ p.alg = "avg" => p.prop = "training"
        /\ p.zero => p.attrDefault}

\* A CPU with AVX but not AVX-512, and one with AVX-512.
MCAvailIsas == {{"sse41", "avx"}, {"sse41", "avx", "avx512_common"}}
=============================================================================
