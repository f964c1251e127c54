---------------------------- MODULE MCConvOffsets ----------------------------
EXTENDS ConvOffsets

\* Shapes with groups that do and do not divide the channel counts per
\* group into several blocks, and neighbouring dimensions of different
\* sizes, so that any two swapped or mis-scaled indices land elsewhere.
\* The library only creates convolutions whose g divides ic and oc.
Shape(g, mb, ic, id, ih, iw, oc, od, oh, ow, kd, kh, kw) ==
    [g |-> g, mb |-> mb, ic |-> ic, id |-> id, ih |-> ih, iw |-> iw,
     oc |-> oc, od |-> od, oh |-> oh, ow |-> ow, kd |-> kd, kh |-> kh, kw |-> kw]

MCProblems ==
    { Shape(2, 2, 4, 1, 2, 3, 2, 1, 3, 2, 1, 2, 3),
      Shape(1, 1, 2, 2, 1, 2, 3, 2, 2, 1, 2, 1, 1),
      Shape(3, 1, 3, 1, 1, 1, 6, 1, 1, 2, 1, 1, 2) }
=============================================================================
