--------------------------- MODULE MCExampleMemIO ---------------------------
(* An OpenCL build, on a machine with no GPU or with one.  Two engines,  *)
(* one stream and one memory object are enough for a memory whose engine is either kind, and *)
(* for a memory outliving its engine.  Two-byte buffers with two byte     *)
(* values tell a copy from a no-op and from a partial copy.               *)
EXTENDS ExampleMemIO

MCIndices == 0..1
MCBackends == {"native", "ocl"}
=============================================================================
