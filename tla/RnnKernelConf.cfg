\* Every RNN descriptor initialiser with every choice of optional tensors,
\* then init_jit and init_const_def.
SPECIFICATION Spec
\* Configuration ends once the kernel's macros are defined.
CHECK_DEADLOCK FALSE
INVARIANT NoUninitRead
INVARIANT KernelFollowsDesc
