------------------------------ MODULE MCBufChain ------------------------------
EXTENDS BufChain

\* The refinement of the abstract FIFO queue, as a property for TLC.
FifoSpec == F!Spec
====
