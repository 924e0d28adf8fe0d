\* One producer and one consumer, as every bufChain of the mux is used
\* (one writeSession, one reader).  Rings of 1 and 2 slots with 2-bit
\* indexes: the chain grows, a ring wraps and tail passes MaxIdx.
CONSTANTS
  Producers = {p1}
  Consumers = {c1}
  PerProducer = 6
  InitSize = 1
  DequeueLimit = 2
  IdxBits = 2
  Nil = Nil
SPECIFICATION Spec
INVARIANT TypeOK
PROPERTY FifoSpec AllTaken
\* All values pushed and taken, with the consumer idle: the program's end.
CHECK_DEADLOCK FALSE
