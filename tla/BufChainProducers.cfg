\* Two producers and one consumer: priorityQueue.Push and the receive
\* queue's Push are called by many goroutines at once.
CONSTANTS
  Producers = {p1, p2}
  Consumers = {c1}
  PerProducer = 2
  InitSize = 1
  DequeueLimit = 2
  IdxBits = 2
  Nil = Nil
SPECIFICATION Spec
INVARIANT ElementsKept
\* All values pushed and taken, with the consumer idle: the program's end.
CHECK_DEADLOCK FALSE
