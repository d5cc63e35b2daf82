\* Two clients; the socket of the listener holds two datagrams, so that it overflows.
CONSTANTS
  Clients = {c1, c2}
  QueueMax = 2
SPECIFICATION Spec
CHECK_DEADLOCK FALSE
INVARIANTS TypeOK InStep WaitHasAReason
PROPERTIES LineIsAnswered
