\* Two programs with the same id, one of which may be killed, sockets that hold
\* one package.
SPECIFICATION FairSpec
CONSTANTS
  Programs = {p1, p2}
  Fragile = {p2}
  None = None
  Sends = 1
  Buffer = 1
INVARIANTS TypeOK AckIsForOrder AckedIsFound NoAckSleptOver SendsBeforeRemove
PROPERTY SessionsEnd
CHECK_DEADLOCK FALSE
