SPECIFICATION FairSpec
CONSTANTS
  Threads = {t1, t2, t3}
  Conns = {c1, c2}
  MaxConns = 2
  None = None
  Busy = FALSE
INVARIANTS OneRequestPerConnection ClosedPoolIsClosed
PROPERTIES NeverStalls ImplementsLeases
