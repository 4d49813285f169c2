SPECIFICATION Spec
CONSTANTS
  Threads = {t1, t2, t3}
  Conns = {c1, c2, c3}
  MaxConns = 2
  None = None
  Busy = TRUE
SYMMETRY Symmetry
INVARIANTS TypeOK OneOwner NoLeak WithinCapacity BlocksOnlyWhenFull IdleHasDefaults
