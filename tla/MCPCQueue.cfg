SPECIFICATION Spec
CONSTANTS
  Thread = {t1, t2, t3}
  Item = {a, b}
  MaxLen = 3
  MaxBatch = 3
SYMMETRY Symmetry
INVARIANTS
  NoLostWakeup
