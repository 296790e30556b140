SPECIFICATION EitherSpec
CONSTANTS
  Thread = {t1, t2, t3}
  a = a
  b = b
  c = c
  OnceId = {a, b, c}
  Needs <- Diamond
  ClosureMayThrow = TRUE
  once_ = c
  MaxShutDowns = 2
SYMMETRY Symmetry
INVARIANTS
  RunsAtMostOnce
  ReturnedSeesInit
  OnceInv
  OneInstance
