SPECIFICATION AllSpec
CONSTANTS
  Waiter = {t1, t2, t3, t4}
  InitialCount = 2
  Null = Null
  Absent = Absent
INVARIANT
  NoLostWakeup
PROPERTIES
  ImplementsGate
  ImplementsFifo
  CallsReturn
  GarbageIsDeleted
CHECK_DEADLOCK FALSE
