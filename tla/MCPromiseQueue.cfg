SPECIFICATION Spec
CONSTANTS
  Tasks = {t1, t2, t3, t4}
  MaxTasks = 2
  Nil = Nil
INVARIANTS AtMostMaxTasks NoIdleSlot
PROPERTIES EveryTaskSettles ImplementsFifoPool
CHECK_DEADLOCK FALSE
