CONSTANTS
  Nobody = Nobody
  Threads = {t1, t2}
  Shapes <- SmallModels
  MaxUnLim = 2
  Failing = {"inquire", "put", "sync"}
  t1 = t1
  t2 = t2
SPECIFICATION Spec
PROPERTIES KeepsThePromise WriteDataEnds
CHECK_DEADLOCK FALSE
