CONSTANTS
  Nobody = Nobody
  Closed = Closed
  Threads = {t1, t2, t3}
  Calls = {"position", "slice"}
  MaxProcess = 3
  MaxCalls = 2
  t1 = t1
  t2 = t2
  t3 = t3
SPECIFICATION Spec
 
PROPERTY ReadsReturnUnlessSelfWaiting
CHECK_DEADLOCK FALSE
