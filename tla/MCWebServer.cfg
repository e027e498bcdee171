CONSTANTS
  c1 = c1
  c2 = c2
  Conns = {c1, c2}
  Sessions = {s1, s2}
  Threads = {t1, t2}
  PoolSize = 1
  Requests <- MCRequests
  MaxRequests = 1
  None = None
  serviceType = "type"
  actionList <- MCActions
  Methods = {"browse"}
  Absent = Absent
SPECIFICATION Spec
INVARIANTS OwnAnswers SessionsLive
PROPERTIES ClientAnswered
CHECK_DEADLOCK FALSE
