SPECIFICATION LiveSpec
CONSTANTS
  Tester = tester
  Thread = {tester, t1, t2}
  Flow = {f1, f2}
  Job = {j1}
  User = {f1, f2, j1}
  Id = {i1, i2}
  FlowLock = flow_mutex
  JobLock = completion_mutex
  Lock = {flow_mutex, completion_mutex}
  LockOf <- Locks
  TestCount = 2
  Polite = TRUE
INVARIANTS TypeOK Outstanding CancelsKept
PROPERTIES LoneCancelReturns LoneCancelTests
