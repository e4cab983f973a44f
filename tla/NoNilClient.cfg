SPECIFICATION Spec
CONSTANTS
  c1 = c1
  Client = {c1}
  Stack = {"v4"}
  DialResultChanLen = 2
  SaveChanDepth = 1
  MaxDuration = 100
  FarFuture = 100
  Second = 10
  AvgWindow = 1
  V4First = TRUE
  SaveLease = FALSE
  ApplyLease = FALSE
  FlapNum = 1
  MaxFlaps = 2
  Interruptible = TRUE
  SettleTime = TRUE
INVARIANT NoNilClient
