SPECIFICATION FairSpec
CONSTANTS
  c1 = c1
  c2 = c2
  Client = {c1, c2}
  Stack = {"v4", "v6"}
  DialResultChanLen = 2
  SaveChanDepth = 1
  MaxDuration = 100
  FarFuture = 100
  Second = 10
  AvgWindow = 1
  V4First = TRUE
  SaveLease = TRUE
  ApplyLease = FALSE
  FlapNum = 0
  MaxFlaps = 0
  Interruptible = FALSE
  SettleTime = TRUE
INVARIANT DoraInv
INVARIANT ResultsConserved
INVARIANT LeaseFileComplete
PROPERTY RunEnds
