SPECIFICATION FairSpec
CONSTANTS
  c1 = c1
  Client = {c1}
  Stack = {"v4", "v6"}
  DialResultChanLen = 1
  SaveChanDepth = 2
  MaxDuration = 100
  FarFuture = 100
  Second = 10
  AvgWindow = 1
  V4First = FALSE
  SaveLease = TRUE
  ApplyLease = TRUE
  FlapNum = 1
  MaxFlaps = 1
  Interruptible = TRUE
  SettleTime = FALSE
INVARIANT DoraInv
INVARIANT WaitGroupsExact
INVARIANT NeverSendsOnClosed
INVARIANT FinalSummary
INVARIANT NoReleaseWhileDialling
PROPERTY CtrlCStops
PROPERTY RedialEnds
PROPERTY ImplementsTestRun
