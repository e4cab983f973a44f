SPECIFICATION FairSpec
CONSTANTS
  c1 = c1
  c2 = c2
  Client = {c1, c2}
  Stack = {"v4", "v6"}
  Act = "renew"
  V4First = TRUE
  DialResultChanLen = 1
  MaxDuration = 100
  FarFuture = 100
  Second = 10
  AvgWindow = 1
INVARIANT ThreeRTypeOK
INVARIANT SummaryOfReported
PROPERTY ThreeREnds
