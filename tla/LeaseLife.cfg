SPECIFICATION Spec
CONSTANTS
  c1 = c1
  a1 = a1
  Client = {c1}
  Stack = {"v4", "v6"}
  Address = {a1}
  MayFlap = TRUE
  SaveChanDepth = 1
  MaxRuns = 3
  MaxLeases = 2
INVARIANT LeaseLifeTypeOK
INVARIANT FileIsOneRun
INVARIANT HeldIsOnFile
INVARIANT ReleaseIsComplete
INVARIANT RenewCostsNothing
