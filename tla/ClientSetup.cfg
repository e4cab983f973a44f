SPECIFICATION Spec
CONSTANTS
  Setups <- MCSetups
  MacSize = 8
  VLANSize = 4
  VLANTries = 2
  RATries = 3
INVARIANT ClientSetupTypeOK
INVARIANT NthClient
INVARIANT ClientsDistinct
INVARIANT AnswersFit
INVARIANT FailsForAReason
