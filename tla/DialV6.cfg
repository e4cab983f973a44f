SPECIFICATION FairSpec
CONSTANTS
  s1 = s1
  s2 = s2
  Server = {s1, s2}
  NoServer = none
  Needs = {{"na"}, {"na", "pd"}}
  PairDepth = 1
  MaxTries = 2
  MaxDials = 2
  MaxFaults = 1
INVARIANT DialV6TypeOK
INVARIANT LeaseComplete
INVARIANT PanicsOnlyOnOmission
INVARIANT RelayTransparent
PROPERTY ImplementsLeaseExchange
PROPERTY DialEnds
