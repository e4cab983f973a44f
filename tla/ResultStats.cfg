SPECIFICATION Spec
CONSTANTS
  DialResultChanLen = 2
  MaxDuration = 100
  FarFuture = 100
  Second = 2
  AvgWindow = 2
  MaxResults = 3
  MaxTime = 2
INVARIANT CountersExact
INVARIANT TimesExact
INVARIANT ShortestExact
