SPECIFICATION FairSpec
CONSTANTS
  Requests = {a, b, v}
  V1 = {v}
  Permits = 2
VIEW LiveDeadlines
INVARIANTS PermitsConserved
PROPERTIES RefusedOnlyWhenFull ImplementsPermitPool EveryCallEnds PermitsReturn
