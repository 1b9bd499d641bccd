SPECIFICATION Spec
CONSTANTS
  LastMonth = 4
  LengthOf <- FromFebruary
  LastDay <- EndOfMarch
  NoDate = NoDate
  MaxRetries = 3
  MaxFailures = 4
  MaxClock = 4
  a1 = a1
  a2 = a2
  a3 = a3
  Members <- ThreeMembers
INVARIANTS
  OnTimeIsNotPast
  ShownIsNextRun
  RetriesAreCounted
  CloneAccepts
  GroupLoads
