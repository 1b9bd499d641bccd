SPECIFICATION FairSpec
CONSTANTS
  s1 = s1
  s2 = s2
  t1 = t1
  t2 = t2
  d1 = d1
  d2 = d2
  u1 = u1
  Triggers <- OneTrigger
  Creates <- TwoSavings
  Deletes <- OneDelete
  Users <- OneUser
  UserOf <- OwnerOfTwo
  TargetOf <- OneOnFirst
  VictimOf <- DeletesOne
  MaxActive = 1
INVARIANTS
  SerialCreatesRespectLimit
PROPERTIES
  TriggersEnd
  DeletesEnd
