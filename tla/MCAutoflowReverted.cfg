SPECIFICATION Spec
CONSTANTS
  s1 = s1
  s2 = s2
  t1 = t1
  t2 = t2
  d1 = d1
  d2 = d2
  u1 = u1
  Triggers <- OneTrigger
  Creates <- OneSaving
  Deletes <- NoDelete
  Users <- OneUser
  UserOf <- OwnerOfOne
  TargetOf <- OneOnOne
  VictimOf <- DeletesNone
  MaxActive = 1
INVARIANTS
  SuccessMeansDeposited
