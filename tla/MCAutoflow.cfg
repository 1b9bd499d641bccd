SPECIFICATION Spec
CONSTANTS
  s1 = s1
  s2 = s2
  t1 = t1
  t2 = t2
  d1 = d1
  d2 = d2
  u1 = u1
  Triggers <- TwoTriggers
  Creates <- OneSaving
  Deletes <- OneDelete
  Users <- OneUser
  UserOf <- OwnerOfOne
  TargetOf <- BothOnOne
  VictimOf <- DeletesOne
  MaxActive = 1
SYMMETRY TriggerSymmetry
INVARIANTS
  DepositTargetsLiveSaving
  DepositIsRecordable
  ProgressBackedByExecutions
  SerialProgressExact
  NoPendingCommitted
  OkAnswerIsRecorded
  NoteMatchesRecord
  DeletedHasNoJob
  LiveHasJob
  DepositAfterGoal
PROPERTIES
  ImplementsLedger
