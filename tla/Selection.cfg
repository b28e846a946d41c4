SPECIFICATION Spec
CONSTANTS
  r1 = r1
  r2 = r2
  Requestor = {r1, r2}
  MaxRequest = 2
  MaxParts = 1
  MaxTime = 3
  Notify = {TRUE}
INVARIANTS
  TypeOK
  AnsweredOnce
  ValueIsWhole
  PropertyIsFree
  IncrementHasRecord
  OwnerAnswers
PROPERTIES
  NothingOverwritten
  EveryCallAnswered
CHECK_DEADLOCK FALSE
