\* Two originals, one of them in P5; two mishaps; plan and apply take turns.
CONSTANTS
  Originals = {video, audio}
  Taped = {video}
  Overlapping = FALSE
  MaxMishaps = 2
SPECIFICATION FairSpec
CHECK_DEADLOCK FALSE
INVARIANTS
  TypeOK
  DoneIsVerified
  TapeOnlyArchived
PROPERTIES
  PlanKept
  ImplementsCustody
  Settles
