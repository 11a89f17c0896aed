\* plan runs over a row while apply works on it.
CONSTANTS
  Originals = {video, audio}
  Taped = {video}
  Overlapping = TRUE
  MaxMishaps = 0
SPECIFICATION Spec
CHECK_DEADLOCK FALSE
PROPERTIES
  PlanKept
