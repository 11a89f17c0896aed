\* A real shape can appear between the two shape queries of a run.
CONSTANTS
  Anchor = anchor
  Extras = {e1}
  LateFiles = FALSE
  MaxJobs = 4
  Sightings <- AllSeen
  Confirmations = 2
  Reliable = TRUE
  MaxMishaps = 1
SPECIFICATION Spec
CHECK_DEADLOCK FALSE
INVARIANTS
  RealShapeSkipped
