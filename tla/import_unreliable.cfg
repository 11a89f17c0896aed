\* Jobs and shapes that cannot be read, files that land late, extras unseen.
CONSTANTS
  Anchor = anchor
  Extras = {e1}
  LateFiles = TRUE
  MaxJobs = 3
  Sightings <- AllOrNone
  Confirmations = 2
  Reliable = FALSE
  MaxMishaps = 1
SPECIFICATION FairSpec
CHECK_DEADLOCK FALSE
INVARIANTS
PROPERTIES
  AnchorLast
  RunsEnd
