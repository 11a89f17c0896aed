\* A component can land between the shape query and the job listing.
CONSTANTS
  Anchor = anchor
  Extras = {e1, e2}
  LateFiles = FALSE
  MaxJobs = 5
  Sightings <- AllSeen
  Confirmations = 2
  Reliable = TRUE
  MaxMishaps = 0
SPECIFICATION Spec
CHECK_DEADLOCK FALSE
INVARIANTS
  ImportedOnce
