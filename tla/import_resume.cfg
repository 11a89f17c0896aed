\* One clip with two extra components; Vidispine reads reliably; one mishap.
CONSTANTS
  Anchor = anchor
  Extras = {e1, e2}
  LateFiles = FALSE
  MaxJobs = 8
  Sightings <- AllSeen
  Confirmations = 2
  Reliable = TRUE
  MaxMishaps = 1
SPECIFICATION LiveSpec
CHECK_DEADLOCK FALSE
INVARIANTS
  TypeOK
  PromotedWhole
  RecordedPromotes
PROPERTIES
  NoRivalImport
  ImplementsPromise
  Converges
