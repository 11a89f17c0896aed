SPECIFICATION FairSpec
CONSTANTS
  Scanners = {s1}
  Pages = {b1}
  MaxItems = 4
  MaxMishaps = 2
  None = None
INVARIANTS
  TypeOK
  NoneForgotten
  StatedOnce
PROPERTIES
  RecordedStays
  Settles
CHECK_DEADLOCK FALSE
