SPECIFICATION Spec
CONSTANTS
  MaxMishaps = 2
  MoveMishaps = 3
  BatchMishaps = 1
  Files <- MCFiles
  Home <- MCHome
  Here = "."
  Take <- MCTake
  Number <- MCNumber
  Umids <- MCUmids
  NoUmid = "unreadable"
  Providers <- MCProviders
  Subpaths <- MCSubpaths
  Names <- MCNames
  Unguarded = {"p2"}
  Grouped <- MCGrouped
  Raw <- MCRaw
  Reads <- MCReads
  PageSize = 2
  Known = {"x"}
  Missing = 1
  Corpora <- MCCorpora
  Nested <- MCNested
  Media <- MCMedia
  MediaHome <- MCMediaHome
  WaiverRows <- MCWaiverRows
  Originals <- MCOriginals
  PlanRows <- MCPlanRows
  BatchRows <- MCBatchRows
  Limits = {0, 2}
  MaxFailures = 2
  Last = 3
INVARIANTS
  TypeOK
  DescentSound
  NothingSilent
  SegmentsTogether
  ChargedWithCause
  AgreedIsTrue
  Settled
  OnlyTheBlockedWait
  DocumentWhole
PROPERTIES
  ScanDwindles
  EntitiesInCustody
CHECK_DEADLOCK FALSE
