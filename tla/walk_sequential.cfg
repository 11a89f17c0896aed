\* The sequential dispatcher, in every world.
CONSTANTS
  Folders <- MCFolders
  Places <- MCPlaces
  Worlds <- AllWorlds
  Pooled = FALSE
  MaxWorkers = 2
  MaxIdleRounds = 1
SPECIFICATION FairSpec
INVARIANT
  SameOutput
