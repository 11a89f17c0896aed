\* Two workers on a tree of seven folders, two paths of one directory.
CONSTANTS
  Folders <- MCFolders
  Places <- MCPlaces
  Worlds <- AliasedWorlds
  Pooled = TRUE
  MaxWorkers = 2
  MaxIdleRounds = 1
SPECIFICATION FairSpec
INVARIANT
  SameOutput
