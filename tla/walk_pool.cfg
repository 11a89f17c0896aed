\* Two workers on a tree of seven folders, no directory with two paths.
CONSTANTS
  Folders <- MCFolders
  Places <- MCPlaces
  Worlds <- UnaliasedWorlds
  Pooled = TRUE
  MaxWorkers = 2
  MaxIdleRounds = 1
SPECIFICATION FairSpec
INVARIANTS
  TypeOK
  AccountedFor
  AuthorizedDescent
  OutputDetermined
PROPERTIES
  ImplementsReport
  Dwindles
  Terminates
