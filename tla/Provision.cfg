SPECIFICATION Spec
CONSTANTS
  ReleaseMappings <- MCReleaseMappings
  Aliases <- MCAliases
  Firmwares <- MCFirmwares
  CompatPatches <- MCCompatPatches
  SkipIfPresent <- MCSkipIfPresent
  Commits <- MCCommits
  Profiles <- MCProfiles
  CommandLines <- MCCommandLines
  BranchMoves <- MCBranchMoves
  CallerTrees <- MCCallerTrees
  MovesWhileRead = FALSE
INVARIANTS
  TypeOK
  ProfileSelection
  BinaryAsRecorded
  ReleaseAsAsked
  LeftAsPromised
