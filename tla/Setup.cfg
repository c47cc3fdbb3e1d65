SPECIFICATION FairSpec
CONSTANTS
  Versions = {"v1", "v2"}
  MaxKills = 2
  CallsFail = TRUE
  ParentSlow = TRUE
INVARIANTS
  InstallsAlone
  NothingLeft
PROPERTIES
  ImplementsInstallation
  AsksBeforeShutdown
  AllEnd
  Recovers
