CONSTANTS
  None = None
  Modules <- MCModules
  Components <- MCComponents
  Profiles <- MCProfiles
  BaseModules <- MCBaseModules
  LanguageExtra <- MCLanguageExtra
  Manifests <- MCManifests
  PlanRequests <- MCRequests
  SourceFiles <- MCSourceFiles
SPECIFICATION FairSpec
CHECK_DEADLOCK FALSE
INVARIANTS
  PlanExact
PROPERTY ResolutionEnds
