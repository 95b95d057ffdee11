CONSTANTS
  Target = "claude"
  Dests <- MCDests
  Requests = {"full", "small"}
  LastVersion = 2
  Source <- MCSource
  Plans <- MCPlans
  ManifestVersion <- MCManifestVersion
  HookEntries <- MCHookEntries
  UserEntries <- MCUserEntries
  Disabled = {"slack"}
  FirstRecord <- MCFirstRecord
  FirstDisk <- MCFirstDisk
  MaxEdits = 1
SPECIFICATION Spec
INVARIANTS
  DoctorAgrees
  UninstallLeavesSettings
  HooksRegisteredOnce
PROPERTY UserKeysSurvive
