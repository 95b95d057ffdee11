CONSTANTS
  Names = {"old", "new", "help"}
  BadNames = {"help"}
  SessionFiles <- MCSessionFiles
  Inspectors = {i, j}
  FirstAliases <- MCFirstAliases
  MaxCommands = 2
  MaxFaults = 3
  MaxInspections = 2
SPECIFICATION Spec
CHECK_DEADLOCK FALSE
INVARIANTS
  AliasesSafe
  HistoryConsistent
PROPERTY ReportTrue
SYMMETRY Symmetry
