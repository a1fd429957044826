CONSTANTS
  Procs = {p1, p2}
  Username = u1
  Locals <- Directories
  Missing = Missing
  Empty = Empty
  Unset = Unset
SPECIFICATION Spec
INVARIANTS TypeOK SessionIsWhole ForgetTriesEverything ReportedLoginIsSaved
PROPERTIES SavesKeepOtherSettings TempsAreRemoved
SYMMETRY Symmetry
