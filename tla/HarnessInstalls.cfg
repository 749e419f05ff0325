\* Two runs of the install command over four harnesses and their five files,
\* with one edit by the user, every failure and crashes.
SPECIFICATION hiSpec
CONSTANTS
  UserEntry = {"hook", "server"}
  Rich = {"server"}
  Files <- MCFiles
  FilesOf <- MCFilesOf
  KindOf <- MCKindOf
  Initial <- MCInitial
  Picks <- MCPicks
  MaxRuns = 2
  MaxEdits = 1
INVARIANTS UserDataKept FailedInstallUndone ReportsHold
\* the runs are over
CHECK_DEADLOCK FALSE
