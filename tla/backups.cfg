\* Restores and cold backups race with each other and with starts.
SPECIFICATION FileSpec
CONSTANTS
  t1 = t1
  t2 = t2
  p1 = p1
  p2 = p2
  None = None
  Threads = {t1, t2}
  Autostarter = t1
  Procs = {p1}
  Requests = {"start"}
  Faults = {"duplication"}
  AutoStart = FALSE
  CallerLabels <- MCCallerLabels
  Jobs = {"restore", "cold_backup"}
  FilesFail = TRUE
SYMMETRY Symmetry
INVARIANTS BackupMarkIsTransient
