\* Under fair threads, marks and locks are given back.
SPECIFICATION FileFairSpec
CONSTANTS
  t1 = t1
  t2 = t2
  p1 = p1
  p2 = p2
  None = None
  Threads = {t1, t2}
  Autostarter = t1
  Procs = {p1}
  Requests = {"start"}
  Faults = {"duplication"}
  AutoStart = FALSE
  CallerLabels <- MCCallerLabels
  Jobs = {"transfer_to"}
  FilesFail = TRUE
PROPERTIES MarksAndLocksGo
