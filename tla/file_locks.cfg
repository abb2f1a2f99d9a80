\* Duplications and transfers of one server, and the end of the manager.
SPECIFICATION FileSpec
CONSTANTS
  t1 = t1
  t2 = t2
  p1 = p1
  p2 = p2
  None = None
  Threads = {t1, t2}
  Autostarter = t1
  Procs = {p1}
  Requests = {"start", "shutdown"}
  Faults = {"duplication", "manager_crash"}
  AutoStart = FALSE
  CallerLabels <- MCCallerLabels
  Jobs = {"duplicate", "transfer_to", "transfer_from"}
  FilesFail = TRUE
INVARIANTS LocksExclude
