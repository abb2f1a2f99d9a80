\* The manager crashes and boots again, and takes the server up.
SPECIFICATION FairSpec
CONSTANTS
  t1 = t1
  t2 = t2
  p1 = p1
  p2 = p2
  None = None
  Threads = {t1, t2}
  Autostarter = t1
  Procs = {p1, p2}
  Requests = {"start"}
  Faults = {"manager_crash"}
  AutoStart = TRUE
  CallerLabels = {}
PROPERTIES ImplementsInstance OrphansAreEnded
