\* A page view during the crash of a starting server leaves it "starting".
SPECIFICATION Spec
CONSTANTS
  t1 = t1
  t2 = t2
  p1 = p1
  p2 = p2
  None = None
  Threads = {t1, t2}
  Autostarter = t1
  Procs = {p1}
  Requests = {"start", "refresh"}
  Faults = {}
  AutoStart = FALSE
  CallerLabels = {}
INVARIANTS StartingIsTransient
