\* Under fair threads, starts end and dead processes are taken out, across ends of the manager.
SPECIFICATION FairSpec
CONSTANTS
  t1 = t1
  t2 = t2
  p1 = p1
  p2 = p2
  None = None
  Threads = {t1, t2}
  Autostarter = t1
  Procs = {p1}
  Requests = {"start", "console", "refresh", "shutdown"}
  Faults = {"prepare", "stream_io", "log_dir", "duplication"}
  AutoStart = FALSE
  CallerLabels = {}
PROPERTIES NothingHangs
