\* Starts, stops and queued restarts of one server in every interleaving.
SPECIFICATION Spec
CONSTANTS
  t1 = t1
  t2 = t2
  p1 = p1
  p2 = p2
  None = None
  Threads = {t1, t2}
  Autostarter = t1
  Procs = {p1, p2}
  Requests = {"start", "stop", "queue"}
  Faults = {"stream_io"}
  AutoStart = FALSE
  CallerLabels = {}
SYMMETRY Symmetry
INVARIANTS SingleInstance RegisteredIsWatched 
