SPECIFICATION Spec
CONSTANTS
  None = None
  c1 = c1
  c2 = c2
  Command = {c1}
  Job = {1, 2}
  Token = {t1, t2}
  Worker = {w1, w2}
  Client = {p1, p2}
  DefaultJobs = 1
  MaxJobs = 1
  MaxFaults = 0
  Requests <- CrashRequests
SYMMETRY Symmetry
INVARIANTS IdleExitRaceClosed
CHECK_DEADLOCK FALSE
