SPECIFICATION FairSpec
CONSTANTS
  None = None
  c1 = c1
  c2 = c2
  Command = {c1}
  Job = {1}
  Token = {t1, t2, t3}
  Worker = {w1, w2, w3}
  Client = {p1, p2}
  DefaultJobs = 1
  MaxJobs = 1
  MaxFaults = 1
  Requests <- LiveRequests
PROPERTIES JobsFinish NobodyWaitsForever
CHECK_DEADLOCK FALSE
