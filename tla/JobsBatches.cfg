SPECIFICATION Spec
CONSTANTS
  None = None
  c1 = c1
  c2 = c2
  Command = {c1, c2}
  Job = {1, 2, 3}
  Token = {t1, t2, t3}
  Worker = {w1, w2}
  Client = {p1, p2}
  DefaultJobs = 2
  MaxJobs = 2
  MaxFaults = 1
  Requests <- BatchRequests
SYMMETRY Symmetry
INVARIANTS KillFences UniquePending
PROPERTIES ImplementsQueue DispatchObeysControls
CHECK_DEADLOCK FALSE
