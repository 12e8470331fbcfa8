SPECIFICATION SafetySpec
CONSTANTS
  None = None
  c1 = c1
  c2 = c2
  Command = {c1}
  Job = {1, 2}
  Token = {t1, t2, t3, t4}
  Worker = {w1, w2, w3}
  Client = {p1, p2, p3}
  DefaultJobs = 1
  MaxJobs = 1
  MaxFaults = 2
  Requests <- ControlRequests
SYMMETRY Symmetry
INVARIANTS OutcomeIsReal ExecutorInv ExactlyOnceUndisturbed NoLostWakeup
PROPERTIES RecordedIsFinal InterruptedIsGone FailsOnlyOnVanishedSession
CHECK_DEADLOCK FALSE
