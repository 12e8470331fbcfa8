SPECIFICATION Spec
CONSTANTS
  None = None
  CopyIno = copied
  f1 = f1
  f2 = f2
  f3 = f3
  copied = copied
  Dir = {"s", "t", "d", "v", "z", "y"}
  Base = {"a", "b"}
  MaxSafe = 6
  Files = {f1, f2, f3}
  Roots = {"s", "t", "v"}
  DashOf <- MCDashOf
  Dests = {"v"}
  Sessions <- LossSession
  Busy = {"ask"}
  JUMP_RETRIES = 1
PROPERTIES NoFileLost
CHECK_DEADLOCK FALSE
