SPECIFICATION Spec
CONSTANTS
  None = None
  CopyIno = copied
  f1 = f1
  f2 = f2
  f3 = f3
  copied = copied
  Dir = {"s", "t", "d", "v", "z", "y"}
  Base = {"a", "b"}
  MaxSafe = 6
  Files = {f1, f2, f3}
  Roots = {"s", "t", "v"}
  DashOf <- MCDashOf
  Dests = {"d"}
  Sessions <- SwapSession
  Busy = {"ask"}
  JUMP_RETRIES = 1
PROPERTIES LinksFollow
CHECK_DEADLOCK FALSE
