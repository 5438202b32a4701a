SPECIFICATION Spec
CONSTANTS
  Conns = {c1, c2}
  Admins = {}
  NFd = 8
  SetSize = 8
  MaxAddrs = 2
  MaxConns = {2}
  Env = {}
INVARIANT
  WatchedIsOpen
CHECK_DEADLOCK FALSE
