SPECIFICATION Spec
CONSTANTS
  BufSize = 3
  SockCap = 2
  MaxData = 2
  Methods = {0, 2, 255}
  Creds = {0, 1}
  Requests = {1, 3, 7}
  AddrLists <- AllLists
  ErrnoCodes = {3, 5}
  Env = {"pipeline", "garbage", "client_close", "client_reset", "origin_first", "origin_close", "origin_reset", "no_thread", "no_fd", "fd_shift"}
INVARIANTS
  ResolverSafe
  AuthBeforeRelay
  ReplyMatchesLog
  SuccessMeansConnected
  WritersHaveData
  HalfDuplex
CHECK_DEADLOCK FALSE
