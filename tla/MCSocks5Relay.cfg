SPECIFICATION Spec
CONSTANTS
  BufSize = 2
  SockCap = 2
  MaxData = 5
  Methods = {0}
  Creds = {1}
  Requests = {1}
  AddrLists <- OneUp
  ErrnoCodes = {4}
  Env = {"origin_first", "client_close", "client_reset", "origin_close", "origin_reset"}
INVARIANTS
  NoStall
  RelayToOrigin
  RelayToClient
CHECK_DEADLOCK FALSE
