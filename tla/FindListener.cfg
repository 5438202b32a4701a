SPECIFICATION Spec
CONSTANTS
  BufSize = 3
  SockCap = 2
  MaxData = 1
  Methods = {0}
  Creds = {1}
  Requests = {3, 7}
  AddrLists <- NoAddress
  ErrnoCodes = {4}
  Env = {"pipeline"}
INVARIANT
  ListenerReads
CHECK_DEADLOCK FALSE
