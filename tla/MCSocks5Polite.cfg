SPECIFICATION FairSpec
CONSTANTS
  BufSize = 2
  SockCap = 1
  MaxData = 3
  Methods = {0, 2}
  Creds = {1}
  Requests = {1, 3, 7}
  AddrLists <- PoliteLists
  ErrnoCodes = {4}
  Env = {}
INVARIANTS
  ServerUp
  ListenerReads
PROPERTIES
  RequestAnswered
  FallbackWorks
  UpstreamDelivered
  DownstreamDelivered
CHECK_DEADLOCK FALSE
