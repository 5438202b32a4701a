SPECIFICATION FairSpec
CONSTANTS
  Conns = {c1, c2}
  Admins = {a1}
  NFd = 7
  SetSize = 6
  MaxAddrs = 2
  MaxConns = {1, 2}
  Env = {"dns", "sigterm"}
INVARIANTS
  CountersMatch
  OwnDescriptors
  OnlyRetriesLeaveItems
  EventsReachTheirOwner
  JobsReachTheirOwner
PROPERTIES
  LimitKept
  EveryPeerIsTaken
CHECK_DEADLOCK FALSE
