SPECIFICATION FairSpec
CONSTANTS
  SetSize = 2
  Threads = {t1}
  Interest <- OneAtATime
INVARIANTS
  SetsMatchItems
  NoLostWakeup
PROPERTIES
  BlockServed
  EventServed
