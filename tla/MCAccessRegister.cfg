SPECIFICATION Spec
CONSTANTS
  Entry = {e1, e2, e3}
  Max = 4
INVARIANTS
  RingOrdered
PROPERTIES
  RecentSpec
