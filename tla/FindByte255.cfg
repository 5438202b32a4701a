SPECIFICATION Spec
CONSTANTS
  Base = 7
  Ipv4Len = 4
  Ipv6Len = 5
  Data = {0, 6}
  MaxInput = 15
INVARIANT
  AnyByteIsRead
