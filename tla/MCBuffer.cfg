SPECIFICATION Spec
CONSTANTS
  Byte = {b0, b1}
  N = 4
INVARIANTS
  PointersOrdered
PROPERTIES
  FifoSpec
