\* The input registers have never been given a size.
SPECIFICATION Spec
CONSTANTS
  s1 = s1
  s2 = s2
  Slaves = {s1}
  Sensors = 1
  Size = 5
  InputsSize = 0
  ByteModulus = 10
  Written = Written
  Requests <- SmallRequests
  Depth = 1
  MaxTicks = 1
  MaxRequests = 1
INVARIANT
  InputsAreRead
CHECK_DEADLOCK FALSE
