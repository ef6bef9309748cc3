\* Two clients; the second request of each may be sent before the answer to
\* the first.
SPECIFICATION FairSpec
CONSTANTS
  s1 = s1
  s2 = s2
  Slaves = {s1, s2}
  Sensors = 1
  Size = 5
  InputsSize = 0
  ByteModulus = 10
  Written = Written
  Requests <- SmallRequests
  Depth = 2
  MaxTicks = 1
  MaxRequests = 2
INVARIANTS
  TypeOK
  NeverOlder
  LengthAnnounced
PROPERTY
  ImplementsStore
  Served
CHECK_DEADLOCK FALSE
