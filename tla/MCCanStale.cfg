\* An empty read leaves the previous frame in canmsg.
SPECIFICATION Spec
CONSTANTS
  t1 = t1
  t2 = t2
  Foreign = foreign
  FrameMap <- TwoSensors
  Capacity = 2
  MaxAge = 0
  ErrorModulus = 4
  EmptyReads = {"stale", "unknown"}
INVARIANTS
  StoredWasReceived
