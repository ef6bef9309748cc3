\* Two channels, an empty read may leave anything in canmsg, ages are left out.
SPECIFICATION FairSpec
CONSTANTS
  t1 = t1
  t2 = t2
  Foreign = foreign
  FrameMap <- TwoSensors
  Capacity = 2
  MaxAge = 0
  ErrorModulus = 4
  EmptyReads = {"stale", "unknown"}
INVARIANTS
  TypeOK
  CompleteMeansFull
PROPERTIES
  ImplementsAccounting
  Recovery
  StoredOrReported
