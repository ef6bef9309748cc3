\* An empty read cannot pass for a frame.  error_count up to 2 and ages up to
\* 6: one more than the largest bound.
SPECIFICATION Spec
CONSTANTS
  t1 = t1
  t2 = t2
  Foreign = foreign
  FrameMap <- TwoSensors
  Capacity = 3
  MaxAge = 6
  ErrorModulus = 3
  EmptyReads = {"unknown"}
INVARIANTS
  StoredWasReceived
  AgeReported
