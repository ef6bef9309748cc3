\* The offsets of a P and of a dP channel, two writes by clients.
SPECIFICATION Spec
CONSTANTS
  Count = 2
  Offsets = {2}
  Bytes = {0, 1}
  Parts = 2
  Broken = Broken
  Printed <- TwoDigits
  Placements <- AnyPlacement
  MaxWrites = 2
INVARIANTS
  TypeOK
  RegistersShowCoefficients
PROPERTIES
  StartsFromRecording
  TornOnlyByOverlap
