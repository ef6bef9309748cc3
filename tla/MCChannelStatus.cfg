\* Values inside and outside the thresholds, an open circuit (-1) and NaN.
\* One first tick instead of five.
SPECIFICATION Spec
CONSTANTS
  NaN = NaN
  Values <- SmallValues
  Readings <- SmallReadings
  OpenCircuit <- SmallOpen
  Configs <- TwoConfigs
  BTemp <- SmallB
  GroupSIG = 1
  FirstTicks = 1
INVARIANT
  TypeOK
PROPERTIES
  HoldOnFault
  NoFalseOk
  JunctionTrusted
  AlarmLatched
  DisabledStays
